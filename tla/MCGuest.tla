------------------------------ MODULE MCGuest -------------------------------
(***************************************************************************)
(* Configuration files for a small instance of module Guest: one package,  *)
(* two forwards and one declared command, given well, badly and not at     *)
(* all.                                                                    *)
(***************************************************************************)
EXTENDS Guest

CONSTANTS Image, OtherImage, Pkg, BadPkg, Name, k1, k2

Port(name, guestPort, hostPort) ==
    [name |-> name, guest |-> guestPort, host |-> hostPort]

PortLists == {
    <<>>,
    <<Port("web", 1, 1)>>,
    <<Port("web", 1, 1), Port("db", 2, 2)>>,
    <<Port("web", 1, 1), Port("db", 2, 1)>>,
    <<Port("web", 1, 1), Port("web", 2, 2)>>,
    <<Port("web", 1, 4), Port("db", 0, 2)>>,
    <<Port("web", 1, 4)>>}

Overrides == {
    <<>>,
    <<[name |-> "web", host |-> 2]>>,
    <<[name |-> "web", host |-> 3], [name |-> "db", host |-> 1]>>,
    <<[name |-> "web", host |-> 2], [name |-> "web", host |-> 3]>>,
    <<[name |-> "web", host |-> 3], [name |-> "web", host |-> 2]>>,
    <<[name |-> "api", host |-> 3]>>,
    <<[name |-> "web", host |-> 0]>>}

Command(args, workdir, compose) ==
    [args |-> args, workdir |-> workdir, compose |-> compose]

Commands == {
    Name :> Command("program", "inside", TRUE),
    Name :> Command("program", "", FALSE),
    Name :> Command("assignment", "", FALSE),
    Name :> Command("none", "", TRUE),
    Name :> Command("program", "outside", FALSE),
    Name :> Command("program", "absolute", TRUE),
    BadPkg :> Command("program", "", TRUE)}

MCSharedFiles ==
    {Missing, Invalid}
    \cup {[ports |-> ports] : ports \in PortLists}
    \cup {[ports |-> ports, packages |-> {Pkg}, cpus |-> 0] :
             ports \in PortLists}
    \cup {[commands |-> commands, packages |-> packages] :
             commands \in Commands, packages \in {{}, {Pkg}}}
    \cup {[image |-> Image, packages |-> {Pkg, BadPkg}],
          [image |-> OtherImage]}

MCLocalFiles ==
    {Missing, Invalid}
    \cup {[ports |-> ports] : ports \in Overrides}
    \cup {[ports |-> ports, cpus |-> cpus] :
             ports \in Overrides, cpus \in {0, 2}}

MCKeyFiles == {
    {{k1}},
    {{k1, "unusable"}, {k2, k1}},
    {{k1}, {k2, "private"}},
    {{"unusable"}},
    {}}
=============================================================================
