------------------------------- MODULE Config -------------------------------
(***************************************************************************)
(* The effective project configuration (internal/config): the shared file  *)
(* over the defaults, the local file over both, and the one validation at  *)
(* the end. The functions have no state; module Guest calls Load at the    *)
(* start of every command.                                                 *)
(*                                                                         *)
(* A file is a record of the fields it gives. Fields that are checked each *)
(* by itself and otherwise copied are represented by packages, commands    *)
(* and cpus. A command's args are told apart by what the first one is      *)
(* ("program", "assignment", "none"), its workdir by where it leads ("",   *)
(* "inside", "outside", "absolute").                                       *)
(***************************************************************************)
EXTENDS Integers, SequencesExt, FiniteSets

CONSTANTS
    Missing,       \* no file of that name
    Invalid,       \* a file that does not decode; a rejected configuration
    LegalPackages, LegalCommands,  \* names the patterns admit
    DefaultImage,  \* base_image of a project that names none
    MaxPort        \* the highest TCP port

Defaults == [image |-> DefaultImage, cpus |-> 4, ports |-> <<>>,
             packages |-> {}, commands |-> <<>>]

(* What a project file says where it says anything.                        *)
Given(file, field, otherwise) ==
    IF field \in DOMAIN file THEN file[field] ELSE otherwise

Decode(shared) ==
    IF shared = Missing THEN Defaults
    ELSE [field \in DOMAIN Defaults |-> Given(shared, field, Defaults[field])]

(* The entries of [[ports]] in the two files.                              *)
Forward == [name: STRING, guest: Int, host: Int]
HostPort == [name: STRING, host: Int]

IsShared(file) ==
    \/ file \in {Missing, Invalid}
    \/ "ports" \in DOMAIN file => file.ports \in Seq(Forward)
IsLocal(file) ==
    \/ file \in {Missing, Invalid}
    \/ "ports" \in DOMAIN file => file.ports \in Seq(HostPort)

(* The index portsByName holds for a name: the last port that has it.      *)
LastNamed(ports, name) == SelectLastInSeq(ports, LAMBDA p : p.name = name)

(* One [[ports]] entry of the local file; an error once is an error.       *)
Override(cfg, override) ==
    IF cfg = Invalid THEN Invalid
    ELSE LET i == LastNamed(cfg.ports, override.name)
         IN  IF i = 0 THEN Invalid
             ELSE [cfg EXCEPT !.ports[i].host = override.host]

(* The configuration after so many of the overrides.                       *)
Overridden(cfg, overrides) ==
    LET after[n \in 0 .. Len(overrides)] ==
            IF n = 0 THEN cfg ELSE Override(after[n - 1], overrides[n])
    IN  after

MergeLocal(cfg, local) ==
    LET own == Given(local, "ports", <<>>)
    IN  Overridden([cfg EXCEPT !.cpus = Given(local, "cpus", @)], own)[Len(own)]

ValidPort(port) == port \in 1 .. MaxPort

ValidPorts(ports) ==
    /\ \A p \in Range(ports) :
          p.name # "" /\ ValidPort(p.guest) /\ ValidPort(p.host)
    /\ \A i, j \in DOMAIN ports : i # j =>
          ports[i].name # ports[j].name /\ ports[i].host # ports[j].host

ValidCommand(name, command) ==
    /\ name \in LegalCommands
    /\ command.args = "program"
    /\ command.workdir \in {"", "inside"}

Validate(cfg) ==
    /\ cfg.cpus > 0
    /\ ValidPorts(cfg.ports)
    /\ cfg.packages \subseteq LegalPackages
    /\ \A name \in DOMAIN cfg.commands : ValidCommand(name, cfg.commands[name])

(* Mutant of Load: what the shared file says is validated before the local *)
(* file is merged over it.                                                 *)
LoadValidatesShared(shared, local) ==
    IF Invalid \in {shared, local} THEN Invalid
    ELSE LET cfg == Decode(shared)
         IN  IF ~Validate(cfg) THEN Invalid
             ELSE IF local = Missing THEN cfg ELSE MergeLocal(cfg, local)

Load(shared, local) ==
    IF Invalid \in {shared, local} THEN Invalid
    ELSE LET cfg == Decode(shared)
             effective == IF local = Missing THEN cfg
                          ELSE MergeLocal(cfg, local)
         IN  IF effective = Invalid THEN Invalid
             ELSE IF Validate(effective) THEN effective ELSE Invalid

-----------------------------------------------------------------------------

(* What the files, taken together, promise the commands: no two forwards   *)
(* claim one macOS port, the local file has its last word on the resources *)
(* and on the macOS port of every forward it names, and nothing else of    *)
(* what the shared file says, or the defaults where it is silent, depends  *)
(* on the local file.                                                      *)
Sound(shared, local, cfg) ==
    LET base == Decode(shared)
        own  == IF local = Missing THEN <<>> ELSE Given(local, "ports", <<>>)
        HostOf(p) ==
            LET i == LastNamed(own, p.name)
            IN  IF i = 0 THEN p.host ELSE own[i].host
    IN  /\ Cardinality({p.host : p \in Range(cfg.ports)}) = Len(cfg.ports)
        /\ \A p \in Range(cfg.ports) : p.host \in 1 .. MaxPort
        /\ cfg.cpus = IF local = Missing THEN base.cpus
                      ELSE Given(local, "cpus", base.cpus)
        /\ cfg.ports = [i \in DOMAIN base.ports |->
                          [base.ports[i] EXCEPT !.host = HostOf(base.ports[i])]]
        /\ \A o \in Range(own) : \E p \in Range(base.ports) : p.name = o.name
        /\ \A field \in {"image", "packages", "commands"} :
              cfg[field] = base[field]
=============================================================================
