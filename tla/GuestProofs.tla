---------------------------- MODULE GuestProofs -----------------------------
(***************************************************************************)
(* Proofs of the safety properties of Guest, for any configuration files,  *)
(* keys and packages, any number of attempts and any number of faults.     *)
(***************************************************************************)
EXTENDS Guest, ConfigProofs

(* The steps of up at which a part of provisioning is behind.              *)
AfterSshd == {"packages", "connect"}
AfterDropIn == AfterSshd \cup {"sshd"}
AfterAuthorize == AfterDropIn \cup {"dropin"}
AfterAdmin == AfterAuthorize \cup {"authorize"}
AfterAccount == AfterAdmin \cup {"admin"}

Waiting == {"ready", "fallback", "again"}

(* up has keys to install.                                                 *)
Requested ==
    cmd.pc \in {"idle", "ok", "exec"} \/ (cmd.op = "run" /\ cmd.pc \in Waiting)
        \/ cmd.keys # {}

(* What is recorded, and what the running up has done, is there.           *)
Provisioned ==
    /\ machine = "none" => record = "none" /\ cmd.pc \in {"idle", "create"}
    /\ record = "connected" \/ cmd.pc \in AfterAccount => guest.uid = "ours"
    /\ record = "connected" \/ cmd.pc \in AfterAdmin => guest.admin
    /\ record = "connected" \/ cmd.pc \in AfterAuthorize => guest.keys # {}
    /\ record = "connected" \/ cmd.pc \in AfterDropIn => guest.dropin

(* What an up that ends well promises, part by part as it gets there.      *)
Converging ==
    /\ cmd.pc \in AfterAuthorize => guest.keys = cmd.keys
    /\ cmd.pc \in AfterSshd => sshd # "plain"
    /\ cmd.pc = "connect" =>
         \A p \in cmd.packages : guest.packages[p] = "installed"

(* Provisioning goes no further than to look where the project is.         *)
Careful ==
    /\ cmd.pc \in {"account", "admin", "authorize"} => mount # "home"
    /\ NothingSpoiled

IInv == TypeOK /\ Requested /\ Provisioned /\ Converging /\ Careful

-----------------------------------------------------------------------------
(* Types of the values the actions write.                                  *)

LEMMA IdleType == Idle \in Cmd
BY DEF Idle, Cmd

LEMMA FreshType ==
    \A uid \in {"free", "foreign"} : Fresh(uid) \in Guests
BY DEF Fresh, Guests

(* What Goto changes of the command, and what it leaves.                   *)
LEMMA GotoEffect ==
    ASSUME cmd \in Cmd, NEW step \in Steps \cup {"ok"}, Goto(step)
    PROVE  /\ cmd' \in Cmd
           /\ cmd'.pc = step /\ cmd'.tries = 0
           /\ cmd'.op = cmd.op /\ cmd'.keys = cmd.keys
           /\ cmd'.packages = cmd.packages
BY DEF Goto, Cmd, Steps, ScriptSteps

LEMMA EndEffect == Goto("idle") => cmd' = Idle
BY DEF Goto

LEMMA TriesStart ==
    0 < BootTries /\ 0 < ReadinessTries /\ 0 < FallbackTries
BY GuestAssumption DEF GuestAssumption

(* The attempt after one that failed.                                      *)
LEMMA RetryEffect ==
    ASSUME cmd \in Cmd, cmd' = [cmd EXCEPT !.tries = @ + 1]
    PROVE  /\ cmd' \in Cmd
           /\ cmd'.pc = cmd.pc /\ cmd'.tries = cmd.tries + 1
           /\ cmd'.op = cmd.op /\ cmd'.keys = cmd.keys
           /\ cmd'.packages = cmd.packages
BY DEF Cmd

LEMMA FaultType ==
    ASSUME faults \in 0 .. MaxFaults, Fault
    PROVE  faults' \in 0 .. MaxFaults
BY GuestAssumption DEF Fault, GuestAssumption

(* The configurations the commands accept were validated.                  *)
LEMMA AcceptedPackages ==
    \A cfg \in Accepted : cfg.packages \subseteq LegalPackages
BY DEF Accepted, Load, Validate

LEMMA PublicKeysType == \A files \in KeyFiles : PublicKeys(files) \subseteq Key
BY DEF PublicKeys

LEMMA InitInv == Init => IInv
<1> SUFFICES ASSUME Init PROVE IInv
  OBVIOUS
<1>1. TypeOK
  BY IdleType, FreshType, GuestAssumption
  DEF Init, TypeOK, Idle, Stale, GuestAssumption
<1>2. Requested /\ Provisioned /\ Converging /\ Careful
  BY DEF Init, Idle, Requested, Provisioned, Converging, Careful,
         NothingSpoiled, AfterAccount, AfterAdmin, AfterAuthorize,
         AfterDropIn, AfterSshd
<1> QED
  BY <1>1, <1>2 DEF IInv

-----------------------------------------------------------------------------

(* The step keeps the command where it is, or ends it, and changes nothing *)
(* the parts of the invariant speak of but the daemons.                    *)
LEMMA Aside ==
    ASSUME IInv,
           machine' \in {"none", "stopped", "plain", "systemd"},
           machine' = "none" => machine = "none",
           UNCHANGED <<mount, record, guest, spoiled>>,
           docker' \in Stale \cup {"starting", "up"},
           sshd' \in Stale \cup Named \cup Unnamed,
           sshd' = "plain" => sshd = "plain" \/ ~ guest.dropin,
           script' \in {"none", "look", "check", "wait", "exec"},
           cmd' \in {cmd, Idle},
           faults' \in 0 .. MaxFaults
    PROVE  IInv'
<1>0. Idle.pc = "idle"
  BY DEF Idle
<1>1. TypeOK'
  BY IdleType, <1>0 DEF IInv, TypeOK
<1>2. Requested'
  BY <1>0 DEF IInv, Requested
<1>3. Provisioned'
  BY <1>0 DEF IInv, Provisioned, TypeOK, AfterAccount, AfterAdmin,
              AfterAuthorize, AfterDropIn, AfterSshd
<1>4. Converging'
  BY <1>0 DEF IInv, Provisioned, Converging, AfterAuthorize, AfterDropIn,
              AfterSshd
<1>5. Careful'
  BY <1>0 DEF IInv, Careful, NothingSpoiled
<1> QED
  BY <1>1, <1>2, <1>3, <1>4, <1>5 DEF IInv

(* The step moves the command on among the steps that precede provisioning *)
(* or follow it, and changes nothing but the daemons.                      *)
Outside == {"boot", "fallback", "ready", "again", "locate", "account",
            "exec", "ok"}

LEMMA Onward ==
    ASSUME IInv, NEW step \in Outside, Goto(step), machine # "none",
           UNCHANGED <<machine, mount, record, guest, docker, sshd, spoiled>>,
           script' \in {"none", "look", "check", "wait", "exec"},
           faults' \in 0 .. MaxFaults,
           Requested',
           step = "account" => mount # "home"
    PROVE  IInv'
<1>1. cmd' \in Cmd /\ cmd'.pc = step /\ cmd'.tries = 0
  BY GotoEffect DEF IInv, TypeOK, Steps, Outside
<1>2. TypeOK'
  BY <1>1, TriesStart DEF IInv, TypeOK
<1>3. Provisioned'
  BY <1>1 DEF IInv, Provisioned, AfterAccount, AfterAdmin, AfterAuthorize,
              AfterDropIn, AfterSshd, Outside
<1>4. Converging'
  BY <1>1 DEF Converging, AfterAuthorize, AfterDropIn, AfterSshd, Outside
<1>5. Careful'
  BY <1>1 DEF IInv, Careful, NothingSpoiled, Outside
<1> QED
  BY <1>2, <1>3, <1>4, <1>5 DEF IInv

(* One poll at either step.                                                *)
LEMMA PollKeeps ==
    ASSUME IInv, NEW step \in Waiting, NEW limit, NEW next \in {"fallback", "idle"},
           step = "ready" => limit = ReadinessTries,
           step = "again" => limit = FallbackTries,
           step # "fallback",
           Poll(step, limit, next)
    PROVE  IInv'
<1>0. /\ cmd \in Cmd /\ cmd.pc = step
      /\ faults' \in 0 .. MaxFaults
      /\ UNCHANGED <<machine, mount, record, guest, docker, sshd, script, spoiled>>
      /\ script \in {"none", "look", "check", "wait", "exec"}
      /\ machine # "none"
  BY FaultType DEF IInv, TypeOK, Poll, NoAnswer, InGuest, Running, At, daemons
<1>1. CASE Goto(Waited)
  <2>1. Waited \in {"exec", "locate"} /\ (Waited = "locate" => cmd.op # "run")
    BY DEF Waited
  <2>2. cmd'.pc = Waited /\ cmd'.keys = cmd.keys
    BY <1>0, <1>1, <2>1, GotoEffect DEF Steps
  <2>3. Requested'
    BY <1>0, <2>1, <2>2 DEF IInv, Requested, Waiting
  <2> QED
    BY <1>0, <1>1, <2>1, <2>3, Onward DEF Outside
<1>2. CASE cmd.tries + 1 < limit /\ cmd' = [cmd EXCEPT !.tries = @ + 1]
  <2>1. /\ cmd' \in Cmd /\ cmd'.pc = step /\ cmd'.tries = cmd.tries + 1
        /\ cmd'.op = cmd.op /\ cmd'.keys = cmd.keys
    BY <1>0, <1>2, RetryEffect
  <2>2. TypeOK'
    BY <1>0, <1>2, <2>1 DEF IInv, TypeOK, Waiting
  <2>3. Requested'
    BY <1>0, <2>1 DEF IInv, Requested
  <2>4. Provisioned' /\ Converging' /\ Careful'
    BY <1>0, <2>1 DEF IInv, Provisioned, Converging, Careful, NothingSpoiled,
       AfterAccount, AfterAdmin, AfterAuthorize, AfterDropIn, AfterSshd, Waiting
  <2> QED
    BY <2>2, <2>3, <2>4 DEF IInv
<1>3. CASE Goto("fallback")
  <2>1. cmd'.pc = "fallback" /\ cmd'.keys = cmd.keys /\ cmd'.op = cmd.op
    BY <1>0, <1>3, GotoEffect DEF Steps
  <2>2. Requested'
    BY <1>0, <2>1 DEF IInv, Requested, Waiting
  <2> QED
    BY <1>0, <1>3, <2>2, Onward DEF Outside
<1>4. CASE Goto("idle")
  BY <1>0, <1>4, EndEffect, Aside DEF IInv, TypeOK
<1>5. \/ Goto(Waited) \/ Goto(next)
      \/ cmd.tries + 1 < limit /\ cmd' = [cmd EXCEPT !.tries = @ + 1]
  BY Zenon DEF Poll
<1> QED
  BY <1>1, <1>2, <1>3, <1>4, <1>5

(* The record is written first and the machine is new, or was there.       *)
LEMMA CreateKeeps == IInv /\ Create => IInv'
<1> SUFFICES ASSUME IInv, Create PROVE IInv'
  OBVIOUS
<1>1. /\ cmd \in Cmd /\ cmd.pc = "create"
      /\ cmd' \in Cmd /\ cmd'.pc = "boot" /\ cmd'.tries = 0 /\ cmd'.keys = cmd.keys
  BY GotoEffect DEF IInv, TypeOK, Create, At, Steps
<1>2. TypeOK'
  BY <1>1, FreshType, TriesStart DEF IInv, TypeOK, Create, daemons
<1>3. Requested'
  BY <1>1 DEF IInv, Requested, Waiting
<1>4. Provisioned'
  BY <1>1 DEF IInv, TypeOK, Provisioned, Create, AfterAccount, AfterAdmin,
              AfterAuthorize, AfterDropIn, AfterSshd
<1>5. Converging' /\ Careful'
  BY <1>1 DEF IInv, Converging, Careful, NothingSpoiled, Create,
              AfterAuthorize, AfterDropIn, AfterSshd
<1> QED
  BY <1>2, <1>3, <1>4, <1>5 DEF IInv

LEMMA BeginType ==
    ASSUME NEW pc \in Steps, NEW op \in {"up", "run"},
           NEW packages \in SUBSET LegalPackages, NEW keys \in SUBSET Key,
           NEW c, c = [pc |-> pc, op |-> op, packages |-> packages,
                       keys |-> keys, tries |-> 0]
    PROVE  /\ c \in Cmd
           /\ c.pc = pc /\ c.op = op /\ c.keys = keys /\ c.tries = 0
BY DEF Cmd

LEMMA BeginKeeps == IInv /\ (BeginUp \/ BeginRun) => IInv'
<1> SUFFICES ASSUME IInv, BeginUp \/ BeginRun PROVE IInv'
  OBVIOUS
<1>0. UNCHANGED <<machine, mount, record, guest, docker, sshd, script, spoiled,
                  faults>>
  BY DEF BeginUp, BeginRun, daemons
<1>1. /\ cmd' \in Cmd /\ cmd'.tries = 0
      /\ \/ cmd'.pc = "create" /\ cmd'.keys # {}
         \/ cmd'.pc \in {"ready", "exec"} /\ cmd'.op = "run" /\ record = "connected"
  <2>1. CASE BeginUp
    <3>1. PICK packages \in SUBSET LegalPackages, keys \in SUBSET Key :
            /\ keys # {}
            /\ cmd' = [Idle EXCEPT !.pc = "create", !.op = "up",
                                   !.packages = packages, !.keys = keys]
      BY <2>1, AcceptedPackages, PublicKeysType DEF BeginUp
    <3>2. cmd' = [pc |-> "create", op |-> "up", packages |-> packages,
                  keys |-> keys, tries |-> 0]
      BY <3>1 DEF Idle
    <3>3. "create" \in Steps
      BY DEF Steps
    <3>4. /\ cmd' \in Cmd
          /\ cmd'.pc = "create" /\ cmd'.keys = keys /\ cmd'.tries = 0
      BY <3>2, <3>3, BeginType
    <3> QED
      BY <3>1, <3>4
  <2>2. CASE BeginRun
    <3>1. PICK pc \in {"ready", "exec"} :
            cmd' = [Idle EXCEPT !.op = "run", !.pc = pc]
      BY <2>2 DEF BeginRun
    <3>2. cmd' = [pc |-> pc, op |-> "run", packages |-> {}, keys |-> {},
                  tries |-> 0]
      BY <3>1 DEF Idle
    <3>3. pc \in Steps /\ record = "connected"
      BY <2>2 DEF Steps, BeginRun, HasIdentity
    <3> QED
      BY <3>2, <3>3, BeginType
  <2> QED
    BY <2>1, <2>2
<1>2. TypeOK'
  BY <1>0, <1>1, TriesStart DEF IInv, TypeOK
<1>3. Requested'
  BY <1>1 DEF Requested, Waiting
<1>4. machine = "none" => cmd'.pc = "create"
  BY <1>1 DEF IInv, Provisioned
<1>5. Provisioned' /\ Converging' /\ Careful'
  BY <1>0, <1>1, <1>4 DEF IInv, Provisioned, Converging, Careful,
     NothingSpoiled, AfterAccount, AfterAdmin, AfterAuthorize, AfterDropIn,
     AfterSshd
<1> QED
  BY <1>2, <1>3, <1>5 DEF IInv

(* What the steps of provision.sh write of the guest's disk.               *)
LEMMA GuestEffect ==
    ASSUME guest \in Guests
    PROVE  /\ LET g == [guest EXCEPT !.uid = "ours"]
              IN  /\ g \in Guests /\ g.uid = "ours" /\ g.admin = guest.admin
                  /\ g.keys = guest.keys /\ g.dropin = guest.dropin
           /\ LET g == [guest EXCEPT !.admin = TRUE]
              IN  /\ g \in Guests /\ g.uid = guest.uid /\ g.admin
                  /\ g.keys = guest.keys /\ g.dropin = guest.dropin
           /\ \A keys \in SUBSET Key :
                LET g == [guest EXCEPT !.keys = keys]
                IN  /\ g \in Guests /\ g.uid = guest.uid
                    /\ g.admin = guest.admin /\ g.keys = keys
                    /\ g.dropin = guest.dropin
           /\ LET g == [guest EXCEPT !.dropin = TRUE]
              IN  /\ g \in Guests /\ g.uid = guest.uid
                  /\ g.admin = guest.admin /\ g.keys = guest.keys /\ g.dropin
BY DEF Guests

LEMMA AccountKeeps == IInv /\ Account => IInv'
<1> SUFFICES ASSUME IInv, Account PROVE IInv'
  OBVIOUS
<1>0. /\ cmd \in Cmd /\ guest \in Guests /\ cmd.pc = "account"
      /\ UNCHANGED <<machine, mount, record, docker, sshd, script, spoiled, faults>>
  BY DEF IInv, TypeOK, Account, InGuest, At, daemons
<1>1. CASE Goto("idle") /\ UNCHANGED guest
  BY <1>0, <1>1, EndEffect, Aside DEF IInv, TypeOK
<1>2. CASE guest' = [guest EXCEPT !.uid = "ours"] /\ Goto("admin")
  <2>1. /\ cmd' \in Cmd /\ cmd'.pc = "admin" /\ cmd'.tries = 0
        /\ cmd'.keys = cmd.keys
    BY <1>0, <1>2, GotoEffect DEF Steps, ScriptSteps
  <2>2. /\ guest' \in Guests /\ guest'.uid = "ours" /\ guest'.admin = guest.admin
        /\ guest'.keys = guest.keys /\ guest'.dropin = guest.dropin
    BY <1>0, <1>2, GuestEffect
  <2>3. TypeOK'
    BY <1>0, <2>1, <2>2 DEF IInv, TypeOK
  <2>4. Requested' /\ Converging' /\ Careful'
    BY <1>0, <2>1, <2>2 DEF IInv, Requested, Converging, Careful,
       NothingSpoiled, Waiting, AfterAuthorize, AfterDropIn, AfterSshd
  <2>5. Provisioned'
    BY <1>0, <2>1, <2>2 DEF IInv, Provisioned, AfterAccount, AfterAdmin,
       AfterAuthorize, AfterDropIn, AfterSshd
  <2> QED
    BY <2>3, <2>4, <2>5 DEF IInv
<1> QED
  BY <1>1, <1>2 DEF Account

LEMMA AdminKeeps == IInv /\ Admin => IInv'
<1> SUFFICES ASSUME IInv, Admin PROVE IInv'
  OBVIOUS
<1>0. /\ cmd \in Cmd /\ guest \in Guests /\ cmd.pc = "admin"
      /\ UNCHANGED <<machine, mount, record, docker, sshd, script, spoiled, faults>>
  BY DEF IInv, TypeOK, Admin, InGuest, At, daemons
<1>1. /\ cmd' \in Cmd /\ cmd'.pc = "authorize" /\ cmd'.tries = 0
      /\ cmd'.keys = cmd.keys
  BY <1>0, GotoEffect DEF Admin, Steps, ScriptSteps
<1>2. /\ guest' \in Guests /\ guest'.uid = guest.uid /\ guest'.admin
      /\ guest'.keys = guest.keys /\ guest'.dropin = guest.dropin
  BY <1>0, GuestEffect DEF Admin
<1>3. TypeOK'
  BY <1>0, <1>1, <1>2 DEF IInv, TypeOK
<1>4. Requested' /\ Converging' /\ Careful'
  BY <1>0, <1>1, <1>2 DEF IInv, Requested, Converging, Careful,
     NothingSpoiled, Waiting, AfterAuthorize, AfterDropIn, AfterSshd
<1>5. Provisioned'
  BY <1>0, <1>1, <1>2 DEF IInv, Provisioned, AfterAccount, AfterAdmin,
     AfterAuthorize, AfterDropIn, AfterSshd
<1> QED
  BY <1>3, <1>4, <1>5 DEF IInv

(* The home that is written is the guest's own, and the keys are not none. *)
LEMMA AuthorizeKeeps == IInv /\ Authorize => IInv'
<1> SUFFICES ASSUME IInv, Authorize PROVE IInv'
  OBVIOUS
<1>0. /\ cmd \in Cmd /\ guest \in Guests /\ cmd.pc = "authorize"
      /\ UNCHANGED <<machine, mount, record, docker, sshd, script, faults>>
      /\ mount # "home" /\ UNCHANGED spoiled
  BY DEF IInv, TypeOK, Careful, Authorize, InGuest, At, daemons
<1>1. /\ cmd' \in Cmd /\ cmd'.pc = "dropin" /\ cmd'.tries = 0
      /\ cmd'.keys = cmd.keys /\ cmd.keys \in SUBSET Key
  BY <1>0, GotoEffect DEF Authorize, Steps, ScriptSteps, Cmd
<1>2. /\ guest' \in Guests /\ guest'.uid = guest.uid
      /\ guest'.admin = guest.admin /\ guest'.keys = cmd.keys
      /\ guest'.dropin = guest.dropin
  BY <1>0, <1>1, GuestEffect DEF Authorize
<1>3. TypeOK'
  BY <1>0, <1>1, <1>2 DEF IInv, TypeOK
<1>4. Requested' /\ Converging' /\ Careful'
  BY <1>0, <1>1, <1>2 DEF IInv, Requested, Converging, Careful,
     NothingSpoiled, Waiting, AfterAuthorize, AfterDropIn, AfterSshd
<1>5. cmd.keys # {}
  BY <1>0 DEF IInv, Requested, Waiting
<1>6. Provisioned'
  BY <1>0, <1>1, <1>2, <1>5 DEF IInv, Provisioned, AfterAccount, AfterAdmin,
     AfterAuthorize, AfterDropIn, AfterSshd
<1> QED
  BY <1>3, <1>4, <1>6 DEF IInv

LEMMA DropInKeeps == IInv /\ DropIn => IInv'
<1> SUFFICES ASSUME IInv, DropIn PROVE IInv'
  OBVIOUS
<1>0. /\ cmd \in Cmd /\ guest \in Guests /\ cmd.pc = "dropin"
      /\ UNCHANGED <<machine, mount, record, docker, sshd, script, spoiled, faults>>
  BY DEF IInv, TypeOK, DropIn, InGuest, At, daemons
<1>1. /\ cmd' \in Cmd /\ cmd'.pc = "sshd" /\ cmd'.tries = 0
      /\ cmd'.keys = cmd.keys
  BY <1>0, GotoEffect DEF DropIn, Steps, ScriptSteps
<1>2. /\ guest' \in Guests /\ guest'.uid = guest.uid
      /\ guest'.admin = guest.admin /\ guest'.keys = guest.keys /\ guest'.dropin
  BY <1>0, GuestEffect DEF DropIn
<1>3. TypeOK'
  BY <1>0, <1>1, <1>2 DEF IInv, TypeOK
<1>4. Requested' /\ Converging' /\ Careful'
  BY <1>0, <1>1, <1>2 DEF IInv, Requested, Converging, Careful,
     NothingSpoiled, Waiting, AfterAuthorize, AfterDropIn, AfterSshd
<1>5. Provisioned'
  BY <1>0, <1>1, <1>2 DEF IInv, Provisioned, AfterAccount, AfterAdmin,
     AfterAuthorize, AfterDropIn, AfterSshd
<1> QED
  BY <1>3, <1>4, <1>5 DEF IInv

(* Only the sshd of its own PID file is signalled, and an sshd that its    *)
(* PID file names afterwards has read the drop-in.                         *)
LEMMA SshdKeeps == IInv /\ Sshd => IInv'
<1> SUFFICES ASSUME IInv, Sshd PROVE IInv'
  OBVIOUS
<1>0. /\ cmd \in Cmd /\ cmd.pc = "sshd"
      /\ UNCHANGED <<machine, mount, record, guest, docker, script, faults>>
      /\ sshd' \in {"managed"} \cup Unnamed /\ UNCHANGED spoiled
  BY DEF IInv, TypeOK, Sshd, InGuest, At, Hup, StartSshd, Stale, Named
<1>1. /\ cmd' \in Cmd /\ cmd'.pc = "packages" /\ cmd'.tries = 0
      /\ cmd'.keys = cmd.keys
  BY <1>0, GotoEffect DEF Sshd, Steps, ScriptSteps
<1>2. TypeOK'
  BY <1>0, <1>1 DEF IInv, TypeOK, Named, Unnamed
<1>3. Requested' /\ Converging' /\ Careful'
  BY <1>0, <1>1 DEF IInv, Requested, Converging, Careful, Unnamed,
     NothingSpoiled, Waiting, AfterAuthorize, AfterDropIn, AfterSshd
<1>4. Provisioned'
  BY <1>0, <1>1 DEF IInv, Provisioned, AfterAccount, AfterAdmin,
     AfterAuthorize, AfterDropIn, AfterSshd
<1> QED
  BY <1>2, <1>3, <1>4 DEF IInv

(* What packages.sh writes of the guest's disk.                            *)
LEMMA InstalledEffect ==
    ASSUME guest \in Guests, NEW packages,
           NEW status \in {"half", "installed"}, Installed(packages, status)
    PROVE  /\ guest' \in Guests /\ guest'.uid = guest.uid
           /\ guest'.admin = guest.admin /\ guest'.keys = guest.keys
           /\ guest'.dropin = guest.dropin
           /\ \A p \in LegalPackages :
                guest'.packages[p] = IF p \in packages THEN status
                                     ELSE guest.packages[p]
BY DEF Installed, Guests

LEMMA InstallKeeps == IInv /\ InstallPackages => IInv'
<1> SUFFICES ASSUME IInv, InstallPackages PROVE IInv'
  OBVIOUS
<1>0. /\ cmd \in Cmd /\ guest \in Guests /\ cmd.pc = "packages"
      /\ UNCHANGED <<machine, mount, record, docker, sshd, script, spoiled, faults>>
  BY DEF IInv, TypeOK, InstallPackages, At, daemons
<1>1. /\ cmd' \in Cmd /\ cmd'.pc = "connect" /\ cmd'.tries = 0
      /\ cmd'.keys = cmd.keys /\ cmd'.packages = cmd.packages
      /\ cmd.packages \subseteq LegalPackages
  BY <1>0, GotoEffect DEF InstallPackages, Steps, Cmd
<1>2. /\ guest' \in Guests /\ guest'.uid = guest.uid
      /\ guest'.admin = guest.admin /\ guest'.keys = guest.keys
      /\ guest'.dropin = guest.dropin
      /\ \A p \in cmd.packages : guest'.packages[p] = "installed"
  <2>1. CASE cmd.packages = {} /\ UNCHANGED guest
    BY <1>0, <2>1
  <2>2. CASE Installed(MissingPackages(cmd.packages), "installed")
    <3>1. \A p \in cmd.packages :
            p \in MissingPackages(cmd.packages) \/ guest.packages[p] = "installed"
      BY DEF MissingPackages
    <3> QED
      BY <1>0, <1>1, <2>2, <3>1, InstalledEffect
  <2> QED
    BY <2>1, <2>2 DEF InstallPackages
<1>3. TypeOK'
  BY <1>0, <1>1, <1>2 DEF IInv, TypeOK
<1>4. Requested' /\ Converging' /\ Careful'
  BY <1>0, <1>1, <1>2 DEF IInv, Requested, Converging, Careful,
     NothingSpoiled, Waiting, AfterAuthorize, AfterDropIn, AfterSshd
<1>5. Provisioned'
  BY <1>0, <1>1, <1>2 DEF IInv, Provisioned, AfterAccount, AfterAdmin,
     AfterAuthorize, AfterDropIn, AfterSshd
<1> QED
  BY <1>3, <1>4, <1>5 DEF IInv

LEMMA InterruptedKeeps == IInv /\ InstallInterrupted => IInv'
<1> SUFFICES ASSUME IInv, InstallInterrupted PROVE IInv'
  OBVIOUS
<1>0. /\ guest \in Guests /\ cmd' = Idle /\ faults' \in 0 .. MaxFaults
      /\ UNCHANGED <<machine, mount, record, docker, sshd, script, spoiled>>
  BY EndEffect, FaultType DEF IInv, TypeOK, InstallInterrupted, daemons
<1>1. /\ guest' \in Guests /\ guest'.uid = guest.uid
      /\ guest'.admin = guest.admin /\ guest'.keys = guest.keys
      /\ guest'.dropin = guest.dropin
  BY <1>0, InstalledEffect DEF InstallInterrupted
<1>2. cmd'.pc = "idle" /\ cmd' \in Cmd
  BY <1>0, IdleType DEF Idle
<1>3. TypeOK'
  BY <1>0, <1>1, <1>2 DEF IInv, TypeOK
<1>4. Requested' /\ Converging' /\ Careful'
  BY <1>0, <1>2 DEF IInv, Requested, Converging, Careful,
     NothingSpoiled, AfterAuthorize, AfterDropIn, AfterSshd
<1>5. Provisioned'
  BY <1>0, <1>1, <1>2 DEF IInv, Provisioned, AfterAccount, AfterAdmin,
     AfterAuthorize, AfterDropIn, AfterSshd
<1> QED
  BY <1>3, <1>4, <1>5 DEF IInv

(* When the identity is recorded all of provisioning is behind.            *)
LEMMA ConnectKeeps == IInv /\ Connect => IInv'
<1> SUFFICES ASSUME IInv, Connect PROVE IInv'
  OBVIOUS
<1>0. /\ cmd \in Cmd /\ cmd.pc = "connect" /\ record' = "connected"
      /\ UNCHANGED <<machine, mount, guest, docker, sshd, script, spoiled, faults>>
  BY DEF IInv, TypeOK, Connect, At, daemons
<1>1. cmd' \in Cmd /\ cmd'.pc = "ok" /\ cmd'.tries = 0
  BY <1>0, GotoEffect DEF Connect
<1>2. TypeOK'
  BY <1>0, <1>1 DEF IInv, TypeOK
<1>3. Requested' /\ Converging' /\ Careful'
  BY <1>0, <1>1 DEF IInv, Requested, Converging, Careful,
     NothingSpoiled, AfterAuthorize, AfterDropIn, AfterSshd
<1>4. machine # "none"
  BY <1>0 DEF IInv, Provisioned
<1>5. Provisioned'
  BY <1>0, <1>1, <1>4 DEF IInv, Provisioned, AfterAccount, AfterAdmin,
     AfterAuthorize, AfterDropIn, AfterSshd
<1> QED
  BY <1>2, <1>3, <1>5 DEF IInv

-----------------------------------------------------------------------------
(* The other steps of a command.                                           *)

LEMMA BootsKeep == IInv /\ (BootMachine \/ BootFails) => IInv'
<1> SUFFICES ASSUME IInv, BootMachine \/ BootFails PROVE IInv'
  OBVIOUS
<1>1. CASE BootMachine
  <2>1. /\ machine = "stopped" /\ machine' \in {"plain", "systemd"}
        /\ UNCHANGED <<mount, record, guest, docker, script, spoiled, cmd, faults>>
        /\ sshd' \in {sshd, IF guest.dropin THEN "managed" ELSE "plain"}
    BY <1>1 DEF BootMachine
  <2> QED
    BY <2>1, Aside DEF IInv, TypeOK, Named, Unnamed
<1>2. CASE BootFails
  <2>1. /\ cmd \in Cmd /\ cmd.pc = "boot"
        /\ machine \in {"plain", "systemd"} /\ machine' = "plain"
        /\ faults' \in 0 .. MaxFaults
        /\ docker' \in {docker, Ended(docker)}
        /\ sshd' \in {sshd, Ended(sshd)}
        /\ UNCHANGED <<mount, record, guest, script, spoiled>>
    BY <1>2, FaultType DEF IInv, TypeOK, BootFails, InGuest, At, Running
  <2>2. /\ docker' \in Stale \cup {"starting", "up"}
        /\ sshd' \in Stale \cup Named \cup Unnamed
        /\ sshd' = "plain" => sshd = "plain"
    BY <2>1 DEF IInv, TypeOK, Ended, Stale
  <2>3. CASE cmd.tries + 1 < BootTries /\ cmd' = [cmd EXCEPT !.tries = @ + 1]
    <3>1. /\ cmd' \in Cmd /\ cmd'.pc = "boot" /\ cmd'.tries = cmd.tries + 1
          /\ cmd'.op = cmd.op /\ cmd'.keys = cmd.keys
      BY <2>1, <2>3, RetryEffect
    <3>2. TypeOK'
      BY <2>1, <2>2, <2>3, <3>1 DEF IInv, TypeOK
    <3>3. Requested'
      BY <2>1, <3>1 DEF IInv, Requested, Waiting
    <3>4. Provisioned' /\ Converging' /\ Careful'
      BY <2>1, <3>1 DEF IInv, Provisioned, Converging, Careful,
         NothingSpoiled, AfterAccount, AfterAdmin, AfterAuthorize,
         AfterDropIn, AfterSshd
    <3> QED
      BY <3>2, <3>3, <3>4 DEF IInv
  <2>4. CASE cmd' = Idle
    BY <2>1, <2>2, <2>4, Aside DEF IInv, TypeOK
  <2> QED
    BY <1>2, <2>3, <2>4 DEF BootFails
<1> QED
  BY <1>1, <1>2

LEMMA WaitKeeps == IInv /\ (Boot \/ WaitDocker) => IInv'
<1> SUFFICES ASSUME IInv, Boot \/ WaitDocker PROVE IInv'
  OBVIOUS
<1>1. CASE Ready
  BY <1>1, PollKeeps DEF Ready, Waiting
<1>2. CASE Again
  BY <1>2, PollKeeps DEF Again, Waiting
<1>3. ASSUME NEW step \in {"ready", "again"}, Goto(step), Boot \/ Fallback
      PROVE  IInv'
  <2>1. /\ cmd \in Cmd /\ cmd.pc \in {"boot", "fallback"}
        /\ UNCHANGED <<machine, mount, record, guest, docker, sshd, spoiled, faults>>
        /\ script' \in {"none", "look", "check", "wait", "exec"}
        /\ machine # "none" /\ faults \in 0 .. MaxFaults
    BY <1>3 DEF IInv, TypeOK, Boot, Fallback, InGuest, At, Running, daemons
  <2>2. cmd'.pc = step /\ cmd'.keys = cmd.keys /\ cmd'.op = cmd.op
    BY <1>3, <2>1, GotoEffect DEF Steps
  <2>3. Requested'
    BY <2>1, <2>2 DEF IInv, Requested, Waiting
  <2> QED
    BY <1>3, <2>1, <2>3, Onward DEF Outside
<1> QED
  BY <1>1, <1>2, <1>3 DEF Boot, Fallback, WaitDocker

LEMMA LocateKeeps == IInv /\ Locate => IInv'
<1> SUFFICES ASSUME IInv, Locate PROVE IInv'
  OBVIOUS
<1>0. /\ cmd \in Cmd /\ cmd.pc = "locate" /\ machine # "none"
      /\ UNCHANGED <<machine, mount, record, guest, docker, sshd, script,
                     spoiled, faults>>
      /\ script \in {"none", "look", "check", "wait", "exec"}
      /\ faults \in 0 .. MaxFaults
  BY DEF IInv, TypeOK, Locate, InGuest, At, Running, daemons
<1>1. CASE Goto("account") /\ ~ Refused
  <2>1. cmd'.pc = "account" /\ cmd'.keys = cmd.keys
    BY <1>0, <1>1, GotoEffect DEF Steps
  <2>2. Requested'
    BY <1>0, <2>1 DEF IInv, Requested, Waiting
  <2> QED
    BY <1>0, <1>1, <2>2, Onward DEF Outside, Refused
<1>2. CASE Goto("idle")
  BY <1>0, <1>2, EndEffect, Aside DEF IInv, TypeOK
<1> QED
  BY <1>1, <1>2 DEF Locate

(* run's last step, and the end of either command, good or bad.            *)
LEMMA EndsKeep == IInv /\ (Exec \/ Finish \/ Abandon) => IInv'
<1> SUFFICES ASSUME IInv, Exec \/ Finish \/ Abandon PROVE IInv'
  OBVIOUS
<1>1. CASE Exec
  <2>1. /\ cmd \in Cmd /\ cmd.pc = "exec" /\ machine # "none"
        /\ UNCHANGED <<machine, mount, record, guest, docker, sshd, script,
                       spoiled, faults>>
        /\ script \in {"none", "look", "check", "wait", "exec"}
        /\ faults \in 0 .. MaxFaults
    BY <1>1 DEF IInv, TypeOK, Exec, InGuest, At, Running, daemons
  <2>2. cmd'.pc = "ok" /\ Goto("ok")
    BY <1>1, <2>1, GotoEffect DEF Exec
  <2>3. Requested'
    BY <2>2 DEF Requested
  <2> QED
    BY <2>1, <2>2, <2>3, Onward DEF Outside
<1>2. CASE Finish \/ Abandon
  <2>1. /\ cmd' = Idle /\ faults' \in 0 .. MaxFaults
        /\ UNCHANGED <<machine, mount, record, guest, docker, sshd, script,
                       spoiled>>
    BY <1>2, EndEffect, FaultType DEF IInv, TypeOK, Finish, Abandon, daemons
  <2> QED
    BY <2>1, Aside DEF IInv, TypeOK
<1> QED
  BY <1>1, <1>2

LEMMA StepKeeps == IInv /\ Step => IInv'
<1>1. IInv /\ Provision => IInv'
  BY LocateKeeps, AccountKeeps, AdminKeeps, AuthorizeKeeps, DropInKeeps,
     SshdKeeps, InstallKeeps, InterruptedKeeps DEF Provision
<1> QED
  BY <1>1, CreateKeeps, BootsKeep, WaitKeeps, ConnectKeeps, EndsKeep DEF Step

-----------------------------------------------------------------------------
(* The guest's own steps.                                                  *)

LEMMA DestroyKeeps == IInv /\ Destroy => IInv'
<1> SUFFICES ASSUME IInv, Destroy PROVE IInv'
  OBVIOUS
<1>0. /\ cmd.pc = "idle" /\ cmd \in Cmd
      /\ machine' = "none" /\ record' = "none" /\ guest' = Fresh("free")
      /\ docker' = "none" /\ sshd' = "none" /\ script' = "none"
      /\ UNCHANGED <<mount, spoiled, cmd>> /\ faults' \in 0 .. MaxFaults
      /\ guest' \in Guests
  BY FreshType, FaultType DEF IInv, TypeOK, Destroy, At
<1>1. TypeOK'
  BY <1>0 DEF IInv, TypeOK, Stale
<1>2. Requested' /\ Provisioned' /\ Converging' /\ Careful'
  BY <1>0 DEF IInv, Requested, Provisioned, Converging, Careful,
     NothingSpoiled, AfterAccount, AfterAdmin, AfterAuthorize, AfterDropIn,
     AfterSshd
<1> QED
  BY <1>1, <1>2 DEF IInv

(* None of the daemons' steps, nor a halt, undoes what is provisioned.     *)
LEMMA EnvironmentKeeps == IInv /\ Environment => IInv'
<1> SUFFICES ASSUME IInv, Environment PROVE IInv'
  OBVIOUS
<1>0. TypeOK
  BY DEF IInv
<1>1. CASE SystemdStarts \/ Serve \/ DockerDies
  <2>1. /\ UNCHANGED <<machine, mount, record, guest, spoiled, sshd, script, cmd>>
        /\ docker' \in {"none", "dead", "recycled", "starting", "up"}
        /\ faults' \in 0 .. MaxFaults
    BY <1>0, <1>1, FaultType
    DEF TypeOK, SystemdStarts, Serve, DockerDies, Dockerd, inner, Stale
  <2> QED
    BY <1>0, <2>1, Aside DEF TypeOK, Stale
<1>2. CASE Script
  <2>1. /\ UNCHANGED <<machine, mount, record, guest, spoiled, sshd, cmd, faults>>
        /\ docker' \in {"none", "dead", "recycled", "starting", "up"}
        /\ script' \in {"none", "check", "wait", "exec"}
    BY <1>0, <1>2 DEF TypeOK, Script, ScriptLook, ScriptCheck, ScriptWait,
       ScriptExec, Dockerd, inner, Stale
  <2> QED
    BY <1>0, <2>1, Aside DEF TypeOK, Stale
<1>3. CASE Recycle \/ StrangerEnds
  <2>1. /\ UNCHANGED <<machine, mount, record, guest, spoiled, script, cmd>>
        /\ docker' \in {docker, "dead", "recycled"}
        /\ sshd' \in {sshd, "dead", "recycled"}
        /\ faults' \in 0 .. MaxFaults
    BY <1>0, <1>3, FaultType DEF TypeOK, Recycle, StrangerEnds, inner
  <2> QED
    BY <1>0, <2>1, Aside DEF TypeOK, Stale
<1>4. CASE Halt
  <2>1. /\ machine' = "stopped" /\ script' = "none" /\ cmd' \in {cmd, Idle}
        /\ UNCHANGED <<mount, record, guest, spoiled>>
        /\ docker' \in {"none", Ended(docker)} /\ sshd' \in {"none", Ended(sshd)}
        /\ faults' \in 0 .. MaxFaults
    BY <1>0, <1>4, FaultType DEF TypeOK, Halt, inner
  <2>2. /\ docker' \in {"none", "dead", "recycled"}
        /\ sshd' \in {"none", "dead", "recycled"}
    BY <2>1 DEF Ended, Stale
  <2> QED
    BY <2>1, <2>2, Aside DEF Stale
<1>5. CASE SshdLosesName
  <2>1. /\ UNCHANGED <<machine, mount, record, guest, spoiled, docker, script,
                       cmd>>
        /\ sshd' \in Unnamed
        /\ faults' \in 0 .. MaxFaults
    BY <1>0, <1>5, FaultType DEF TypeOK, SshdLosesName, inner, Unnamed
  <2> QED
    BY <1>0, <2>1, Aside DEF TypeOK, Unnamed
<1> QED
  BY <1>1, <1>2, <1>3, <1>4, <1>5, DestroyKeeps DEF Environment

LEMMA NextInv == IInv /\ [Next]_vars => IInv'
<1> SUFFICES ASSUME IInv, [Next]_vars PROVE IInv'
  OBVIOUS
<1>1. CASE UNCHANGED vars
  BY <1>1, Aside DEF vars, IInv, TypeOK
<1> QED
  BY <1>1, BeginKeeps, StepKeeps, EnvironmentKeeps DEF Next

-----------------------------------------------------------------------------

(* The strengthened invariant: at every step of up the parts of            *)
(* provisioning that are behind hold in the guest, and what is recorded    *)
(* stays true whatever the guest's daemons do.                             *)
THEOREM Invariant == Spec => []IInv
BY InitInv, NextInv, PTL DEF Spec

(* Every value the commands and the guest leave behind is one of those the *)
(* comments of Guest name, and no loop of attempts counts past its limit.  *)
THEOREM TypeCorrect == Spec => []TypeOK
<1>1. IInv => TypeOK
  BY DEF IInv
<1> QED
  BY <1>1, Invariant, PTL

(* Provisioning touches neither the macOS home's authorized_keys nor an    *)
(* unrelated process, wherever the home is mounted and whatever process    *)
(* got the ID in sshd's PID file (provision.go:145-163,                    *)
(* provision.sh:127-133).                                                  *)
THEOREM SparesOthers == Spec => []NothingSpoiled
<1>1. IInv => NothingSpoiled
  BY DEF IInv, Careful
<1> QED
  BY <1>1, Invariant, PTL

(* A recorded guest account is there, complete, after any number of failed *)
(* and killed commands (run.go:65-71, status.go:366-384).                  *)
THEOREM RecordIsTrue == Spec => []RecordedAccountExists
<1>1. IInv => RecordedAccountExists
  BY DEF IInv, Provisioned, RecordedAccountExists
<1> QED
  BY <1>1, Invariant, PTL

(* An up that succeeds has converged the guest, but for an sshd that its   *)
(* PID file does not name (provision.go:65-117, provision.sh:123-139).     *)
THEOREM UpLeavesConverged == Spec => UpConverges
<1> DEFINE Converged ==
      cmd.op = "up" /\ At("connect") /\ cmd'.pc = "ok" =>
         /\ guest.uid = "ours" /\ guest.admin /\ guest.keys = cmd.keys
         /\ \A p \in cmd.packages : guest.packages[p] = "installed"
         /\ guest.dropin /\ sshd # "plain"
<1>1. IInv => Converged
  BY DEF At, IInv, Provisioned, Converging, AfterAccount, AfterAdmin,
         AfterAuthorize, AfterDropIn, AfterSshd
<1>2. IInv /\ [Next]_vars => [Converged]_vars
  BY <1>1
<1> QED
  BY <1>2, Invariant, PTL DEF Spec, UpConverges

-----------------------------------------------------------------------------
(* Whatever the files hold when a command begins, what it accepts is what  *)
(* they say (Load, config.go:103-124).                                     *)
THEOREM AcceptedIsSound == Spec => []AcceptedConfigSound
<1>1. AcceptedConfigSound
  <2> SUFFICES ASSUME NEW shared \in SharedFiles, NEW local \in LocalFiles,
                      Load(shared, local) # Invalid
               PROVE  Sound(shared, local, Load(shared, local))
    BY DEF AcceptedConfigSound, SoundLoads
  <2> QED
    BY GuestAssumption, LoadIsSound
<1> QED
  BY <1>1, PTL
=============================================================================
