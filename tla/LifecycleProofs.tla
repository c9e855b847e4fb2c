-------------------------- MODULE LifecycleProofs --------------------------
(***************************************************************************)
(* Proofs of the safety properties of Lifecycle, for any images and        *)
(* addresses and any number of faults: of the types and of the upgrade for *)
(* any number of commands at once, of the others for one command at a      *)
(* time, since nothing in the code serialises two.                         *)
(***************************************************************************)
EXTENDS Lifecycle, TLAPS

(* One command at a time.                                                  *)
OneAtATime == \A p, q \in Proc : p = q

UpSteps == {"uLoad", "uFind", "uEnsure", "saveNew", "create", "cFind", "cDrop",
            "boot", "provision", "address", "forget", "apply", "recLoad",
            "recSave", "tDrop", "tunnel"}
DestroySteps == {"dFind", "dOwned", "dStop", "dDelete", "dRecord"}

(* A command has read what its next step uses.                             *)
Ready(c) ==
    /\ c.pc \in {"gLoad", "uLoad", "uFind", "uEnsure", "saveNew", "create"}
          => c.image \in Image
    /\ c.pc = "gEnsure" => c.target \in Image
    /\ c.pc = "recSave" => c.loaded \in Records
    /\ c.pc \in {"forget", "apply", "recLoad", "recSave", "tDrop", "tunnel"}
          => c.addr \in Address

(* A machine that runs has an address.                                     *)
Addressed == Running => machine.addr \in Address

(* A command is where its kind takes it.                                   *)
Placed(c) ==
    /\ c.pc \in UpSteps => c.op = "up"
    /\ c.pc \in {"gLoad", "gEnsure"} => c.op = "upgrade"
    /\ c.pc = "prepare" => c.op \in {"up", "upgrade"}
    /\ c.pc \in {"sFind", "sOwned", "sStop"} => c.op = "stop"
    /\ c.pc \in DestroySteps => c.op \in {"destroy", "upgrade"}
    /\ c.pc = "tRemove" => c.op \in {"stop", "destroy"}
    /\ c.pc \in {"hRemove", "kRemove"} => c.op = "destroy"

(* An upgrade that deletes has built what it recreates on.                 *)
Built(c) == c.op = "upgrade" /\ c.pc \in DestroySteps => c.target \in images

TInv ==
    /\ TypeOK /\ Addressed
    /\ \A p \in Proc : Ready(cmd[p]) /\ Placed(cmd[p]) /\ Built(cmd[p])

(* up: what it read of the record still holds, it creates only where there *)
(* is no machine, and takes the record back only then.                     *)
Pinned(c) ==
    /\ c.pc \in {"uFind", "uEnsure", "saveNew", "recSave"} => c.loaded = record
    /\ c.pc \in {"uFind", "uEnsure", "saveNew", "create"} /\ record # NoRecord
          => record.image = c.image
    /\ c.pc = "create" => record # NoRecord
    /\ c.pc \in {"uEnsure", "saveNew", "create", "cDrop"} => ~ Exists

(* up: the SSH host, then the record, are at the resolved address.         *)
Agreed(c) ==
    /\ c.pc \in {"recLoad", "recSave", "tDrop", "tunnel"} => sshHost = c.addr
    /\ c.pc \in {"tDrop", "tunnel"} =>
          record # NoRecord /\ record.addr = c.addr

(* up: the key, then the tunnel, of the replaced machine are gone.         *)
Untrusting(c) ==
    c.created /\ Exists =>
        /\ c.pc \in {"apply", "recLoad", "recSave", "tDrop", "tunnel"}
              => hostKey # "stale"
        /\ c.pc = "tunnel" /\ tunnel # NoTunnel => tunnel.of # "stale"

(* destroy: what is behind it is gone.                                     *)
Gone(c) ==
    /\ c.pc = "dOwned" /\ Exists => c.found
    /\ c.pc = "dRecord" => ~ Exists
    /\ c.op = "destroy" /\ c.pc \in {"tRemove", "hRemove", "kRemove"}
          => ~ Exists /\ record = NoRecord
    /\ c.pc \in {"hRemove", "kRemove"} => tunnel = NoTunnel
    /\ c.pc = "kRemove" => sshHost = NoAddress

Own(c) == Pinned(c) /\ Agreed(c) /\ Untrusting(c) /\ Gone(c)

IInv == TInv /\ NoOrphanMachine /\ PinnedImage /\ \A p \in Proc : Own(cmd[p])

-----------------------------------------------------------------------------

(* Only the command of p changes.                                          *)
Frame(p) ==
    cmd' \in [Proc -> Cmd] /\ \A q \in Proc \ {p} : cmd'[q] = cmd[q]

(* It goes to one of these steps and keeps, until it returns, what it has  *)
(* read.                                                                   *)
Moved(p, steps) ==
    /\ Frame(p)
    /\ cmd'[p].pc \in steps /\ cmd'[p].op = cmd[p].op
    /\ cmd'[p].pc \notin {"ok", "error"} =>
         /\ cmd'[p].image = cmd[p].image /\ cmd'[p].target = cmd[p].target
         /\ cmd'[p].created = cmd[p].created /\ cmd'[p].loaded = cmd[p].loaded
         /\ cmd'[p].found = cmd[p].found /\ cmd'[p].addr = cmd[p].addr

(* A command that p returns from with success ends at its last step.       *)
Ends(p) ==
    cmd'[p].pc = "ok" =>
        \/ cmd[p].pc \in {"tunnel", "kRemove"}
        \/ cmd[p].op \in {"stop", "upgrade"}

USE DEF At, Exists, Running, host, ssh, UpSteps, DestroySteps, Frame, Moved

LEMMA PutEffect ==
    ASSUME TypeOK, NEW p \in Proc, NEW c \in Cmd, cmd' = [cmd EXCEPT ![p] = c]
    PROVE  Frame(p) /\ cmd'[p] = c
BY DEF TypeOK

LEMMA GotoMoves ==
    ASSUME TInv, NEW p \in Proc,
           NEW steps \in SUBSET (Steps \cup {"ok", "error"}),
           \E step \in steps : Goto(p, step)
    PROVE  Moved(p, steps)
<1> PICK step \in steps : Goto(p, step)
  OBVIOUS
<1>1. CASE step \in {"ok", "error"}
  <2>1. [Idle EXCEPT !.pc = step, !.op = cmd[p].op] \in Cmd
    BY <1>1 DEF Idle, Cmd, TInv, TypeOK
  <2>2. cmd' = [cmd EXCEPT ![p] = [Idle EXCEPT !.pc = step, !.op = cmd[p].op]]
    BY <1>1 DEF Goto
  <2> QED
    BY <1>1, <2>1, <2>2 DEF TInv, TypeOK, Idle
<1>2. CASE step \notin {"ok", "error"}
  <2>1. [cmd[p] EXCEPT !.pc = step] \in Cmd
    BY DEF TInv, TypeOK, Cmd
  <2>2. cmd' = [cmd EXCEPT ![p] = [cmd[p] EXCEPT !.pc = step]]
    BY <1>2 DEF Goto
  <2> QED
    BY <1>2, <2>1, <2>2 DEF TInv, TypeOK, Cmd
<1> QED
  BY <1>1, <1>2

LEMMA FaultType ==
    ASSUME TInv, UNCHANGED faults \/ Fault
    PROVE  faults' \in 0 .. MaxFaults
BY ConstantAssumption DEF TInv, TypeOK, Fault, ConstantAssumption

(* A command in the guest leaves a machine of the same image.              *)
LEMMA InGuestEffect ==
    ASSUME TInv, NEW ready \in BOOLEAN, InGuest(ready)
    PROVE  /\ machine # NoMachine /\ machine' \in Machines
           /\ machine' # NoMachine /\ machine'.image = machine.image
           /\ machine'.addr \in Address
BY ValueAssumption
DEF TInv, TypeOK, Addressed, InGuest, Machines, ValueAssumption

LEMMA HaltedEffect ==
    ASSUME TInv, machine' \in {machine, Halted}
    PROVE  /\ machine' \in Machines \cup {NoMachine}
           /\ machine' = NoMachine <=> machine = NoMachine
           /\ machine # NoMachine => machine'.image = machine.image
           /\ Addressed'
BY ValueAssumption
DEF TInv, TypeOK, Addressed, Halted, Machines, ValueAssumption

LEMMA DeletedEffect ==
    ASSUME TInv, Deleted
    PROVE  /\ machine' = NoMachine
           /\ hostKey' \in {"none", "current", "stale"}
           /\ tunnel' \in TunnelsOf \cup {NoTunnel}
           /\ tunnel' = NoTunnel <=> tunnel = NoTunnel
BY ValueAssumption DEF TInv, TypeOK, Deleted, TunnelsOf, ValueAssumption

(* One command at a time: what holds of the one that steps holds of all.   *)
LEMMA Alone ==
    ASSUME OneAtATime, NEW p \in Proc, TInv', NoOrphanMachine', PinnedImage',
           Own(cmd[p])'
    PROVE  IInv'
BY DEF IInv, OneAtATime

-----------------------------------------------------------------------------
(* The steps that go on to a step by Goto: each keeps both invariants, the *)
(* second one when no other command runs.                                  *)

LEMMA UpgradeEnsureKeeps ==
    ASSUME TInv, NEW p \in Proc, UpgradeEnsure(p)
    PROVE  TInv' /\ Ends(p) /\ (OneAtATime /\ IInv => IInv')
<1>1. Moved(p, {"dFind"})
  BY GotoMoves DEF UpgradeEnsure, Steps
<1>2. TInv'
  BY <1>1 DEF TInv, TypeOK, Addressed, Ready, Placed, Built, UpgradeEnsure
<1>3. ASSUME OneAtATime, IInv PROVE IInv'
  <2>1. NoOrphanMachine' /\ PinnedImage' /\ Own(cmd[p])'
    BY <1>1, <1>3 DEF IInv, TInv, TypeOK, Placed, NoOrphanMachine,
       PinnedImage, Own, Pinned, Agreed, Untrusting, Gone, UpgradeEnsure
  <2> QED
    BY <1>2, <1>3, <2>1, Alone
<1>4. Ends(p)
  BY <1>1 DEF Ends, UpgradeEnsure
<1> QED
  BY <1>2, <1>3, <1>4

LEMMA UpFindKeeps ==
    ASSUME TInv, NEW p \in Proc, UpFind(p)
    PROVE  TInv' /\ Ends(p) /\ (OneAtATime /\ IInv => IInv')
<1>1. Moved(p, {IF ~ Exists THEN "uEnsure"
                ELSE IF cmd[p].loaded = NoRecord THEN "error" ELSE "boot"})
  BY GotoMoves DEF UpFind, Steps
<1>2. TInv'
  BY <1>1 DEF TInv, TypeOK, Addressed, Ready, Placed, Built, UpFind
<1>3. ASSUME OneAtATime, IInv PROVE IInv'
  <2>1. NoOrphanMachine' /\ PinnedImage' /\ Own(cmd[p])'
    BY <1>1, <1>3 DEF IInv, TInv, TypeOK, Placed, NoOrphanMachine,
       PinnedImage, Own, Pinned, Agreed, Untrusting, Gone, UpFind
  <2> QED
    BY <1>2, <1>3, <2>1, Alone
<1>4. Ends(p)
  BY <1>1 DEF Ends, UpFind
<1> QED
  BY <1>2, <1>3, <1>4

LEMMA UpEnsureKeeps ==
    ASSUME TInv, NEW p \in Proc, UpEnsure(p)
    PROVE  TInv' /\ Ends(p) /\ (OneAtATime /\ IInv => IInv')
<1>1. Moved(p, {IF cmd[p].loaded = NoRecord THEN "saveNew" ELSE "create"})
  BY GotoMoves DEF UpEnsure, Steps
<1>2. TInv'
  BY <1>1 DEF TInv, TypeOK, Addressed, Ready, Placed, Built, UpEnsure
<1>3. ASSUME OneAtATime, IInv PROVE IInv'
  <2>1. NoOrphanMachine' /\ PinnedImage' /\ Own(cmd[p])'
    BY <1>1, <1>3 DEF IInv, TInv, TypeOK, Placed, NoOrphanMachine,
       PinnedImage, Own, Pinned, Agreed, Untrusting, Gone, UpEnsure
  <2> QED
    BY <1>2, <1>3, <2>1, Alone
<1>4. Ends(p)
  BY <1>1 DEF Ends, UpEnsure
<1> QED
  BY <1>2, <1>3, <1>4

LEMMA SaveNewKeeps ==
    ASSUME TInv, NEW p \in Proc, SaveNew(p)
    PROVE  TInv' /\ Ends(p) /\ (OneAtATime /\ IInv => IInv')
<1>1. Moved(p, {"create"})
  BY GotoMoves DEF SaveNew, Steps
<1>2. /\ record' \in Records /\ record' # NoRecord
      /\ record'.image = cmd[p].image
  BY ValueAssumption DEF SaveNew, TInv, Ready, Records, ValueAssumption
<1>3. TInv'
  BY <1>1, <1>2 DEF TInv, TypeOK, Addressed, Ready, Placed, Built, SaveNew
<1>4. ASSUME OneAtATime, IInv PROVE IInv'
  <2>1. NoOrphanMachine' /\ PinnedImage' /\ Own(cmd[p])'
    BY <1>1, <1>2, <1>4 DEF IInv, TInv, TypeOK, Placed, NoOrphanMachine,
       PinnedImage, Own, Pinned, Agreed, Untrusting, Gone, SaveNew
  <2> QED
    BY <1>3, <1>4, <2>1, Alone
<1>5. Ends(p)
  BY <1>1 DEF Ends, SaveNew
<1> QED
  BY <1>3, <1>4, <1>5

LEMMA CreateFindKeeps ==
    ASSUME TInv, NEW p \in Proc, CreateFind(p)
    PROVE  TInv' /\ Ends(p) /\ (OneAtATime /\ IInv => IInv')
<1>1. Moved(p, {IF Exists THEN "error" ELSE "cDrop"})
  BY GotoMoves DEF CreateFind, Steps
<1>2. TInv'
  BY <1>1 DEF TInv, TypeOK, Addressed, Ready, Placed, Built, CreateFind
<1>3. ASSUME OneAtATime, IInv PROVE IInv'
  <2>1. NoOrphanMachine' /\ PinnedImage' /\ Own(cmd[p])'
    BY <1>1, <1>3 DEF IInv, TInv, TypeOK, Placed, NoOrphanMachine,
       PinnedImage, Own, Pinned, Agreed, Untrusting, Gone, CreateFind
  <2> QED
    BY <1>2, <1>3, <2>1, Alone
<1>4. Ends(p)
  BY <1>1 DEF Ends, CreateFind
<1> QED
  BY <1>2, <1>3, <1>4

LEMMA CreateDropKeeps ==
    ASSUME TInv, NEW p \in Proc, CreateDrop(p)
    PROVE  TInv' /\ Ends(p) /\ (OneAtATime /\ IInv => IInv')
<1>1. Moved(p, {"error"})
  BY GotoMoves DEF CreateDrop, Steps
<1>2. TInv'
  BY <1>1 DEF TInv, TypeOK, Addressed, Ready, Placed, Built, CreateDrop
<1>3. ASSUME OneAtATime, IInv PROVE IInv'
  <2>1. NoOrphanMachine' /\ PinnedImage' /\ Own(cmd[p])'
    BY <1>1, <1>3 DEF IInv, TInv, TypeOK, Placed, NoOrphanMachine,
       PinnedImage, Own, Pinned, Agreed, Untrusting, Gone, CreateDrop
  <2> QED
    BY <1>2, <1>3, <2>1, Alone
<1>4. Ends(p)
  BY <1>1 DEF Ends, CreateDrop
<1> QED
  BY <1>2, <1>3, <1>4

LEMMA BootKeeps ==
    ASSUME TInv, NEW p \in Proc, Boot(p)
    PROVE  TInv' /\ Ends(p) /\ (OneAtATime /\ IInv => IInv')
<1>1. Moved(p, {"provision", "error"})
  BY GotoMoves DEF Boot, Steps, Done
<1>2. /\ machine # NoMachine /\ machine' \in Machines /\ machine' # NoMachine
      /\ machine'.image = machine.image /\ machine'.addr \in Address
      /\ faults' \in 0 .. MaxFaults
  BY InGuestEffect, FaultType DEF Boot, Done
<1>3. TInv'
  BY <1>1, <1>2 DEF TInv, TypeOK, Addressed, Ready, Placed, Built, Boot
<1>4. ASSUME OneAtATime, IInv PROVE IInv'
  <2>1. NoOrphanMachine' /\ PinnedImage' /\ Own(cmd[p])'
    BY <1>1, <1>2, <1>4 DEF IInv, TInv, TypeOK, Placed, NoOrphanMachine,
       PinnedImage, Own, Pinned, Agreed, Untrusting, Gone, Boot
  <2> QED
    BY <1>3, <1>4, <2>1, Alone
<1>5. Ends(p)
  BY <1>1 DEF Ends, Boot
<1> QED
  BY <1>3, <1>4, <1>5

LEMMA ProvisionKeeps ==
    ASSUME TInv, NEW p \in Proc, Provision(p)
    PROVE  TInv' /\ Ends(p) /\ (OneAtATime /\ IInv => IInv')
<1>1. Moved(p, {"address", "error"})
  BY GotoMoves DEF Provision, Steps, Done
<1>2. /\ machine # NoMachine /\ machine' \in Machines /\ machine' # NoMachine
      /\ machine'.image = machine.image /\ machine'.addr \in Address
      /\ faults' \in 0 .. MaxFaults
  BY InGuestEffect, FaultType DEF Provision, Done
<1>3. TInv'
  BY <1>1, <1>2 DEF TInv, TypeOK, Addressed, Ready, Placed, Built, Provision
<1>4. ASSUME OneAtATime, IInv PROVE IInv'
  <2>1. NoOrphanMachine' /\ PinnedImage' /\ Own(cmd[p])'
    BY <1>1, <1>2, <1>4 DEF IInv, TInv, TypeOK, Placed, NoOrphanMachine,
       PinnedImage, Own, Pinned, Agreed, Untrusting, Gone, Provision
  <2> QED
    BY <1>3, <1>4, <2>1, Alone
<1>5. Ends(p)
  BY <1>1 DEF Ends, Provision
<1> QED
  BY <1>3, <1>4, <1>5

LEMMA ForgetHostKeyKeeps ==
    ASSUME TInv, NEW p \in Proc, ForgetHostKey(p)
    PROVE  TInv' /\ Ends(p) /\ (OneAtATime /\ IInv => IInv')
<1>1. Moved(p, {"apply"})
  BY GotoMoves DEF ForgetHostKey, Steps
<1>2. TInv'
  BY <1>1 DEF TInv, TypeOK, Addressed, Ready, Placed, Built, ForgetHostKey
<1>3. ASSUME OneAtATime, IInv PROVE IInv'
  <2>1. NoOrphanMachine' /\ PinnedImage' /\ Own(cmd[p])'
    BY <1>1, <1>3 DEF IInv, TInv, TypeOK, Placed, NoOrphanMachine,
       PinnedImage, Own, Pinned, Agreed, Untrusting, Gone, ForgetHostKey
  <2> QED
    BY <1>2, <1>3, <2>1, Alone
<1>4. Ends(p)
  BY <1>1 DEF Ends, ForgetHostKey
<1> QED
  BY <1>2, <1>3, <1>4

LEMMA ApplyKeeps ==
    ASSUME TInv, NEW p \in Proc, Apply(p)
    PROVE  TInv' /\ Ends(p) /\ (OneAtATime /\ IInv => IInv')
<1>1. Moved(p, {"recLoad", "error"})
  BY GotoMoves DEF Apply, Steps, Done
<1>2. faults' \in 0 .. MaxFaults /\ cmd[p].addr \in Address \cup {NoAddress}
  BY FaultType DEF Apply, Done, TInv, TypeOK, Cmd
<1>3. TInv'
  BY <1>1, <1>2 DEF TInv, TypeOK, Addressed, Ready, Placed, Built, Apply
<1>4. ASSUME OneAtATime, IInv PROVE IInv'
  <2>1. NoOrphanMachine' /\ PinnedImage' /\ Own(cmd[p])'
    BY <1>1, <1>2, <1>4 DEF IInv, TInv, TypeOK, Placed, NoOrphanMachine,
       PinnedImage, Own, Pinned, Agreed, Untrusting, Gone, Apply
  <2> QED
    BY <1>3, <1>4, <2>1, Alone
<1>5. Ends(p)
  BY <1>1 DEF Ends, Apply
<1> QED
  BY <1>3, <1>4, <1>5

LEMMA RecordSaveKeeps ==
    ASSUME TInv, NEW p \in Proc, RecordSave(p)
    PROVE  TInv' /\ Ends(p) /\ (OneAtATime /\ IInv => IInv')
<1>1. Moved(p, {IF cmd[p].created THEN "tDrop" ELSE "tunnel"})
  BY GotoMoves DEF RecordSave, Steps
<1>2. /\ cmd[p].loaded \in Records /\ record' \in Records /\ record' # NoRecord
      /\ record'.image = cmd[p].loaded.image /\ record'.addr = cmd[p].addr
  BY ValueAssumption
  DEF RecordSave, TInv, TypeOK, Ready, Cmd, Records, ValueAssumption
<1>3. TInv'
  BY <1>1, <1>2 DEF TInv, TypeOK, Addressed, Ready, Placed, Built, RecordSave
<1>4. ASSUME OneAtATime, IInv PROVE IInv'
  <2>1. NoOrphanMachine' /\ PinnedImage' /\ Own(cmd[p])'
    BY <1>1, <1>2, <1>4 DEF IInv, TInv, TypeOK, Placed, NoOrphanMachine,
       PinnedImage, Own, Pinned, Agreed, Untrusting, Gone, RecordSave
  <2> QED
    BY <1>3, <1>4, <2>1, Alone
<1>5. Ends(p)
  BY <1>1 DEF Ends, RecordSave
<1> QED
  BY <1>3, <1>4, <1>5

LEMMA TunnelDropKeeps ==
    ASSUME TInv, NEW p \in Proc, TunnelDrop(p)
    PROVE  TInv' /\ Ends(p) /\ (OneAtATime /\ IInv => IInv')
<1>1. Moved(p, {"tunnel"})
  BY GotoMoves DEF TunnelDrop, Steps
<1>2. TInv'
  BY <1>1 DEF TInv, TypeOK, Addressed, Ready, Placed, Built, TunnelDrop
<1>3. ASSUME OneAtATime, IInv PROVE IInv'
  <2>1. NoOrphanMachine' /\ PinnedImage' /\ Own(cmd[p])'
    BY <1>1, <1>3 DEF IInv, TInv, TypeOK, Placed, NoOrphanMachine,
       PinnedImage, Own, Pinned, Agreed, Untrusting, Gone, TunnelDrop
  <2> QED
    BY <1>2, <1>3, <2>1, Alone
<1>4. Ends(p)
  BY <1>1 DEF Ends, TunnelDrop
<1> QED
  BY <1>2, <1>3, <1>4

LEMMA StopFindKeeps ==
    ASSUME TInv, NEW p \in Proc, StopFind(p)
    PROVE  TInv' /\ Ends(p) /\ (OneAtATime /\ IInv => IInv')
<1>1. Moved(p, {"sOwned", "tRemove"})
  BY GotoMoves DEF StopFind, Steps
<1>2. TInv'
  BY <1>1 DEF TInv, TypeOK, Addressed, Ready, Placed, Built, StopFind
<1>3. ASSUME OneAtATime, IInv PROVE IInv'
  <2>1. NoOrphanMachine' /\ PinnedImage' /\ Own(cmd[p])'
    BY <1>1, <1>3 DEF IInv, TInv, TypeOK, Placed, NoOrphanMachine,
       PinnedImage, Own, Pinned, Agreed, Untrusting, Gone, StopFind
  <2> QED
    BY <1>2, <1>3, <2>1, Alone
<1>4. Ends(p)
  BY <1>1 DEF Ends, StopFind
<1> QED
  BY <1>2, <1>3, <1>4

LEMMA StopOwnedKeeps ==
    ASSUME TInv, NEW p \in Proc, StopOwned(p)
    PROVE  TInv' /\ Ends(p) /\ (OneAtATime /\ IInv => IInv')
<1>1. Moved(p, {"error", "sStop"})
  BY GotoMoves DEF StopOwned, Steps
<1>2. TInv'
  BY <1>1 DEF TInv, TypeOK, Addressed, Ready, Placed, Built, StopOwned
<1>3. ASSUME OneAtATime, IInv PROVE IInv'
  <2>1. NoOrphanMachine' /\ PinnedImage' /\ Own(cmd[p])'
    BY <1>1, <1>3 DEF IInv, TInv, TypeOK, Placed, NoOrphanMachine,
       PinnedImage, Own, Pinned, Agreed, Untrusting, Gone, StopOwned
  <2> QED
    BY <1>2, <1>3, <2>1, Alone
<1>4. Ends(p)
  BY <1>1 DEF Ends, StopOwned
<1> QED
  BY <1>2, <1>3, <1>4

LEMMA StopMachineKeeps ==
    ASSUME TInv, NEW p \in Proc, StopMachine(p)
    PROVE  TInv' /\ Ends(p) /\ (OneAtATime /\ IInv => IInv')
<1>1. Moved(p, {"tRemove", "error"})
  BY GotoMoves DEF StopMachine, Steps, Done
<1>2. /\ faults' \in 0 .. MaxFaults /\ machine' \in Machines \cup {NoMachine}
      /\ machine' = NoMachine <=> machine = NoMachine
      /\ machine # NoMachine => machine'.image = machine.image
      /\ Addressed'
  BY HaltedEffect, FaultType DEF StopMachine, Done
<1>3. TInv'
  BY <1>1, <1>2 DEF TInv, TypeOK, Addressed, Ready, Placed, Built, StopMachine
<1>4. ASSUME OneAtATime, IInv PROVE IInv'
  <2>1. NoOrphanMachine' /\ PinnedImage' /\ Own(cmd[p])'
    BY <1>1, <1>2, <1>4 DEF IInv, TInv, TypeOK, Placed, NoOrphanMachine,
       PinnedImage, Own, Pinned, Agreed, Untrusting, Gone, StopMachine
  <2> QED
    BY <1>3, <1>4, <2>1, Alone
<1>5. Ends(p)
  BY <1>1 DEF Ends, StopMachine
<1> QED
  BY <1>3, <1>4, <1>5

LEMMA DestroyStopKeeps ==
    ASSUME TInv, NEW p \in Proc, DestroyStop(p)
    PROVE  TInv' /\ Ends(p) /\ (OneAtATime /\ IInv => IInv')
<1>1. Moved(p, {"dDelete"})
  BY GotoMoves DEF DestroyStop, Steps
<1>2. /\ faults' \in 0 .. MaxFaults /\ machine' \in Machines \cup {NoMachine}
      /\ machine' = NoMachine <=> machine = NoMachine
      /\ machine # NoMachine => machine'.image = machine.image
      /\ Addressed'
  BY HaltedEffect, FaultType DEF DestroyStop
<1>3. TInv'
  BY <1>1, <1>2 DEF TInv, TypeOK, Addressed, Ready, Placed, Built, DestroyStop
<1>4. ASSUME OneAtATime, IInv PROVE IInv'
  <2>1. NoOrphanMachine' /\ PinnedImage' /\ Own(cmd[p])'
    BY <1>1, <1>2, <1>4 DEF IInv, TInv, TypeOK, Placed, NoOrphanMachine,
       PinnedImage, Own, Pinned, Agreed, Untrusting, Gone, DestroyStop
  <2> QED
    BY <1>3, <1>4, <2>1, Alone
<1>5. Ends(p)
  BY <1>1 DEF Ends, DestroyStop
<1> QED
  BY <1>3, <1>4, <1>5

LEMMA TunnelRemoveKeeps ==
    ASSUME TInv, NEW p \in Proc, TunnelRemove(p)
    PROVE  TInv' /\ Ends(p) /\ (OneAtATime /\ IInv => IInv')
<1>1. Moved(p, {IF cmd[p].op = "stop" THEN "ok" ELSE "hRemove"})
  BY GotoMoves DEF TunnelRemove, Steps
<1>2. TInv'
  BY <1>1 DEF TInv, TypeOK, Addressed, Ready, Placed, Built, TunnelRemove
<1>3. ASSUME OneAtATime, IInv PROVE IInv'
  <2>1. NoOrphanMachine' /\ PinnedImage' /\ Own(cmd[p])'
    BY <1>1, <1>3 DEF IInv, TInv, TypeOK, Placed, NoOrphanMachine,
       PinnedImage, Own, Pinned, Agreed, Untrusting, Gone, TunnelRemove
  <2> QED
    BY <1>2, <1>3, <2>1, Alone
<1>4. Ends(p)
  BY <1>1 DEF Ends, TunnelRemove
<1> QED
  BY <1>2, <1>3, <1>4

LEMMA HostRemoveKeeps ==
    ASSUME TInv, NEW p \in Proc, HostRemove(p)
    PROVE  TInv' /\ Ends(p) /\ (OneAtATime /\ IInv => IInv')
<1>1. Moved(p, {"kRemove"})
  BY GotoMoves DEF HostRemove, Steps
<1>2. TInv'
  BY <1>1 DEF TInv, TypeOK, Addressed, Ready, Placed, Built, HostRemove
<1>3. ASSUME OneAtATime, IInv PROVE IInv'
  <2>1. NoOrphanMachine' /\ PinnedImage' /\ Own(cmd[p])'
    BY <1>1, <1>3 DEF IInv, TInv, TypeOK, Placed, NoOrphanMachine,
       PinnedImage, Own, Pinned, Agreed, Untrusting, Gone, HostRemove
  <2> QED
    BY <1>2, <1>3, <2>1, Alone
<1>4. Ends(p)
  BY <1>1 DEF Ends, HostRemove
<1> QED
  BY <1>2, <1>3, <1>4

LEMMA KeyRemoveKeeps ==
    ASSUME TInv, NEW p \in Proc, KeyRemove(p)
    PROVE  TInv' /\ Ends(p) /\ (OneAtATime /\ IInv => IInv')
<1>1. Moved(p, {"ok"})
  BY GotoMoves DEF KeyRemove, Steps
<1>2. TInv'
  BY <1>1 DEF TInv, TypeOK, Addressed, Ready, Placed, Built, KeyRemove
<1>3. ASSUME OneAtATime, IInv PROVE IInv'
  <2>1. NoOrphanMachine' /\ PinnedImage' /\ Own(cmd[p])'
    BY <1>1, <1>3 DEF IInv, TInv, TypeOK, Placed, NoOrphanMachine,
       PinnedImage, Own, Pinned, Agreed, Untrusting, Gone, KeyRemove
  <2> QED
    BY <1>2, <1>3, <2>1, Alone
<1>4. Ends(p)
  BY <1>1 DEF Ends, KeyRemove
<1> QED
  BY <1>2, <1>3, <1>4

LEMMA NoGuestKeeps ==
    ASSUME TInv, NEW p \in Proc, NoGuest(p)
    PROVE  TInv' /\ Ends(p) /\ (OneAtATime /\ IInv => IInv')
<1>1. Moved(p, {"error"})
  BY GotoMoves DEF NoGuest, Steps
<1>2. TInv'
  BY <1>1 DEF TInv, TypeOK, Addressed, Ready, Placed, Built, NoGuest
<1>3. ASSUME OneAtATime, IInv PROVE IInv'
  <2>1. NoOrphanMachine' /\ PinnedImage' /\ Own(cmd[p])'
    BY <1>1, <1>3 DEF IInv, TInv, TypeOK, Placed, NoOrphanMachine,
       PinnedImage, Own, Pinned, Agreed, Untrusting, Gone, NoGuest
  <2> QED
    BY <1>2, <1>3, <2>1, Alone
<1>4. Ends(p)
  BY <1>1 DEF Ends, NoGuest
<1> QED
  BY <1>2, <1>3, <1>4

LEMMA FailKeeps ==
    ASSUME TInv, NEW p \in Proc, Fail(p)
    PROVE  TInv' /\ Ends(p) /\ (OneAtATime /\ IInv => IInv')
<1>1. Moved(p, {"error"})
  BY GotoMoves DEF Fail, Steps
<1>2. faults' \in 0 .. MaxFaults
  BY FaultType DEF Fail
<1>3. TInv'
  BY <1>1, <1>2 DEF TInv, TypeOK, Addressed, Ready, Placed, Built, Fail
<1>4. ASSUME OneAtATime, IInv PROVE IInv'
  <2>1. NoOrphanMachine' /\ PinnedImage' /\ Own(cmd[p])'
    BY <1>1, <1>2, <1>4 DEF IInv, TInv, TypeOK, Placed, NoOrphanMachine,
       PinnedImage, Own, Pinned, Agreed, Untrusting, Gone, Fail
  <2> QED
    BY <1>3, <1>4, <2>1, Alone
<1>5. Ends(p)
  BY <1>1 DEF Ends, Fail
<1> QED
  BY <1>3, <1>4, <1>5

-----------------------------------------------------------------------------
(* The other steps of a command.                                           *)

(* Manager.Destroy's deletion makes stale what led to the machine.         *)
LEMMA DestroyDeleteKeeps ==
    ASSUME TInv, NEW p \in Proc, DestroyDelete(p)
    PROVE  TInv' /\ Ends(p) /\ (OneAtATime /\ IInv => IInv')
<1>1. CASE Deleted /\ Done(p, "dRecord", "error")
  <2>1. Moved(p, {"dRecord", "error"})
    BY <1>1, GotoMoves DEF Done, Steps
  <2>2. /\ machine' = NoMachine /\ hostKey' \in {"none", "current", "stale"}
        /\ tunnel' \in TunnelsOf \cup {NoTunnel}
        /\ tunnel' = NoTunnel <=> tunnel = NoTunnel
        /\ faults' \in 0 .. MaxFaults
        /\ UNCHANGED <<record, config, images, sshHost>>
    BY <1>1, DeletedEffect, FaultType DEF Done, DestroyDelete
  <2>3. TInv'
    BY <2>1, <2>2
    DEF TInv, TypeOK, Addressed, Ready, Placed, Built, DestroyDelete
  <2>4. ASSUME OneAtATime, IInv PROVE IInv'
    <3>1. NoOrphanMachine' /\ PinnedImage' /\ Own(cmd[p])'
      BY <2>1, <2>2, <2>4 DEF IInv, TInv, TypeOK, Placed, NoOrphanMachine,
         PinnedImage, Own, Pinned, Agreed, Untrusting, Gone, DestroyDelete
    <3> QED
      BY <2>3, <2>4, <3>1, Alone
  <2> QED
    BY <2>1, <2>3, <2>4 DEF Ends
<1>2. CASE Goto(p, "error") /\ UNCHANGED <<machine, hostKey, tunnel, faults>>
  <2>1. Moved(p, {"error"})
    BY <1>2, GotoMoves
  <2>2. UNCHANGED <<machine, record, config, images, sshHost, hostKey, tunnel,
                    faults>>
    BY <1>2 DEF DestroyDelete
  <2>3. TInv'
    BY <2>1, <2>2 DEF TInv, TypeOK, Addressed, Ready, Placed, Built
  <2>4. ASSUME OneAtATime, IInv PROVE IInv'
    <3>1. NoOrphanMachine' /\ PinnedImage' /\ Own(cmd[p])'
      BY <2>1, <2>2, <2>4 DEF IInv, NoOrphanMachine,
         PinnedImage, Own, Pinned, Agreed, Untrusting, Gone
    <3> QED
      BY <2>3, <2>4, <3>1, Alone
  <2> QED
    BY <2>1, <2>3, <2>4 DEF Ends
<1> QED
  BY <1>1, <1>2 DEF DestroyDelete

(* The tunnel that follows is for the address and the ports asked for.     *)
LEMMA ReplacedEffect ==
    ASSUME TInv, NEW p \in Proc, cmd[p].addr \in Address, Replaced(p)
    PROVE  /\ tunnel' \in TunnelsOf \cup {NoTunnel}
           /\ (tunnel' = NoTunnel) <=> (cmd[p].ports = {})
           /\ tunnel' # NoTunnel =>
                /\ tunnel'.addr = cmd[p].addr /\ tunnel'.of = "current"
                /\ tunnel'.ports \cup tunnel'.blocked = cmd[p].ports
<1>1. cmd[p].ports \in SUBSET Port
  BY DEF TInv, TypeOK, Cmd
<1>2. CASE cmd[p].ports = {}
  BY <1>2 DEF Replaced
<1>3. CASE cmd[p].ports # {}
  <2>0. PICK free \in SUBSET cmd[p].ports : \E live \in {FALSE, free # {}} :
          tunnel' = [addr |-> cmd[p].addr, of |-> "current", live |-> live,
                     ports |-> free, blocked |-> cmd[p].ports \ free]
    BY <1>3 DEF Replaced
  <2>1. PICK live \in {FALSE, free # {}} :
          tunnel' = [addr |-> cmd[p].addr, of |-> "current", live |-> live,
                     ports |-> free, blocked |-> cmd[p].ports \ free]
    BY <2>0
  <2>2. /\ live \in BOOLEAN /\ live => free # {}
        /\ free \in SUBSET Port /\ cmd[p].ports \ free \in SUBSET Port
        /\ free \cup (cmd[p].ports \ free) = cmd[p].ports
    BY <1>1
  <2>3. tunnel' \in TunnelsOf
    BY <2>1, <2>2 DEF TunnelsOf
  <2> QED
    BY <1>3, <2>1, <2>2, <2>3, ValueAssumption DEF ValueAssumption
<1> QED
  BY <1>2, <1>3

LEMMA TunnelReconcileKeeps ==
    ASSUME TInv, NEW p \in Proc, TunnelReconcile(p)
    PROVE  TInv' /\ Ends(p) /\ (OneAtATime /\ IInv => IInv')
<1>1. Moved(p, {"ok", "error"})
  BY GotoMoves DEF TunnelReconcile, Done
<1>2. faults' \in 0 .. MaxFaults
  BY FaultType DEF TunnelReconcile, Done
<1>3. cmd[p].addr \in Address
  BY DEF TunnelReconcile, TInv, Ready
<1>4. tunnel' \in TunnelsOf \cup {NoTunnel}
  <2>1. ASSUME Replaced(p) PROVE tunnel' \in TunnelsOf \cup {NoTunnel}
    BY <1>3, <2>1, ReplacedEffect
  <2> QED
    BY <2>1 DEF TunnelReconcile, TInv, TypeOK
<1>5. TInv'
  BY <1>1, <1>2, <1>4
  DEF TInv, TypeOK, Addressed, Ready, Placed, Built, TunnelReconcile
<1>6. ASSUME OneAtATime, IInv PROVE IInv'
  <2>1. NoOrphanMachine' /\ PinnedImage' /\ Own(cmd[p])'
    BY <1>1, <1>6 DEF IInv, NoOrphanMachine, PinnedImage, Own, Pinned, Agreed,
       Untrusting, Gone, TunnelReconcile
  <2> QED
    BY <1>5, <1>6, <2>1, Alone
<1>7. Ends(p)
  BY DEF Ends, TunnelReconcile
<1> QED
  BY <1>5, <1>6, <1>7

LEMMA UpgradeLoadKeeps ==
    ASSUME TInv, NEW p \in Proc, UpgradeLoad(p)
    PROVE  TInv' /\ Ends(p) /\ (OneAtATime /\ IInv => IInv')
<1>1. /\ Frame(p)
      /\ \/ cmd'[p].pc \in {"ok", "error"}
         \/ /\ cmd'[p].pc = "gEnsure" /\ cmd'[p].op = cmd[p].op
            /\ cmd'[p].target = cmd[p].image
  <2>1. CASE \E step \in {"ok", "error"} : Goto(p, step)
    BY <2>1, GotoMoves
  <2>2. CASE cmd' = [cmd EXCEPT ![p].pc = "gEnsure",
                                ![p].target = cmd[p].image]
    <3>1. cmd' = [cmd EXCEPT ![p] = [cmd[p] EXCEPT !.pc = "gEnsure",
                                                   !.target = cmd[p].image]]
      BY <2>2
    <3>2. cmd[p] \in Cmd
      BY DEF TInv, TypeOK
    <3>3. [cmd[p] EXCEPT !.pc = "gEnsure", !.target = cmd[p].image] \in Cmd
      BY <3>2 DEF Cmd, Steps
    <3>4. Frame(p) /\ cmd'[p] = [cmd[p] EXCEPT !.pc = "gEnsure",
                                               !.target = cmd[p].image]
      BY <3>1, <3>3, PutEffect DEF TInv
    <3> QED
      BY <3>2, <3>4 DEF Cmd
  <2> QED
    BY <2>1, <2>2 DEF UpgradeLoad
<1>2. TInv'
  BY <1>1 DEF TInv, TypeOK, Addressed, Ready, Placed, Built, UpgradeLoad
<1>3. ASSUME OneAtATime, IInv PROVE IInv'
  <2>1. NoOrphanMachine' /\ PinnedImage' /\ Own(cmd[p])'
    BY <1>1, <1>3 DEF IInv, NoOrphanMachine, PinnedImage, Own, Pinned, Agreed,
       Untrusting, Gone, UpgradeLoad
  <2> QED
    BY <1>2, <1>3, <2>1, Alone
<1>4. Ends(p)
  BY <1>1 DEF Ends, TInv, Placed, UpgradeLoad
<1> QED
  BY <1>2, <1>3, <1>4

LEMMA PrepareKeeps ==
    ASSUME TInv, NEW p \in Proc, Prepare(p)
    PROVE  TInv' /\ Ends(p) /\ (OneAtATime /\ IInv => IInv')
<1> DEFINE step == IF cmd[p].op = "up" THEN "uLoad" ELSE "gLoad"
           after(ports) == [cmd[p] EXCEPT !.image = config, !.ports = ports,
                                          !.pc = step]
<1>1. cmd[p] \in Cmd /\ config \in Image /\ step \in Steps
  BY DEF TInv, TypeOK, Steps
<1>2. PICK ports \in SUBSET Port : cmd' = [cmd EXCEPT ![p] = after(ports)]
  BY DEF Prepare
<1>3. /\ after(ports) \in Cmd /\ after(ports).pc = step
      /\ after(ports).op = cmd[p].op /\ after(ports).image = config
  <2> HIDE DEF step
  <2> QED
    BY <1>1, <1>2 DEF Cmd
<1>4. /\ Frame(p)
      /\ cmd'[p].pc = step /\ cmd'[p].op = cmd[p].op /\ cmd'[p].image = config
  BY <1>2, <1>3, PutEffect DEF TInv
<1>5. TInv'
  BY <1>1, <1>4 DEF TInv, TypeOK, Addressed, Ready, Placed, Built, Prepare
<1>6. ASSUME OneAtATime, IInv PROVE IInv'
  <2>1. NoOrphanMachine' /\ PinnedImage' /\ Own(cmd[p])'
    BY <1>4, <1>6 DEF IInv, NoOrphanMachine, PinnedImage, Own, Pinned, Agreed,
       Untrusting, Gone, Prepare
  <2> QED
    BY <1>5, <1>6, <2>1, Alone
<1>7. Ends(p)
  BY <1>4 DEF Ends
<1> QED
  BY <1>5, <1>6, <1>7

(* What the two reads of the record leave in the command.                  *)
LEMMA LoadMoves ==
    ASSUME TInv, NEW p \in Proc, NEW step \in Steps \cup {"ok", "error"},
           cmd' = [cmd EXCEPT ![p].loaded = record, ![p].pc = step]
    PROVE  /\ Frame(p)
           /\ cmd'[p].pc = step /\ cmd'[p].op = cmd[p].op
           /\ cmd'[p].image = cmd[p].image /\ cmd'[p].loaded = record
           /\ cmd'[p].created = cmd[p].created /\ cmd'[p].addr = cmd[p].addr
<1> DEFINE after == [cmd[p] EXCEPT !.loaded = record, !.pc = step]
<1>1. cmd[p] \in Cmd /\ record \in Records \cup {NoRecord}
  BY DEF TInv, TypeOK
<1>2. cmd' = [cmd EXCEPT ![p] = after]
  OBVIOUS
<1>3. /\ after \in Cmd /\ after.pc = step /\ after.op = cmd[p].op
      /\ after.image = cmd[p].image /\ after.loaded = record
      /\ after.created = cmd[p].created /\ after.addr = cmd[p].addr
  BY <1>1 DEF Cmd
<1> QED
  BY <1>2, <1>3, PutEffect DEF TInv

LEMMA UpLoadKeeps ==
    ASSUME TInv, NEW p \in Proc, UpLoad(p)
    PROVE  TInv' /\ Ends(p) /\ (OneAtATime /\ IInv => IInv')
<1> DEFINE step == IF record # NoRecord /\ record.image # cmd[p].image
                   THEN "error" ELSE "uFind"
<1>1. /\ Frame(p)
      /\ cmd'[p].pc = step /\ cmd'[p].op = cmd[p].op
      /\ cmd'[p].image = cmd[p].image /\ cmd'[p].loaded = record
  <2>1. step \in Steps \cup {"ok", "error"}
    BY DEF Steps
  <2>2. cmd' = [cmd EXCEPT ![p].loaded = record, ![p].pc = step]
    BY DEF UpLoad
  <2> HIDE DEF step
  <2> QED
    BY <2>1, <2>2, LoadMoves
<1>2. TInv'
  BY <1>1 DEF TInv, TypeOK, Addressed, Ready, Placed, Built, UpLoad
<1>3. ASSUME OneAtATime, IInv PROVE IInv'
  <2>1. NoOrphanMachine' /\ PinnedImage' /\ Own(cmd[p])'
    BY <1>1, <1>3 DEF IInv, NoOrphanMachine, PinnedImage, Own, Pinned, Agreed,
       Untrusting, Gone, UpLoad
  <2> QED
    BY <1>2, <1>3, <2>1, Alone
<1>4. Ends(p)
  BY <1>1 DEF Ends
<1> QED
  BY <1>2, <1>3, <1>4

LEMMA RecordLoadKeeps ==
    ASSUME TInv, NEW p \in Proc, RecordLoad(p)
    PROVE  TInv' /\ Ends(p) /\ (OneAtATime /\ IInv => IInv')
<1> DEFINE step == IF record = NoRecord THEN "error" ELSE "recSave"
<1>1. /\ Frame(p)
      /\ cmd'[p].pc = step /\ cmd'[p].op = cmd[p].op /\ cmd'[p].loaded = record
      /\ cmd'[p].created = cmd[p].created /\ cmd'[p].addr = cmd[p].addr
  BY LoadMoves DEF RecordLoad, Steps
<1>2. TInv'
  BY <1>1 DEF TInv, TypeOK, Addressed, Ready, Placed, Built, RecordLoad
<1>3. ASSUME OneAtATime, IInv PROVE IInv'
  <2>1. NoOrphanMachine' /\ PinnedImage' /\ Own(cmd[p])'
    BY <1>1, <1>3 DEF IInv, NoOrphanMachine, PinnedImage, Own, Pinned, Agreed,
       Untrusting, Gone, RecordLoad
  <2> QED
    BY <1>2, <1>3, <2>1, Alone
<1>4. Ends(p)
  BY <1>1 DEF Ends
<1> QED
  BY <1>2, <1>3, <1>4

LEMMA ResolveAddressKeeps ==
    ASSUME TInv, NEW p \in Proc, ResolveAddress(p)
    PROVE  TInv' /\ Ends(p) /\ (OneAtATime /\ IInv => IInv')
<1> DEFINE step == IF cmd[p].created THEN "forget" ELSE "apply"
           after == [cmd[p] EXCEPT !.addr = machine'.addr, !.pc = step]
<1>1. /\ cmd[p] \in Cmd /\ step \in Steps
      /\ machine # NoMachine /\ machine' \in Machines /\ machine' # NoMachine
      /\ machine'.image = machine.image
  BY InGuestEffect DEF ResolveAddress, TInv, TypeOK, Steps
<1>2. machine'.addr \in Address
  BY InGuestEffect DEF ResolveAddress
<1>3. cmd' = [cmd EXCEPT ![p] = after]
  BY DEF ResolveAddress
<1>4. /\ after \in Cmd /\ after.pc = step /\ after.op = cmd[p].op
      /\ after.created = cmd[p].created /\ after.addr = machine'.addr
  <2> HIDE DEF step
  <2> QED
    BY <1>1, <1>2 DEF Cmd
<1>5. /\ Frame(p)
      /\ cmd'[p].pc = step /\ cmd'[p].op = cmd[p].op
      /\ cmd'[p].created = cmd[p].created /\ cmd'[p].addr = machine'.addr
  BY <1>3, <1>4, PutEffect DEF TInv
<1>6. TInv'
  BY <1>1, <1>2, <1>5
  DEF TInv, TypeOK, Addressed, Ready, Placed, Built, ResolveAddress
<1>7. ASSUME OneAtATime, IInv PROVE IInv'
  <2>1. NoOrphanMachine' /\ PinnedImage' /\ Own(cmd[p])'
    BY <1>1, <1>5, <1>7 DEF IInv, NoOrphanMachine, PinnedImage, Own, Pinned,
       Agreed, Untrusting, Gone, ResolveAddress
  <2> QED
    BY <1>6, <1>7, <2>1, Alone
<1>8. Ends(p)
  BY <1>5 DEF Ends
<1> QED
  BY <1>6, <1>7, <1>8

LEMMA CreateKeeps ==
    ASSUME TInv, NEW p \in Proc, Create(p)
    PROVE  TInv' /\ Ends(p) /\ (OneAtATime /\ IInv => IInv')
<1> DEFINE made == [image |-> cmd[p].image, running |-> FALSE,
                    ready |-> FALSE, addr |-> NoAddress]
           after == [cmd[p] EXCEPT !.pc = "boot", !.created = TRUE]
<1>1. /\ Frame(p) /\ cmd'[p].pc \in {"boot", "cFind"}
      /\ cmd'[p].op = cmd[p].op
  <2>1. CASE Goto(p, "cFind")
    BY <2>1, GotoMoves DEF Steps
  <2>2. CASE cmd' = [cmd EXCEPT ![p].pc = "boot", ![p].created = TRUE]
    <3>1. cmd' = [cmd EXCEPT ![p] = after]
      BY <2>2
    <3>2. cmd[p] \in Cmd
      BY DEF TInv, TypeOK
    <3>3. after \in Cmd /\ after.pc = "boot" /\ after.op = cmd[p].op
      BY <3>2 DEF Cmd, Steps
    <3> QED
      BY <3>1, <3>3, PutEffect DEF TInv
  <2> QED
    BY <2>1, <2>2 DEF Create
<1>2. faults' \in 0 .. MaxFaults
  BY FaultType DEF Create
<1>3. made \in Machines /\ made # NoMachine /\ made.running = FALSE
  <2>1. cmd[p].image \in Image
    BY DEF Create, TInv, Ready
  <2>2. made \in Machines
    BY <2>1 DEF Machines
  <2> QED
    BY <2>2, ValueAssumption DEF ValueAssumption
<1>4. \/ machine' = machine /\ cmd'[p].pc = "cFind"
      \/ machine = NoMachine /\ machine' = made
  <2>1. ASSUME Goto(p, "cFind") PROVE Moved(p, {"cFind"})
    BY <2>1, GotoMoves DEF Steps
  <2> QED
    BY <2>1 DEF Create
<1>5. TInv'
  <2> HIDE DEF made
  <2> QED
    BY <1>1, <1>2, <1>3, <1>4
    DEF TInv, TypeOK, Addressed, Ready, Placed, Built, Create
<1>6. ASSUME OneAtATime, IInv PROVE IInv'
  <2>1. NoOrphanMachine' /\ PinnedImage' /\ Own(cmd[p])'
    BY <1>1, <1>4, <1>6 DEF IInv, NoOrphanMachine, PinnedImage, Own, Pinned,
       Agreed, Untrusting, Gone, Create
  <2> QED
    BY <1>5, <1>6, <2>1, Alone
<1>7. Ends(p)
  BY <1>1 DEF Ends
<1> QED
  BY <1>5, <1>6, <1>7

LEMMA DestroyFindKeeps ==
    ASSUME TInv, NEW p \in Proc, DestroyFind(p)
    PROVE  TInv' /\ Ends(p) /\ (OneAtATime /\ IInv => IInv')
<1> DEFINE after == [cmd[p] EXCEPT !.pc = "dOwned", !.found = Exists,
                                   !.up = Running]
<1>1. cmd[p] \in Cmd /\ Exists \in BOOLEAN /\ Running \in BOOLEAN
  BY DEF TInv, TypeOK, Machines
<1>2. cmd' = [cmd EXCEPT ![p] = after]
  BY DEF DestroyFind
<1>3. /\ after \in Cmd /\ after.pc = "dOwned" /\ after.op = cmd[p].op
      /\ after.target = cmd[p].target /\ after.found = Exists
  <2> HIDE DEF Exists, Running
  <2>1. PICK there \in BOOLEAN, alive \in BOOLEAN :
          there = Exists /\ alive = Running
    BY <1>1, Zenon
  <2>2. after = [cmd[p] EXCEPT !.pc = "dOwned", !.found = there, !.up = alive]
    BY <2>1, Zenon
  <2>3. after \in Cmd
    BY <1>1, <2>2 DEF Cmd, Steps
  <2>4. /\ after.pc = "dOwned" /\ after.op = cmd[p].op
        /\ after.target = cmd[p].target /\ after.found = there
    BY <1>1, <2>2 DEF Cmd
  <2> QED
    BY <2>1, <2>3, <2>4, Zenon
<1>4. /\ Frame(p)
      /\ cmd'[p].pc = "dOwned" /\ cmd'[p].op = cmd[p].op
      /\ cmd'[p].target = cmd[p].target /\ cmd'[p].found = Exists
  BY <1>2, <1>3, PutEffect DEF TInv
<1>5. TInv'
  BY <1>4 DEF TInv, TypeOK, Addressed, Ready, Placed, Built, DestroyFind
<1>6. ASSUME OneAtATime, IInv PROVE IInv'
  <2>1. NoOrphanMachine' /\ PinnedImage' /\ Own(cmd[p])'
    BY <1>4, <1>6 DEF IInv, NoOrphanMachine, PinnedImage, Own, Pinned,
       Agreed, Untrusting, Gone, DestroyFind
  <2> QED
    BY <1>5, <1>6, <2>1, Alone
<1>7. Ends(p)
  BY <1>4 DEF Ends
<1> QED
  BY <1>5, <1>6, <1>7

(* destroy goes on to the tunnel, upgrade turns into up.                   *)
LEMMA DestroyedMoves ==
    ASSUME TInv, NEW p \in Proc, Destroyed(p)
    PROVE  /\ Frame(p)
           /\ \/ cmd'[p].pc = "prepare" /\ cmd'[p].op = "up"
              \/ /\ cmd'[p].pc = "tRemove" /\ cmd'[p].op = cmd[p].op
                 /\ cmd[p].op # "upgrade"
<1> DEFINE after == [cmd[p] EXCEPT !.pc = "prepare", !.op = "up"]
<1>1. CASE cmd[p].op = "upgrade"
  <2>1. cmd' = [cmd EXCEPT ![p] = after]
    BY <1>1 DEF Destroyed
  <2>2. cmd[p] \in Cmd
    BY DEF TInv, TypeOK
  <2>3. after \in Cmd /\ after.pc = "prepare" /\ after.op = "up"
    BY <2>2 DEF Cmd, Steps
  <2> QED
    BY <2>1, <2>3, PutEffect DEF TInv
<1>2. CASE cmd[p].op # "upgrade"
  <2>1. Goto(p, "tRemove")
    BY <1>2 DEF Destroyed
  <2>2. Moved(p, {"tRemove"})
    BY <2>1, GotoMoves DEF Steps
  <2> QED
    BY <1>2, <2>2
<1> QED
  BY <1>1, <1>2

LEMMA DestroyOwnedKeeps ==
    ASSUME TInv, NEW p \in Proc, DestroyOwned(p)
    PROVE  TInv' /\ Ends(p) /\ (OneAtATime /\ IInv => IInv')
<1>1. CASE record = NoRecord /\ ~ cmd[p].found /\ Destroyed(p)
  <2>1. TInv'
    BY <1>1, DestroyedMoves
    DEF TInv, TypeOK, Addressed, Ready, Placed, Built, DestroyOwned
  <2>2. ASSUME OneAtATime, IInv PROVE IInv'
    <3>1. NoOrphanMachine' /\ PinnedImage' /\ Own(cmd[p])'
      BY <1>1, <2>2, DestroyedMoves DEF IInv, NoOrphanMachine, PinnedImage,
         Own, Pinned, Agreed, Untrusting, Gone, DestroyOwned
    <3> QED
      BY <2>1, <2>2, <3>1, Alone
  <2> QED
    BY <1>1, <2>1, <2>2, DestroyedMoves DEF Ends
<1>2. ASSUME NEW step \in {"error", "dRecord", "dStop", "dDelete"},
             Goto(p, step), step = "dRecord" => ~ cmd[p].found
      PROVE  TInv' /\ Ends(p) /\ (OneAtATime /\ IInv => IInv')
  <2>1. Moved(p, {step})
    BY <1>2, GotoMoves DEF Steps
  <2>2. TInv'
    BY <1>2, <2>1
    DEF TInv, TypeOK, Addressed, Ready, Placed, Built, DestroyOwned
  <2>3. ASSUME OneAtATime, IInv PROVE IInv'
    <3>1. NoOrphanMachine' /\ PinnedImage' /\ Own(cmd[p])'
      BY <1>2, <2>1, <2>3 DEF IInv, NoOrphanMachine, PinnedImage,
         Own, Pinned, Agreed, Untrusting, Gone, DestroyOwned
    <3> QED
      BY <2>2, <2>3, <3>1, Alone
  <2> QED
    BY <2>1, <2>2, <2>3 DEF Ends
<1> QED
  BY <1>1, <1>2 DEF DestroyOwned

LEMMA DestroyRecordKeeps ==
    ASSUME TInv, NEW p \in Proc, DestroyRecord(p)
    PROVE  TInv' /\ Ends(p) /\ (OneAtATime /\ IInv => IInv')
<1>1. Destroyed(p)
  BY DEF DestroyRecord
<1>2. TInv'
  BY <1>1, DestroyedMoves
  DEF TInv, TypeOK, Addressed, Ready, Placed, Built, DestroyRecord
<1>3. ASSUME OneAtATime, IInv PROVE IInv'
  <2>1. NoOrphanMachine' /\ PinnedImage' /\ Own(cmd[p])'
    BY <1>1, <1>3, DestroyedMoves DEF IInv, NoOrphanMachine, PinnedImage,
       Own, Pinned, Agreed, Untrusting, Gone, DestroyRecord
  <2> QED
    BY <1>2, <1>3, <2>1, Alone
<1>4. Ends(p)
  BY <1>1, DestroyedMoves DEF Ends
<1> QED
  BY <1>2, <1>3, <1>4

LEMMA BeginKeeps ==
    ASSUME TInv, NEW p \in Proc, NEW op \in Op, Begin(p, op)
    PROVE  TInv' /\ Ends(p) /\ (OneAtATime /\ IInv => IInv')
<1> DEFINE step == CASE op = "stop" -> "sFind"
                     [] op = "destroy" -> "dFind"
                     [] op \in {"up", "upgrade"} -> "prepare"
           after == [cmd[p] EXCEPT !.op = op, !.pc = step]
<1>0. op \in {"up", "stop", "destroy", "upgrade"}
  BY ConstantAssumption DEF ConstantAssumption
<1>1. /\ cmd[p] \in Cmd /\ step \in Steps
      /\ op = "stop" => step = "sFind"
      /\ op = "destroy" => step = "dFind"
      /\ op \in {"up", "upgrade"} => step = "prepare"
      /\ cmd' = [cmd EXCEPT ![p].op = op, ![p].pc = step]
  BY <1>0 DEF TInv, TypeOK, Steps, Begin
<1> HIDE DEF step
<1>2. cmd' = [cmd EXCEPT ![p] = after]
  BY <1>1
<1>3. after \in Cmd /\ after.pc = step /\ after.op = op
  BY <1>0, <1>1 DEF Cmd
<1>4. /\ Frame(p)
      /\ \/ cmd'[p].pc = "sFind" /\ cmd'[p].op = "stop"
         \/ cmd'[p].pc = "dFind" /\ cmd'[p].op = "destroy"
         \/ cmd'[p].pc = "prepare" /\ cmd'[p].op \in {"up", "upgrade"}
  BY <1>0, <1>1, <1>2, <1>3, PutEffect DEF TInv
<1>5. UNCHANGED <<machine, record, config, images, sshHost, hostKey, tunnel,
                  faults>>
  BY DEF Begin
<1>6. TInv'
  BY <1>4, <1>5 DEF TInv, TypeOK, Addressed, Ready, Placed, Built
<1>7. ASSUME OneAtATime, IInv PROVE IInv'
  <2>1. NoOrphanMachine' /\ PinnedImage' /\ Own(cmd[p])'
    BY <1>4, <1>5, <1>7 DEF IInv, NoOrphanMachine, PinnedImage, Own,
       Pinned, Agreed, Untrusting, Gone
  <2> QED
    BY <1>6, <1>7, <2>1, Alone
<1>8. Ends(p)
  BY <1>4 DEF Ends
<1> QED
  BY <1>6, <1>7, <1>8

(* A command that ends or is killed leaves what it has written.            *)
LEMMA EndKeeps ==
    ASSUME TInv, NEW p \in Proc, Crash(p) \/ Finish(p)
    PROVE  TInv' /\ Ends(p) /\ (OneAtATime /\ IInv => IInv')
<1>1. Idle \in Cmd /\ Idle.pc = "idle"
  BY DEF Idle, Cmd
<1>2. Frame(p) /\ cmd'[p].pc = "idle"
  BY <1>1, PutEffect DEF TInv, Crash, Finish
<1>3. faults' \in 0 .. MaxFaults
  BY FaultType DEF Crash, Finish
<1>4. TInv'
  BY <1>2, <1>3
  DEF TInv, TypeOK, Addressed, Ready, Placed, Built, Crash, Finish
<1>5. ASSUME OneAtATime, IInv PROVE IInv'
  <2>1. NoOrphanMachine' /\ PinnedImage' /\ Own(cmd[p])'
    BY <1>2, <1>5 DEF IInv, NoOrphanMachine, PinnedImage, Own, Pinned,
       Agreed, Untrusting, Gone, Crash, Finish
  <2> QED
    BY <1>4, <1>5, <2>1, Alone
<1>6. Ends(p)
  BY <1>2 DEF Ends
<1> QED
  BY <1>4, <1>5, <1>6

LEMMA StepKeeps ==
    ASSUME TInv, NEW p \in Proc, Step(p) \/ Fail(p)
    PROVE  TInv' /\ Ends(p) /\ (OneAtATime /\ IInv => IInv')
BY PrepareKeeps, UpgradeLoadKeeps, UpgradeEnsureKeeps, UpLoadKeeps,
   UpFindKeeps, UpEnsureKeeps, SaveNewKeeps, CreateKeeps, CreateFindKeeps,
   CreateDropKeeps, BootKeeps, ProvisionKeeps, ResolveAddressKeeps,
   ForgetHostKeyKeeps, ApplyKeeps, RecordLoadKeeps, RecordSaveKeeps,
   TunnelDropKeeps, TunnelReconcileKeeps, StopFindKeeps, StopOwnedKeeps,
   StopMachineKeeps, DestroyFindKeeps, DestroyOwnedKeeps, DestroyStopKeeps,
   DestroyDeleteKeeps, DestroyRecordKeeps, TunnelRemoveKeeps, HostRemoveKeeps,
   KeyRemoveKeeps, NoGuestKeeps, EndKeeps, FailKeeps
DEF Step

-----------------------------------------------------------------------------

(* Around the commands nothing makes a machine or writes a record, and no  *)
(* stale key or tunnel comes to a machine that is there.                   *)
LEMMA AroundKeeps ==
    ASSUME TInv, Around
    PROVE  TInv' /\ (IInv => IInv')
<1>1. /\ UNCHANGED <<record, images, sshHost, cmd>>
      /\ config' \in Image /\ faults' \in 0 .. MaxFaults
      /\ machine' \in Machines \cup {NoMachine} /\ Addressed'
      /\ machine' # NoMachine =>
           machine # NoMachine /\ machine'.image = machine.image
      /\ hostKey' \in {"none", "current", "stale"}
      /\ tunnel' \in TunnelsOf \cup {NoTunnel}
      /\ tunnel' = NoTunnel <=> tunnel = NoTunnel
      /\ machine' # NoMachine =>
           /\ hostKey' \in {hostKey, "current"}
           /\ tunnel # NoTunnel => tunnel'.of = tunnel.of
  <2>1. CASE EditConfig \/ Connect
    BY <2>1 DEF EditConfig, Connect, TInv, TypeOK, Addressed
  <2>2. CASE Halt
    BY <2>2, HaltedEffect DEF Halt, TInv, TypeOK
  <2>3. CASE Start
    BY <2>3, InGuestEffect, FaultType DEF Start, TInv, TypeOK, Addressed
  <2>4. CASE TunnelDies
    <3>1. tunnel' \in TunnelsOf /\ tunnel'.of = tunnel.of
      BY <2>4 DEF TunnelDies, TInv, TypeOK, TunnelsOf
    <3> QED
      BY <2>4, <3>1, ValueAssumption
      DEF TunnelDies, TInv, TypeOK, Addressed, ValueAssumption
  <2>5. CASE DeletedByHand
    BY <2>5, DeletedEffect, FaultType
    DEF DeletedByHand, TInv, TypeOK, Addressed
  <2> QED
    BY <2>1, <2>2, <2>3, <2>4, <2>5 DEF Around
<1>2. TInv'
  BY <1>1 DEF TInv, TypeOK, Ready, Placed, Built
<1>3. ASSUME IInv PROVE IInv'
  BY <1>1, <1>2, <1>3 DEF IInv, NoOrphanMachine, PinnedImage, Own, Pinned,
     Agreed, Untrusting, Gone
<1> QED
  BY <1>2, <1>3

LEMMA NextKeeps ==
    ASSUME TInv, [Next]_vars
    PROVE  TInv' /\ (OneAtATime /\ IInv => IInv')
<1>1. CASE UNCHANGED vars
  BY <1>1 DEF vars, TInv, TypeOK, Addressed, Ready, Placed, Built, IInv,
     NoOrphanMachine, PinnedImage, Own, Pinned, Agreed, Untrusting, Gone
<1>2. CASE Next
  <2>1. ASSUME NEW p \in Proc,
               (\E op \in Op : Begin(p, op)) \/ Step(p) \/ Fail(p) \/ Crash(p)
        PROVE  TInv' /\ (OneAtATime /\ IInv => IInv')
    BY <2>1, BeginKeeps, StepKeeps, EndKeeps
  <2> QED
    BY <1>2, <2>1, AroundKeeps DEF Next
<1> QED
  BY <1>1, <1>2

LEMMA InitInv == Init => IInv
<1> SUFFICES ASSUME Init PROVE IInv
  OBVIOUS
<1>1. Idle \in Cmd /\ Idle.pc = "idle"
  BY DEF Idle, Cmd
<1>2. TInv
  BY <1>1, ConstantAssumption DEF Init, ConstantAssumption, TInv, TypeOK,
     Addressed, Ready, Placed, Built
<1> QED
  BY <1>1, <1>2 DEF Init, IInv, NoOrphanMachine, PinnedImage, Own, Pinned,
     Agreed, Untrusting, Gone

-----------------------------------------------------------------------------

(* Whatever commands run beside each other, the variables keep their       *)
(* types, a command has read what its next step uses, and an upgrade that  *)
(* deletes has built what it recreates on.                                 *)
THEOREM TypeInvariant == Spec => []TInv
<1>1. Init => TInv
  BY InitInv DEF IInv
<1>2. TInv /\ [Next]_vars => TInv'
  BY NextKeeps
<1> QED
  BY <1>1, <1>2, PTL DEF Spec

(* The variables keep their types.                                         *)
THEOREM TypeCorrect == Spec => []TypeOK
<1>1. TInv => TypeOK
  BY DEF TInv
<1> QED
  BY <1>1, TypeInvariant, PTL

(* No upgrade, beside whatever other commands, deletes the machine before  *)
(* the image of its recreation is there (upgrade.go:87-109).               *)
THEOREM UpgradeKeepsTheWayBack == Spec => UpgradeKeepsAWayBack
<1> DEFINE Safe ==
      \A p \in Proc :
         cmd[p].op = "upgrade" /\ At(p, "dDelete") /\ Exists
         /\ machine' = NoMachine /\ cmd'[p] # cmd[p]
         => cmd[p].target \in images
<1>1. TInv => Safe
  BY DEF TInv, Built
<1>2. TInv /\ [Next]_vars => [Safe]_vars
  BY <1>1
<1> QED
  BY <1>2, TypeInvariant, PTL DEF Spec, UpgradeKeepsAWayBack

(* The strengthened invariant of one command at a time.                    *)
THEOREM Invariant == OneAtATime => (Spec => []IInv)
<1> SUFFICES ASSUME OneAtATime PROVE Spec => []IInv
  OBVIOUS
<1>1. IInv /\ [Next]_vars => IInv'
  BY NextKeeps DEF IInv
<1> QED
  BY <1>1, InitInv, PTL DEF Spec

(* Whatever fails or is killed, and whatever happens to the machine by     *)
(* other means, it never loses its record, without which no command would  *)
(* touch it again (manager.go:88-120, 167-217, 309-321).                   *)
THEOREM NoOrphans == OneAtATime => (Spec => []NoOrphanMachine)
<1>1. IInv => NoOrphanMachine
  BY DEF IInv
<1> QED
  BY <1>1, Invariant, PTL

(* The record names the image the machine was created from.                *)
THEOREM RecordPinsImage == OneAtATime => (Spec => []PinnedImage)
<1>1. IInv => PinnedImage
  BY DEF IInv
<1> QED
  BY <1>1, Invariant, PTL

-----------------------------------------------------------------------------
(* What holds when a command returns.                                      *)

LEMMA LastSteps ==
    ASSUME NEW p \in Proc, Step(p)
    PROVE  /\ At(p, "tunnel") => TunnelReconcile(p)
           /\ At(p, "kRemove") => KeyRemove(p)
<1> SUFFICES ASSUME cmd[p].pc \in {"tunnel", "kRemove"}
             PROVE  TunnelReconcile(p) \/ KeyRemove(p)
  BY DEF TunnelReconcile, KeyRemove
<1>1. ~ (\/ Prepare(p) \/ UpgradeLoad(p) \/ UpgradeEnsure(p) \/ UpLoad(p)
         \/ UpFind(p) \/ UpEnsure(p) \/ SaveNew(p) \/ Create(p))
  BY DEF Prepare, UpgradeLoad, UpgradeEnsure, UpLoad, UpFind, UpEnsure,
     SaveNew, Create
<1>2. ~ (\/ CreateFind(p) \/ CreateDrop(p) \/ Boot(p) \/ Provision(p)
         \/ ResolveAddress(p) \/ ForgetHostKey(p) \/ Apply(p)
         \/ RecordLoad(p) \/ RecordSave(p) \/ TunnelDrop(p))
  BY DEF CreateFind, CreateDrop, Boot, Provision, ResolveAddress,
     ForgetHostKey, Apply, RecordLoad, RecordSave, TunnelDrop
<1>3. ~ (\/ StopFind(p) \/ StopOwned(p) \/ StopMachine(p) \/ DestroyFind(p)
         \/ DestroyOwned(p) \/ DestroyStop(p) \/ DestroyDelete(p)
         \/ DestroyRecord(p) \/ TunnelRemove(p) \/ HostRemove(p)
         \/ NoGuest(p) \/ Finish(p))
  BY DEF StopFind, StopOwned, StopMachine, DestroyFind, DestroyOwned,
     DestroyStop, DestroyDelete, DestroyRecord, TunnelRemove, HostRemove,
     NoGuest, Finish
<1> QED
  BY <1>1, <1>2, <1>3 DEF Step

LEMMA ReturnsFrom ==
    ASSUME OneAtATime, TInv, [Next]_vars, NEW p \in Proc,
           cmd[p].pc \in Steps, cmd'[p].pc = "ok",
           cmd[p].op \in {"up", "destroy"}
    PROVE  \/ TunnelReconcile(p) /\ At(p, "tunnel")
           \/ KeyRemove(p) /\ At(p, "kRemove")
<1>1. cmd' # cmd /\ cmd[p].pc # "ok" /\ cmd[p].pc # "idle"
  BY DEF Steps
<1>2. ~ Around /\ ~ UNCHANGED vars
  BY <1>1 DEF Around, EditConfig, Halt, Start, Connect, TunnelDies,
     DeletedByHand, vars
<1>3. PICK q \in Proc :
        (\E op \in Op : Begin(q, op)) \/ Step(q) \/ Fail(q) \/ Crash(q)
  BY <1>2 DEF Next
<1>4. q = p
  BY DEF OneAtATime
<1>5. ~ \E op \in Op : Begin(p, op)
  BY <1>1 DEF Begin
<1>6. ASSUME Fail(p) PROVE FALSE
  <2>1. Moved(p, {"error"})
    BY <1>6, GotoMoves DEF Fail
  <2> QED
    BY <2>1
<1>7. ASSUME Crash(p) PROVE FALSE
  <2>1. Idle \in Cmd /\ Idle.pc = "idle"
    BY DEF Idle, Cmd
  <2> QED
    BY <1>7, <2>1, PutEffect DEF TInv, Crash
<1>8. Step(p)
  BY <1>3, <1>4, <1>5, <1>6, <1>7
<1>9. Ends(p)
  BY <1>8, StepKeeps
<1> QED
  BY <1>8, <1>9, LastSteps DEF Ends

(* When up returns nil the SSH host, the record and the tunnel are at one  *)
(* address and the tunnel is for the ports that were read, whatever        *)
(* earlier runs left; without ports there is no tunnel                     *)
(* (app/status.go:252-257, app/tunnel.go:37-77, tunnel.go:117-178).        *)
THEOREM UpLeavesAgreement == OneAtATime => (Spec => UpAgrees)
<1> SUFFICES ASSUME OneAtATime PROVE Spec => UpAgrees
  OBVIOUS
<1> DEFINE Agreement ==
      \A p \in Proc : Returns(p, "up") =>
         /\ sshHost = cmd[p].addr
         /\ record # NoRecord /\ record.addr = cmd[p].addr
         /\ (tunnel' = NoTunnel) <=> (cmd[p].ports = {})
         /\ tunnel' # NoTunnel =>
              /\ tunnel'.addr = cmd[p].addr
              /\ tunnel'.ports \cup tunnel'.blocked = cmd[p].ports
<1>1. IInv /\ [Next]_vars => Agreement
  <2> SUFFICES ASSUME IInv, [Next]_vars, NEW p \in Proc, Returns(p, "up")
               PROVE  /\ sshHost = cmd[p].addr
                      /\ record # NoRecord /\ record.addr = cmd[p].addr
                      /\ (tunnel' = NoTunnel) <=> (cmd[p].ports = {})
                      /\ tunnel' # NoTunnel =>
                           /\ tunnel'.addr = cmd[p].addr
                           /\ tunnel'.ports \cup tunnel'.blocked
                                = cmd[p].ports
    OBVIOUS
  <2>1. TunnelReconcile(p) /\ At(p, "tunnel")
    BY ReturnsFrom DEF Returns, IInv, TInv, Placed
  <2>2. sshHost = cmd[p].addr /\ record # NoRecord /\ record.addr = cmd[p].addr
    BY <2>1 DEF IInv, Own, Agreed
  <2>3. ASSUME Goto(p, "error") PROVE FALSE
    <3>1. Moved(p, {"error"})
      BY <2>3, GotoMoves DEF IInv
    <3> QED
      BY <3>1 DEF Returns
  <2>4. CASE Kept(p) /\ tunnel' = tunnel
    <3>1. tunnel \in TunnelsOf /\ tunnel # NoTunnel /\ tunnel.live
      BY <2>4 DEF Kept, IInv, TInv, TypeOK
    <3>2. tunnel.ports # {}
      BY <3>1 DEF TunnelsOf
    <3> QED
      BY <2>2, <2>4, <3>1, <3>2 DEF Kept, Forwards
  <2>5. CASE Replaced(p)
    <3>1. cmd[p].addr \in Address
      BY <2>1 DEF IInv, TInv, Ready
    <3> QED
      BY <2>2, <2>5, <3>1, ReplacedEffect DEF IInv
  <2> QED
    BY <2>1, <2>3, <2>4, <2>5 DEF TunnelReconcile
<1>2. IInv /\ [Next]_vars => [Agreement]_vars
  BY <1>1
<1> QED
  BY <1>2, Invariant, PTL DEF Spec, UpAgrees

(* An up that created the machine leaves nothing that was trusted of the   *)
(* one it replaced (app/status.go:341-345, app/tunnel.go:34-41).           *)
THEOREM NewMachineNewTrust == OneAtATime => (Spec => CreatorDropsOldTrust)
<1> SUFFICES ASSUME OneAtATime PROVE Spec => CreatorDropsOldTrust
  OBVIOUS
<1> DEFINE Dropped ==
      \A p \in Proc : Returns(p, "up") /\ cmd[p].created /\ Exists =>
         /\ hostKey' # "stale"
         /\ tunnel' # NoTunnel => tunnel'.of # "stale"
<1>1. IInv /\ [Next]_vars => Dropped
  <2> SUFFICES ASSUME IInv, [Next]_vars, NEW p \in Proc,
                      Returns(p, "up"), cmd[p].created, Exists
               PROVE  /\ hostKey' # "stale"
                      /\ tunnel' # NoTunnel => tunnel'.of # "stale"
    OBVIOUS
  <2>1. TunnelReconcile(p) /\ At(p, "tunnel")
    BY ReturnsFrom DEF Returns, IInv, TInv, Placed
  <2>2. hostKey # "stale" /\ (tunnel # NoTunnel => tunnel.of # "stale")
    BY <2>1 DEF IInv, Own, Untrusting
  <2>3. ASSUME Goto(p, "error") PROVE FALSE
    <3>1. Moved(p, {"error"})
      BY <2>3, GotoMoves DEF IInv
    <3> QED
      BY <3>1 DEF Returns
  <2>4. tunnel' # NoTunnel => tunnel'.of # "stale"
    <3>1. cmd[p].addr \in Address
      BY <2>1 DEF IInv, TInv, Ready
    <3>2. ASSUME Replaced(p), tunnel' # NoTunnel PROVE tunnel'.of # "stale"
      BY <3>1, <3>2, ReplacedEffect DEF IInv
    <3> QED
      BY <2>1, <2>2, <2>3, <3>2 DEF TunnelReconcile, Kept
  <2> QED
    BY <2>1, <2>2, <2>4 DEF TunnelReconcile
<1>2. IInv /\ [Next]_vars => [Dropped]_vars
  BY <1>1
<1> QED
  BY <1>2, Invariant, PTL DEF Spec, CreatorDropsOldTrust

(* When destroy returns nil nothing is left of the machine, however far    *)
(* earlier attempts got (Manager.Destroy; app/status.go:473-501).          *)
THEOREM DestroyLeavesNothing == OneAtATime => (Spec => DestroyCleans)
<1> SUFFICES ASSUME OneAtATime PROVE Spec => DestroyCleans
  OBVIOUS
<1> DEFINE Clean ==
      \A p \in Proc : Returns(p, "destroy") =>
         /\ machine' = NoMachine /\ record' = NoRecord
         /\ tunnel' = NoTunnel
         /\ sshHost' = NoAddress /\ hostKey' = "none"
<1>1. IInv /\ [Next]_vars => Clean
  <2> SUFFICES ASSUME IInv, [Next]_vars, NEW p \in Proc, Returns(p, "destroy")
               PROVE  /\ machine' = NoMachine /\ record' = NoRecord
                      /\ tunnel' = NoTunnel
                      /\ sshHost' = NoAddress /\ hostKey' = "none"
    OBVIOUS
  <2>1. KeyRemove(p) /\ At(p, "kRemove") /\ cmd[p].op = "destroy"
    BY ReturnsFrom DEF Returns, IInv, TInv, Placed
  <2>2. /\ machine = NoMachine /\ record = NoRecord
        /\ tunnel = NoTunnel /\ sshHost = NoAddress
    BY <2>1 DEF IInv, Own, Gone
  <2> QED
    BY <2>1, <2>2 DEF KeyRemove
<1>2. IInv /\ [Next]_vars => [Clean]_vars
  BY <1>1
<1> QED
  BY <1>2, Invariant, PTL DEF Spec, DestroyCleans
=============================================================================
