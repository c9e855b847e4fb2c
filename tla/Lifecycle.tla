----------------------------- MODULE Lifecycle -----------------------------
(***************************************************************************)
(* The life of one project machine: the commands up, stop, destroy and     *)
(* upgrade (internal/app) over the machine manager and address resolver    *)
(* (internal/machine), the project state store (internal/state), and, each *)
(* call of theirs taken as one step, the managed SSH configuration         *)
(* (module SshConfig) and the tunnel (module Tunnel).                      *)
(*                                                                         *)
(* A command is a sequence of external calls. Any of them may fail, and    *)
(* the command may be killed between any two; the stores it leaves behind  *)
(* are all the next command has to go by.                                  *)
(***************************************************************************)
EXTENDS Naturals

CONSTANTS
    Proc,       \* isolated-dev processes that run at the same time
    Image,      \* managed base images
    Address,    \* addresses a machine gets
    Port,       \* macOS ports a project's configuration may declare
    Op,         \* commands the user runs
    MaxFaults,  \* bound on the faults of a behaviour: failed calls, killed
                \* commands, and a machine started or deleted by other means
    NoMachine, NoRecord, NoAddress, NoImage, NoTunnel

ASSUME ConstantAssumption ==
    /\ Op \subseteq {"up", "stop", "destroy", "upgrade"}
    /\ MaxFaults \in Nat
    /\ NoImage \notin Image
    /\ NoAddress \notin Address

VARIABLES
    machine,  \* the machine `container` keeps under the derived name
    record,   \* its project state file
    config,   \* the base image the project's configuration selects
    images,   \* base images present on the host
    sshHost,  \* address in the managed SSH host block
    hostKey,  \* whose key known_hosts holds under the alias
    tunnel,   \* tunnel record and the process behind it
    cmd,      \* the command each process runs
    faults    \* faults so far

vars == <<machine, record, config, images, sshHost, hostKey, tunnel, cmd,
          faults>>

-----------------------------------------------------------------------------

(* ready: the guest account and sshd are provisioned.                      *)
Machines == [image: Image, running: BOOLEAN, ready: BOOLEAN,
             addr: Address \cup {NoAddress}]
(* Of the pinned configuration the base image, which is what upgrade       *)
(* compares, and the address of the last reconciled connection.            *)
Records == [image: Image, addr: Address \cup {NoAddress}]
(* of: the tunnel leads to this machine or to one it replaced; ports: what *)
(* it forwards; blocked: the ports that another program had taken. None is *)
(* started for no port.                                                    *)
TunnelsOf ==
    {t \in [addr: Address, of: {"current", "stale"}, live: BOOLEAN,
            ports: SUBSET Port, blocked: SUBSET Port] :
       t.live => t.ports # {}}

Steps == {"prepare", "gLoad", "gEnsure",
          "uLoad", "uFind", "uEnsure", "saveNew", "create", "cFind", "cDrop",
          "boot", "provision", "address", "forget", "apply", "recLoad",
          "recSave", "tDrop", "tunnel",
          "sFind", "sOwned", "sStop",
          "dFind", "dOwned", "dStop", "dDelete", "dRecord",
          "tRemove", "hRemove", "kRemove"}

(* image and ports: what prepareUp read; target: what upgrade previewed;   *)
(* loaded, found and up: what was read of the record and of the machine    *)
(* list.                                                                   *)
Cmd == [pc: Steps \cup {"idle", "ok", "error"},
        op: {"none", "up", "stop", "destroy", "upgrade"},
        image: Image \cup {NoImage}, ports: SUBSET Port,
        target: Image \cup {NoImage},
        created: BOOLEAN, loaded: Records \cup {NoRecord},
        found: BOOLEAN, up: BOOLEAN, addr: Address \cup {NoAddress}]
Idle == [pc |-> "idle", op |-> "none", image |-> NoImage, ports |-> {},
         target |-> NoImage, created |-> FALSE, loaded |-> NoRecord,
         found |-> FALSE, up |-> FALSE, addr |-> NoAddress]

ASSUME ValueAssumption ==
    /\ NoMachine \notin Machines
    /\ NoRecord \notin Records
    /\ NoTunnel \notin TunnelsOf

TypeOK ==
    /\ machine \in Machines \cup {NoMachine}
    /\ record \in Records \cup {NoRecord}
    /\ config \in Image
    /\ images \in SUBSET Image
    /\ sshHost \in Address \cup {NoAddress}
    /\ hostKey \in {"none", "current", "stale"}
    /\ tunnel \in TunnelsOf \cup {NoTunnel}
    /\ cmd \in [Proc -> Cmd]
    /\ faults \in 0 .. MaxFaults

Init ==
    /\ machine = NoMachine
    /\ record = NoRecord
    /\ config \in Image
    /\ images = {}
    /\ sshHost = NoAddress
    /\ hostKey = "none"
    /\ tunnel = NoTunnel
    /\ cmd = [p \in Proc |-> Idle]
    /\ faults = 0

-----------------------------------------------------------------------------

At(p, step) == cmd[p].pc = step
(* A command that has returned keeps nothing but its kind.                 *)
Goto(p, step) ==
    cmd' = [cmd EXCEPT ![p] =
              IF step \in {"ok", "error"}
              THEN [Idle EXCEPT !.pc = step, !.op = cmd[p].op]
              ELSE [@ EXCEPT !.pc = step]]
Exists == machine # NoMachine
Running == Exists /\ machine.running

host == <<config, images>>
ssh  == <<sshHost, hostKey>>

Fault == faults < MaxFaults /\ faults' = faults + 1

(* The call succeeds, or it takes effect and is reported as failed.        *)
Done(p, step, onError) ==
    \/ Goto(p, step) /\ UNCHANGED faults
    \/ Goto(p, onError) /\ Fault

(* A command in the guest starts a machine that is not running; it may     *)
(* come up at another address.                                             *)
InGuest(ready) ==
    /\ Exists
    /\ \E a \in Address :
         machine' = IF machine.running
                    THEN [machine EXCEPT !.ready = @ \/ ready]
                    ELSE [machine EXCEPT !.running = TRUE, !.addr = a,
                                         !.ready = @ \/ ready]

(* Whatever was trusted of the machine is stale once it is deleted.        *)
Deleted ==
    /\ machine' = NoMachine
    /\ hostKey' = IF hostKey = "current" THEN "stale" ELSE hostKey
    /\ tunnel' = IF tunnel = NoTunnel THEN NoTunnel
                 ELSE [tunnel EXCEPT !.of = "stale"]

-----------------------------------------------------------------------------
(* Commands.                                                               *)

Begin(p, op) ==
    /\ At(p, "idle")
    /\ cmd' = [cmd EXCEPT ![p].op = op,
                 ![p].pc = CASE op = "stop" -> "sFind"
                             [] op = "destroy" -> "dFind"
                             [] op \in {"up", "upgrade"} -> "prepare"]
    /\ UNCHANGED <<machine, record, host, ssh, tunnel, faults>>

(* prepareUp: the configuration is read and every other precondition of    *)
(* up is checked, before anything is changed. Its ports are not pinned: it *)
(* may declare any. An upgrade has no use for them before it is an up.     *)
Prepare(p) ==
    /\ At(p, "prepare")
    /\ \E ports \in IF cmd[p].op = "up" THEN SUBSET Port ELSE {{}} :
         cmd' = [cmd EXCEPT ![p].image = config, ![p].ports = ports,
                   ![p].pc = IF cmd[p].op = "up" THEN "uLoad" ELSE "gLoad"]
    /\ UNCHANGED <<machine, record, host, ssh, tunnel, faults>>

(* Mutant of UpgradeLoad: the image is left for the recreation to build.   *)
UpgradeLoadUnbuilt(p) ==
    /\ At(p, "gLoad")
    /\ record # NoRecord
    /\ record.image # cmd[p].image
    /\ cmd' = [cmd EXCEPT ![p].pc = "dFind", ![p].target = cmd[p].image]
    /\ UNCHANGED <<machine, record, host, ssh, tunnel, faults>>

(* Upgrade: nothing recorded, nothing to upgrade, or only a preview; or    *)
(* the upgrade is wanted and confirmed.                                    *)
UpgradeLoad(p) ==
    /\ At(p, "gLoad")
    /\ \/ /\ record = NoRecord
          /\ Goto(p, "error")
       \/ /\ record # NoRecord
          /\ Goto(p, "ok")
       \/ /\ record # NoRecord
          /\ record.image # cmd[p].image
          /\ cmd' = [cmd EXCEPT ![p].pc = "gEnsure", ![p].target = cmd[p].image]
    /\ UNCHANGED <<machine, record, host, ssh, tunnel, faults>>

UpgradeEnsure(p) ==
    /\ At(p, "gEnsure")
    /\ images' = images \cup {cmd[p].target}
    /\ Goto(p, "dFind")
    /\ UNCHANGED <<machine, record, config, ssh, tunnel, faults>>

-----------------------------------------------------------------------------
(* Manager.Up.                                                             *)

(* Mutant of UpLoad: the recorded configuration is not compared.           *)
UpLoadUnpinned(p) ==
    /\ At(p, "uLoad")
    /\ cmd' = [cmd EXCEPT ![p].loaded = record, ![p].pc = "uFind"]
    /\ UNCHANGED <<machine, record, host, ssh, tunnel, faults>>

(* The recorded machine is pinned: a configuration that changed since is   *)
(* refused.                                                                *)
UpLoad(p) ==
    /\ At(p, "uLoad")
    /\ cmd' = [cmd EXCEPT ![p].loaded = record,
                 ![p].pc = IF /\ record # NoRecord
                              /\ record.image # cmd[p].image
                           THEN "error" ELSE "uFind"]
    /\ UNCHANGED <<machine, record, host, ssh, tunnel, faults>>

UpFind(p) ==
    /\ At(p, "uFind")
    /\ Goto(p, IF ~ Exists THEN "uEnsure"
               ELSE IF cmd[p].loaded = NoRecord THEN "error" ELSE "boot")
    /\ UNCHANGED <<machine, record, host, ssh, tunnel, faults>>

UpEnsure(p) ==
    /\ At(p, "uEnsure")
    /\ images' = images \cup {cmd[p].image}
    /\ Goto(p, IF cmd[p].loaded = NoRecord THEN "saveNew" ELSE "create")
    /\ UNCHANGED <<machine, record, config, ssh, tunnel, faults>>

(* Mutant of SaveNew: the configuration is saved before its image is       *)
(* resolved.                                                               *)
SaveNewUnpinned(p) ==
    /\ At(p, "saveNew")
    /\ record' = [image |-> NoImage, addr |-> NoAddress]
    /\ Goto(p, "create")
    /\ UNCHANGED <<machine, host, ssh, tunnel, faults>>

SaveNew(p) ==
    /\ At(p, "saveNew")
    /\ record' = [image |-> cmd[p].image, addr |-> NoAddress]
    /\ Goto(p, "create")
    /\ UNCHANGED <<machine, host, ssh, tunnel, faults>>

(* machine create: it fails if the name is taken, and it may fail with or  *)
(* without having created the machine.                                     *)
Create(p) ==
    /\ At(p, "create")
    /\ \/ /\ ~ Exists
          /\ machine' = [image |-> cmd[p].image, running |-> FALSE,
                         ready |-> FALSE, addr |-> NoAddress]
          /\ \/ /\ cmd' = [cmd EXCEPT ![p].pc = "boot", ![p].created = TRUE]
                /\ UNCHANGED faults
             \/ Goto(p, "cFind") /\ Fault
       \/ /\ Goto(p, "cFind")
          /\ UNCHANGED machine
          /\ (Exists /\ UNCHANGED faults) \/ Fault
    /\ UNCHANGED <<record, host, ssh, tunnel>>

(* Mutant of CreateFind: a failed create always takes the record back.     *)
CreateFindDrop(p) ==
    /\ At(p, "cFind")
    /\ Goto(p, "cDrop")
    /\ UNCHANGED <<machine, record, host, ssh, tunnel, faults>>

(* reconcileFailedCreate: the record goes unless there is a machine.       *)
CreateFind(p) ==
    /\ At(p, "cFind")
    /\ Goto(p, IF Exists THEN "error" ELSE "cDrop")
    /\ UNCHANGED <<machine, record, host, ssh, tunnel, faults>>

CreateDrop(p) ==
    /\ At(p, "cDrop")
    /\ record' = NoRecord
    /\ Goto(p, "error")
    /\ UNCHANGED <<machine, host, ssh, tunnel, faults>>

(* waitForBoot and WaitDocker.                                             *)
Boot(p) ==
    /\ At(p, "boot")
    /\ InGuest(FALSE)
    /\ Done(p, "provision", "error")
    /\ UNCHANGED <<record, host, ssh, tunnel>>

-----------------------------------------------------------------------------
(* The rest of app.up.                                                     *)

Provision(p) ==
    /\ At(p, "provision")
    /\ InGuest(TRUE)
    /\ Done(p, "address", "error")
    /\ UNCHANGED <<record, host, ssh, tunnel>>

(* Mutant of ResolveAddress: old keys are only dropped when the address    *)
(* is a new one.                                                           *)
ResolveAddressMoved(p) ==
    /\ At(p, "address")
    /\ InGuest(FALSE)
    /\ cmd' = [cmd EXCEPT ![p].addr = machine'.addr,
                 ![p].pc = IF cmd[p].created /\ sshHost # machine'.addr
                           THEN "forget" ELSE "apply"]
    /\ UNCHANGED <<record, host, ssh, tunnel, faults>>

ResolveAddress(p) ==
    /\ At(p, "address")
    /\ InGuest(FALSE)
    /\ cmd' = [cmd EXCEPT ![p].addr = machine'.addr,
                 ![p].pc = IF cmd[p].created THEN "forget" ELSE "apply"]
    /\ UNCHANGED <<record, host, ssh, tunnel, faults>>

(* A machine this run created loses the host keys of the one it replaced.  *)
ForgetHostKey(p) ==
    /\ At(p, "forget")
    /\ hostKey' = "none"
    /\ Goto(p, "apply")
    /\ UNCHANGED <<machine, record, host, sshHost, tunnel, faults>>

Apply(p) ==
    /\ At(p, "apply")
    /\ sshHost' = cmd[p].addr
    /\ Done(p, "recLoad", "error")
    /\ UNCHANGED <<machine, record, host, hostKey, tunnel>>

(* recordConnection reads the state file and writes it back changed.       *)
RecordLoad(p) ==
    /\ At(p, "recLoad")
    /\ cmd' = [cmd EXCEPT ![p].loaded = record,
                 ![p].pc = IF record = NoRecord THEN "error" ELSE "recSave"]
    /\ UNCHANGED <<machine, record, host, ssh, tunnel, faults>>

RecordSave(p) ==
    /\ At(p, "recSave")
    /\ record' = [cmd[p].loaded EXCEPT !.addr = cmd[p].addr]
    /\ Goto(p, IF cmd[p].created THEN "tDrop" ELSE "tunnel")
    /\ UNCHANGED <<machine, host, ssh, tunnel, faults>>

(* reconcileTunnel: a machine this run created loses the tunnel of the one *)
(* it replaced.                                                            *)
TunnelDrop(p) ==
    /\ At(p, "tDrop")
    /\ tunnel' = NoTunnel
    /\ Goto(p, "tunnel")
    /\ UNCHANGED <<machine, record, host, ssh, faults>>

Forwards(p) == tunnel.ports = cmd[p].ports /\ tunnel.blocked = {}

(* Mutant of Kept: the address is not compared.                            *)
KeptAnyAddress(p) == tunnel # NoTunnel /\ tunnel.live /\ Forwards(p)

(* A live tunnel from this address with exactly these ports is kept.       *)
Kept(p) ==
    tunnel # NoTunnel /\ tunnel.live /\ tunnel.addr = cmd[p].addr /\ Forwards(p)

(* Any other is ended. Without ports none follows it; otherwise the one    *)
(* that is recorded forwards the ports that are free, is not started       *)
(* without any, and may not live.                                          *)
Replaced(p) ==
    IF cmd[p].ports = {} THEN tunnel' = NoTunnel
    ELSE \E free \in SUBSET cmd[p].ports : \E live \in {FALSE, free # {}} :
           tunnel' = [addr |-> cmd[p].addr, of |-> "current", live |-> live,
                      ports |-> free, blocked |-> cmd[p].ports \ free]

TunnelReconcile(p) ==
    /\ At(p, "tunnel")
    /\ \/ /\ IF Kept(p) THEN UNCHANGED tunnel ELSE Replaced(p)
          /\ Done(p, "ok", "error")
       \/ /\ ~ Kept(p)
          /\ tunnel' = NoTunnel
          /\ Goto(p, "error") /\ Fault
    /\ UNCHANGED <<machine, record, host, ssh>>

-----------------------------------------------------------------------------
(* Manager.Stop and Manager.Destroy, and what app.Stop and app.Destroy do  *)
(* after them.                                                             *)

StopFind(p) ==
    /\ At(p, "sFind")
    /\ Goto(p, IF Running THEN "sOwned" ELSE "tRemove")
    /\ UNCHANGED <<machine, record, host, ssh, tunnel, faults>>

StopOwned(p) ==
    /\ At(p, "sOwned")
    /\ Goto(p, IF record = NoRecord THEN "error" ELSE "sStop")
    /\ UNCHANGED <<machine, record, host, ssh, tunnel, faults>>

Halted == IF Exists THEN [machine EXCEPT !.running = FALSE] ELSE machine

StopMachine(p) ==
    /\ At(p, "sStop")
    /\ machine' = Halted
    /\ Done(p, "tRemove", "error")
    /\ UNCHANGED <<record, host, ssh, tunnel>>

DestroyFind(p) ==
    /\ At(p, "dFind")
    /\ cmd' = [cmd EXCEPT ![p].pc = "dOwned",
                          ![p].found = Exists, ![p].up = Running]
    /\ UNCHANGED <<machine, record, host, ssh, tunnel, faults>>

(* Manager.Destroy is done: upgrade goes on to app.Up, which prepares all  *)
(* over again, destroy to the tunnel.                                      *)
Destroyed(p) ==
    IF cmd[p].op = "upgrade"
    THEN cmd' = [cmd EXCEPT ![p].pc = "prepare", ![p].op = "up"]
    ELSE Goto(p, "tRemove")

(* Mutant of DestroyOwned: without a machine and a record there is         *)
(* nothing to destroy.                                                     *)
DestroyOwnedEarly(p) ==
    /\ At(p, "dOwned")
    /\ \/ /\ record = NoRecord
          /\ Goto(p, IF cmd[p].found THEN "error" ELSE "ok")
       \/ /\ record # NoRecord
          /\ Goto(p, IF ~ cmd[p].found THEN "dRecord"
                     ELSE IF cmd[p].up THEN "dStop" ELSE "dDelete")
    /\ UNCHANGED <<machine, record, host, ssh, tunnel, faults>>

DestroyOwned(p) ==
    /\ At(p, "dOwned")
    /\ \/ /\ record = NoRecord
          /\ IF cmd[p].found THEN Goto(p, "error") ELSE Destroyed(p)
       \/ /\ record # NoRecord
          /\ Goto(p, IF ~ cmd[p].found THEN "dRecord"
                     ELSE IF cmd[p].up THEN "dStop" ELSE "dDelete")
    /\ UNCHANGED <<machine, record, host, ssh, tunnel, faults>>

(* A failed stop is not fatal.                                             *)
DestroyStop(p) ==
    /\ At(p, "dStop")
    /\ \/ machine' = Halted /\ UNCHANGED faults
       \/ UNCHANGED machine /\ Fault
    /\ Goto(p, "dDelete")
    /\ UNCHANGED <<record, host, ssh, tunnel>>

(* machine delete refuses a running machine, and one that is not there.    *)
DestroyDelete(p) ==
    /\ At(p, "dDelete")
    /\ IF Exists /\ ~ Running
       THEN Deleted /\ Done(p, "dRecord", "error")
       ELSE Goto(p, "error") /\ UNCHANGED <<machine, hostKey, tunnel, faults>>
    /\ UNCHANGED <<record, host, sshHost>>

DestroyRecord(p) ==
    /\ At(p, "dRecord")
    /\ record' = NoRecord
    /\ Destroyed(p)
    /\ UNCHANGED <<machine, host, ssh, tunnel, faults>>

TunnelRemove(p) ==
    /\ At(p, "tRemove")
    /\ tunnel' = NoTunnel
    /\ Goto(p, IF cmd[p].op = "stop" THEN "ok" ELSE "hRemove")
    /\ UNCHANGED <<machine, record, host, ssh, faults>>

(* SSHConfig.Remove drops the host block, then the keys.                   *)
HostRemove(p) ==
    /\ At(p, "hRemove")
    /\ sshHost' = NoAddress
    /\ Goto(p, "kRemove")
    /\ UNCHANGED <<machine, record, host, hostKey, tunnel, faults>>

KeyRemove(p) ==
    /\ At(p, "kRemove")
    /\ hostKey' = "none"
    /\ Goto(p, "ok")
    /\ UNCHANGED <<machine, record, host, sshHost, tunnel, faults>>

-----------------------------------------------------------------------------

(* A call fails without effect and the command returns its error; create   *)
(* and the stop of destroy have their own handling.                        *)
Fail(p) ==
    /\ cmd[p].pc \in Steps \ {"create", "dStop"}
    /\ Goto(p, "error")
    /\ Fault
    /\ UNCHANGED <<machine, record, host, ssh, tunnel>>

(* A command in the guest fails for want of a machine.                     *)
NoGuest(p) ==
    /\ cmd[p].pc \in {"boot", "provision", "address"}
    /\ ~ Exists
    /\ Goto(p, "error")
    /\ UNCHANGED <<machine, record, host, ssh, tunnel, faults>>

Crash(p) ==
    /\ cmd[p].pc \in Steps
    /\ cmd' = [cmd EXCEPT ![p] = Idle]
    /\ Fault
    /\ UNCHANGED <<machine, record, host, ssh, tunnel>>

Finish(p) ==
    /\ cmd[p].pc \in {"ok", "error"}
    /\ cmd' = [cmd EXCEPT ![p] = Idle]
    /\ UNCHANGED <<machine, record, host, ssh, tunnel, faults>>

Step(p) ==
    \/ Prepare(p) \/ UpgradeLoad(p) \/ UpgradeEnsure(p)
    \/ UpLoad(p) \/ UpFind(p) \/ UpEnsure(p) \/ SaveNew(p) \/ Create(p)
    \/ CreateFind(p) \/ CreateDrop(p) \/ Boot(p) \/ Provision(p)
    \/ ResolveAddress(p) \/ ForgetHostKey(p) \/ Apply(p) \/ RecordLoad(p)
    \/ RecordSave(p) \/ TunnelDrop(p) \/ TunnelReconcile(p)
    \/ StopFind(p) \/ StopOwned(p) \/ StopMachine(p)
    \/ DestroyFind(p) \/ DestroyOwned(p) \/ DestroyStop(p)
    \/ DestroyDelete(p) \/ DestroyRecord(p)
    \/ TunnelRemove(p) \/ HostRemove(p) \/ KeyRemove(p)
    \/ NoGuest(p) \/ Finish(p)

-----------------------------------------------------------------------------
(* Around the commands.                                                    *)

EditConfig ==
    /\ \E i \in Image : config' = i
    /\ UNCHANGED <<machine, record, images, ssh, tunnel, cmd, faults>>

(* The machine stops, or is started by some other use of `container`.      *)
Halt ==
    /\ Running
    /\ machine' = Halted
    /\ UNCHANGED <<record, host, ssh, tunnel, cmd, faults>>

Start ==
    /\ ~ Running
    /\ InGuest(FALSE)
    /\ Fault
    /\ UNCHANGED <<record, host, ssh, tunnel, cmd>>

(* ssh, the tunnel's or the user's, reaches the machine through the alias  *)
(* and records its key; a recorded key that differs is refused.            *)
Connect ==
    /\ Running /\ machine.ready
    /\ sshHost = machine.addr
    /\ hostKey = "none"
    /\ hostKey' = "current"
    /\ UNCHANGED <<machine, record, host, sshHost, tunnel, cmd, faults>>

TunnelDies ==
    /\ tunnel # NoTunnel /\ tunnel.live
    /\ tunnel' = [tunnel EXCEPT !.live = FALSE]
    /\ UNCHANGED <<machine, record, host, ssh, cmd, faults>>

(* The user deletes the machine with `container`.                          *)
DeletedByHand ==
    /\ Exists
    /\ Deleted
    /\ Fault
    /\ UNCHANGED <<record, host, sshHost, cmd>>

Around == EditConfig \/ Halt \/ Start \/ Connect \/ TunnelDies \/ DeletedByHand

Next ==
    \/ \E p \in Proc :
         (\E op \in Op : Begin(p, op)) \/ Step(p) \/ Fail(p) \/ Crash(p)
    \/ Around

Spec == Init /\ [][Next]_vars

(* A command runs until it returns, and the user tries up and destroy      *)
(* again and again.                                                        *)
Fairness == \A p \in Proc :
    /\ WF_vars(Step(p))
    /\ SF_vars(Begin(p, "up"))
    /\ SF_vars(Begin(p, "destroy"))

FairSpec == Spec /\ Fairness
-----------------------------------------------------------------------------
(* Properties.                                                             *)

(* A machine under the derived name is always recorded: Up refuses and     *)
(* Destroy leaves alone a machine without a record, so one that lost its   *)
(* record, by whatever failure, could only be removed by hand.             *)
NoOrphanMachine == Exists => record # NoRecord

(* The record pins the image the machine was created from: it is what      *)
(* validatePinnedConfiguration compares and what upgrade previews.         *)
PinnedImage == Exists /\ record # NoRecord => machine.image = record.image

Returns(p, op) ==
    cmd[p].op = op /\ cmd[p].pc \in Steps /\ cmd'[p].pc = "ok"

(* When up returns nil, the SSH host, the recorded connection and the      *)
(* tunnel are all at the one address it resolved, and the tunnel is for    *)
(* the ports it read, whichever of them an earlier run had left behind.    *)
(* There is no tunnel if it read none, and one that could not bind or did  *)
(* not live is recorded all the same.                                      *)
UpAgrees ==
    [][\A p \in Proc : Returns(p, "up") =>
         /\ sshHost = cmd[p].addr
         /\ record # NoRecord /\ record.addr = cmd[p].addr
         /\ (tunnel' = NoTunnel) <=> (cmd[p].ports = {})
         /\ tunnel' # NoTunnel =>
              /\ tunnel'.addr = cmd[p].addr
              /\ tunnel'.ports \cup tunnel'.blocked = cmd[p].ports]_vars

(* An up that created the machine and returns nil leaves nothing that was  *)
(* trusted of the machine it replaced: no key and no tunnel (reconcileSSH, *)
(* reconcileTunnel).                                                       *)
CreatorDropsOldTrust ==
    [][\A p \in Proc : Returns(p, "up") /\ cmd[p].created /\ Exists =>
         /\ hostKey' # "stale"
         /\ tunnel' # NoTunnel => tunnel'.of # "stale"]_vars

(* The same of every up that returns nil, also one that found the machine  *)
(* an earlier run had created before it failed.                            *)
UpLeavesNoStaleKey ==
    [][\A p \in Proc : Returns(p, "up") /\ Exists => hostKey' # "stale"]_vars

(* When destroy returns nil nothing is left of the machine, however far    *)
(* earlier attempts got before they failed.                                *)
DestroyCleans ==
    [][\A p \in Proc : Returns(p, "destroy") =>
         /\ machine' = NoMachine /\ record' = NoRecord
         /\ tunnel' = NoTunnel
         /\ sshHost' = NoAddress /\ hostKey' = "none"]_vars

(* An upgrade deletes the machine only when the image it is to be          *)
(* recreated on is there.                                                  *)
UpgradeKeepsAWayBack ==
    [][\A p \in Proc :
         cmd[p].op = "upgrade" /\ At(p, "dDelete") /\ Exists /\ machine' = NoMachine
         /\ cmd'[p] # cmd[p]
         => cmd[p].target \in images]_vars

(* Rerunning up or destroy succeeds in the end, whatever failed calls      *)
(* and killed commands left behind, once the configuration stays the one   *)
(* recorded (any other is refused until an upgrade).                       *)
Succeeds(op) == \E p \in Proc : cmd[p].op = op /\ cmd[p].pc = "ok"
RerunSucceeds ==
    <>[](record = NoRecord \/ record.image = config)
        => []<>Succeeds("up") /\ []<>Succeeds("destroy")
=============================================================================
