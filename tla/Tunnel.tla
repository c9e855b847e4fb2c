------------------------------- MODULE Tunnel -------------------------------
(***************************************************************************)
(* The managed SSH tunnels (internal/tunnel). Reconcile and Remove read    *)
(* and write one record file per project machine, look at processes with   *)
(* ps and signal them; nothing serialises two isolated-dev processes.      *)
(*                                                                         *)
(* The operating system is part of the model: the process table, in which  *)
(* a process ID names one process after another, and the loopback ports,   *)
(* which other programs also take.                                         *)
(***************************************************************************)
EXTENDS Naturals, FiniteSets

CONSTANTS
    Proc,      \* isolated-dev processes that run at the same time
    Pid,       \* process IDs the tunnels get
    Machine,   \* project machines
    Address,   \* machine addresses
    Port,      \* macOS loopback ports; a forward is named by its port
    Request,   \* the calls commands make, see RequestType
    Faults,    \* what may go wrong in this instance, see FaultKinds
    NoPid, NoMachine, NoRecord

FaultKinds == {
    "crash",     \* a command is killed between two steps
    "disk",      \* a record cannot be read, written or deleted
    "start",     \* the process cannot be started
    "release",   \* the process was started, but Release of its handle fails
    "ps",        \* /bin/ps cannot be run
    "stubborn",  \* a signalled process outlives the polls that wait for it
    "recycle",   \* the ID of a dead process is given to an unrelated program
    "session",   \* ... or to a program of the user that names the machine
    "race"}      \* even between the moment ps is read and the signal

RequestType ==
    [op: {"reconcile"}, machine: Machine, addr: Address, want: SUBSET Port]
      \cup [op: {"remove"}, machine: Machine, addr: Address, want: {{}}]

ASSUME ConstantAssumption ==
    /\ Faults \subseteq FaultKinds
    /\ Request \subseteq RequestType
    /\ NoPid \notin Pid
    /\ NoMachine \notin Machine
    /\ IsFiniteSet(Port)

VARIABLES
    os,       \* the process table
    foreign,  \* loopback ports other programs listen on
    records,  \* tunnel record of each machine
    cmd       \* the call each isolated-dev process is in

vars == <<os, foreign, records, cmd>>

-----------------------------------------------------------------------------

(* A process: ours, a session of the user's, anything else, or none. A     *)
(* tunnel is connecting until it is bound. told: its survival was reported.*)
Process == [kind: {"free", "tunnel", "session", "other"},
            machine: Machine \cup {NoMachine}, addr: Address \cup {NoMachine},
            ports: SUBSET Port, bound: BOOLEAN,
            sig: {"none", "TERM", "KILL"}, told: BOOLEAN]
Free == [kind |-> "free", machine |-> NoMachine, addr |-> NoMachine,
         ports |-> {}, bound |-> FALSE, sig |-> "none", told |-> FALSE]

Record == [pid: Pid \cup {NoPid}, addr: Address,
           fwd: SUBSET Port, unfwd: SUBSET Port]

ASSUME RecordAssumption == NoRecord \notin Record

(* A call in progress: its request, the record it loaded, what the probes  *)
(* found, the process it stops or started, and why it stops that process.  *)
Stopping == {"stop", "term", "awaitTerm", "kill", "awaitKill"}
Steps == Stopping \cup {"load", "inspect", "delete", "probe", "start", "save",
                        "ok", "error"}
Idle == [pc |-> "idle", req |-> NoRecord, old |-> NoRecord,
         fwd |-> {}, unfwd |-> {}, pid |-> NoPid, why |-> "none"]

TypeOK ==
    /\ os \in [Pid -> Process]
    /\ foreign \in SUBSET Port
    /\ records \in [Machine -> Record \cup {NoRecord}]
    /\ cmd \in [Proc -> [pc: Steps \cup {"idle"}, req: Request \cup {NoRecord},
                         old: Record \cup {NoRecord}, fwd: SUBSET Port,
                         unfwd: SUBSET Port, pid: Pid \cup {NoPid},
                         why: {"none", "stale", "unsaved"}]]

Init ==
    /\ os = [i \in Pid |-> Free]
    /\ foreign \in SUBSET Port
    /\ records = [m \in Machine |-> NoRecord]
    /\ cmd = [p \in Proc |-> Idle]

-----------------------------------------------------------------------------
(* What a command can observe.                                             *)

(* Mutant of Marked: ps is trusted to name the process by its number       *)
(* alone.                                                                  *)
MarkedByNumber(i, m) == i # NoPid /\ os[i].kind # "free"

(* The command line of the process carries the machine's name.             *)
Marked(i, m) == /\ i # NoPid
                /\ os[i].kind \in {"tunnel", "session"}
                /\ os[i].machine = m

(* What isMarkedProcess may answer: a ps that cannot be run is read as a   *)
(* process that is not there.                                              *)
IsMarked(i, m) ==
    {Marked(i, m)} \cup (IF "ps" \in Faults THEN {FALSE} ELSE {})

Listening == {i \in Pid : os[i].kind = "tunnel" /\ os[i].bound}
Taken == foreign \cup UNION {os[i].ports : i \in Listening}

(* Mutant of Matches: a machine that moved keeps its tunnel.               *)
MatchesAnyAddress(r, req) == r.unfwd = {} /\ r.fwd = req.want

(* Mutant of Matches: every run replaces the tunnel.                       *)
MatchesNever(r, req) == FALSE

Matches(r, req) == r.addr = req.addr /\ r.unfwd = {} /\ r.fwd = req.want

M(p) == cmd[p].req.machine

At(p, step) == cmd[p].pc = step
Goto(p, step) == cmd' = [cmd EXCEPT ![p].pc = step]
GotoWhen(fault, p, step) == fault \in Faults /\ Goto(p, step)

-----------------------------------------------------------------------------
(* Reconcile and Remove.                                                   *)

Call(p) ==
    /\ At(p, "idle")
    /\ \E req \in Request :
         cmd' = [cmd EXCEPT ![p] = [Idle EXCEPT !.pc = "load", !.req = req]]
    /\ UNCHANGED <<os, foreign, records>>

(* Where a call goes once nothing is left of an earlier tunnel.            *)
AfterOld(p) ==
    IF cmd[p].req.op = "remove" \/ cmd[p].req.want = {} THEN "ok" ELSE "probe"

Load(p) ==
    LET r == records[M(p)] IN
    /\ At(p, "load")
    /\ \/ /\ r = NoRecord
          /\ Goto(p, AfterOld(p))
       \/ /\ r # NoRecord
          /\ cmd' = [cmd EXCEPT
               ![p].pc = IF cmd[p].req.op = "remove" THEN "stop" ELSE "inspect",
               ![p].old = r, ![p].pid = r.pid, ![p].why = "stale"]
       \/ GotoWhen("disk", p, "error")
    /\ UNCHANGED <<os, foreign, records>>

(* Reconcile leaves a running tunnel alone if it is the one asked for.     *)
Inspect(p) ==
    /\ At(p, "inspect")
    /\ \E running \in IsMarked(cmd[p].pid, M(p)) :
         Goto(p, IF running /\ Matches(cmd[p].old, cmd[p].req)
                 THEN "ok" ELSE "stop")
    /\ UNCHANGED <<os, foreign, records>>

(* Stop: nothing of ours left to signal.                                   *)
Stopped(p) ==
    /\ At(p, "stop") \/ At(p, "awaitTerm") \/ At(p, "awaitKill")
    /\ FALSE \in IsMarked(cmd[p].pid, M(p))
    /\ Goto(p, IF cmd[p].why = "stale" THEN "delete" ELSE "error")
    /\ UNCHANGED <<os, foreign, records>>

(* Mutant of StillThere: the recorded process is signalled unseen.         *)
StillThereUnchecked(p) ==
    /\ At(p, "stop")
    /\ cmd[p].pid # NoPid
    /\ Goto(p, "term")
    /\ UNCHANGED <<os, foreign, records>>

StillThere(p) ==
    /\ At(p, "stop")
    /\ Marked(cmd[p].pid, M(p))
    /\ Goto(p, "term")
    /\ UNCHANGED <<os, foreign, records>>

(* Signal: delivered to whatever process has the ID by now; the process    *)
(* being gone is not an error. One that may not be signalled (an error)    *)
(* leaves what one that outlives its signals leaves, and is not told apart *)
(* from it.                                                                *)
Deliver(p, from, sig, to) ==
    /\ At(p, from)
    /\ os' = IF os[cmd[p].pid].kind = "free" THEN os
             ELSE [os EXCEPT ![cmd[p].pid].sig = sig]
    /\ Goto(p, to)
    /\ UNCHANGED <<foreign, records>>

(* Mutant of Term: the signalled process is not waited for.               *)
TermUnawaited(p) == Deliver(p, "term", "TERM", "delete")

Term(p) == Deliver(p, "term", "TERM", "awaitTerm")
Kill(p) == Deliver(p, "kill", "KILL", "awaitKill")

(* Mutant of Outlived: a process that survives its signals is signalled    *)
(* again.                                                                  *)
OutlivedRetries(p) ==
    /\ "stubborn" \in Faults
    /\ cmd[p].pc \in Stopping /\ Marked(cmd[p].pid, M(p))
    /\ \/ At(p, "awaitTerm") /\ Goto(p, "kill")
       \/ At(p, "awaitKill") /\ Goto(p, "term")
    /\ UNCHANGED <<os, foreign, records>>

(* waitForExit gives up on a process that is slow to end. The error of one *)
(* that survives SIGKILL after its record could not be saved names it.     *)
Outlived(p) ==
    /\ "stubborn" \in Faults
    /\ cmd[p].pc \in Stopping /\ Marked(cmd[p].pid, M(p))
    /\ \/ At(p, "awaitTerm") /\ Goto(p, "kill") /\ UNCHANGED os
       \/ /\ At(p, "awaitKill") /\ Goto(p, "error")
          /\ os' = IF cmd[p].why = "unsaved"
                   THEN [os EXCEPT ![cmd[p].pid].told = TRUE] ELSE os
    /\ UNCHANGED <<foreign, records>>

Delete(p) ==
    /\ At(p, "delete")
    /\ \/ /\ records' = [records EXCEPT ![M(p)] = NoRecord]
          /\ cmd' = [cmd EXCEPT ![p].pc = AfterOld(p), ![p].old = NoRecord,
                                ![p].pid = NoPid, ![p].why = "none"]
       \/ GotoWhen("disk", p, "error") /\ UNCHANGED records
    /\ UNCHANGED <<os, foreign>>

(* Each wanted port in turn is bound and released, or found taken.         *)
Probe(p) ==
    /\ At(p, "probe")
    /\ \E port \in cmd[p].req.want \ (cmd[p].fwd \cup cmd[p].unfwd) :
         cmd' = IF port \in Taken
                THEN [cmd EXCEPT ![p].unfwd = @ \cup {port}]
                ELSE [cmd EXCEPT ![p].fwd = @ \cup {port}]
    /\ UNCHANGED <<os, foreign, records>>

ProbedAll(p) ==
    /\ At(p, "probe")
    /\ cmd[p].fwd \cup cmd[p].unfwd = cmd[p].req.want
    /\ Goto(p, IF cmd[p].fwd = {} THEN "save" ELSE "start")
    /\ UNCHANGED <<os, foreign, records>>

(* A command that is about to signal i, having seen it marked.             *)
Aimed(i) == \E p \in Proc : cmd[p].pc \in {"term", "kill"} /\ cmd[p].pid = i

(* The system may give i to a new process.                                 *)
Unused(i) == os[i] = Free /\ (Aimed(i) => "race" \in Faults)

(* ssh -N is launched in a session of its own.                             *)
Launch(p, i) ==
    /\ Unused(i)
    /\ os' = [os EXCEPT ![i] =
                [Free EXCEPT !.kind = "tunnel", !.machine = M(p),
                             !.addr = cmd[p].req.addr, !.ports = cmd[p].fwd]]

Start(p) ==
    /\ At(p, "start")
    /\ \/ \E i \in Pid :
            /\ Launch(p, i)
            /\ \/ cmd' = [cmd EXCEPT ![p].pc = "save", ![p].pid = i]
               \/ GotoWhen("release", p, "error")
       \/ /\ "start" \in Faults \/ \A i \in Pid : ~ Unused(i)
          /\ Goto(p, "error")
          /\ UNCHANGED os
    /\ UNCHANGED <<foreign, records>>

(* Mutant of Save: the address is left out of the record.                  *)
SaveNoAddress(p) ==
    /\ At(p, "save")
    /\ records' = [records EXCEPT ![M(p)] =
                     [pid |-> cmd[p].pid, addr |-> NoMachine,
                      fwd |-> cmd[p].fwd, unfwd |-> cmd[p].unfwd]]
    /\ Goto(p, "ok")
    /\ UNCHANGED <<os, foreign>>

(* Mutant of Save: a failed save is returned at once.                      *)
SaveGivesUp(p) ==
    /\ At(p, "save")
    /\ \/ /\ records' = [records EXCEPT ![M(p)] =
                           [pid |-> cmd[p].pid, addr |-> cmd[p].req.addr,
                            fwd |-> cmd[p].fwd, unfwd |-> cmd[p].unfwd]]
          /\ Goto(p, "ok")
       \/ GotoWhen("disk", p, "error") /\ UNCHANGED records
    /\ UNCHANGED <<os, foreign>>

Save(p) ==
    /\ At(p, "save")
    /\ \/ /\ records' = [records EXCEPT ![M(p)] =
                           [pid |-> cmd[p].pid, addr |-> cmd[p].req.addr,
                            fwd |-> cmd[p].fwd, unfwd |-> cmd[p].unfwd]]
          /\ Goto(p, "ok")
       \/ /\ "disk" \in Faults
          /\ cmd' = [cmd EXCEPT
                       ![p].pc = IF cmd[p].pid = NoPid THEN "error" ELSE "stop",
                       ![p].why = "unsaved"]
          /\ UNCHANGED records
    /\ UNCHANGED <<os, foreign>>

Finish(p) ==
    /\ At(p, "ok") \/ At(p, "error")
    /\ cmd' = [cmd EXCEPT ![p] = Idle]
    /\ UNCHANGED <<os, foreign, records>>

Crash(p) ==
    /\ "crash" \in Faults
    /\ ~ At(p, "idle")
    /\ cmd' = [cmd EXCEPT ![p] = Idle]
    /\ UNCHANGED <<os, foreign, records>>

Step(p) ==
    \/ Load(p) \/ Inspect(p) \/ Stopped(p) \/ StillThere(p) \/ Term(p)
    \/ Kill(p) \/ Outlived(p) \/ Delete(p) \/ Probe(p) \/ ProbedAll(p)
    \/ Start(p) \/ Save(p) \/ Finish(p)

-----------------------------------------------------------------------------
(* The operating system.                                                   *)

(* A connected ssh binds all its ports; a port taken makes it exit         *)
(* (ExitOnForwardFailure).                                                 *)
Bind(i) ==
    /\ os[i].kind = "tunnel"
    /\ ~ os[i].bound
    /\ os[i].ports \cap Taken = {}
    /\ os' = [os EXCEPT ![i].bound = TRUE]
    /\ UNCHANGED <<foreign, records, cmd>>

(* Any process may end: signalled, disconnected, or by itself.             *)
Exit(i) ==
    /\ os[i].kind # "free"
    /\ os' = [os EXCEPT ![i] = Free]
    /\ UNCHANGED <<foreign, records, cmd>>

(* An unrelated program starts and gets an ID a tunnel had.                *)
Recycle(i) ==
    /\ Unused(i)
    /\ \/ \E m \in Machine : records[m] # NoRecord /\ records[m].pid = i
       \/ \E p \in Proc : cmd[p].pid = i
    /\ \/ /\ "recycle" \in Faults
          /\ os' = [os EXCEPT ![i].kind = "other"]
       \/ /\ "session" \in Faults
          /\ \E m \in Machine :
               os' = [os EXCEPT ![i].kind = "session", ![i].machine = m]
    /\ UNCHANGED <<foreign, records, cmd>>

(* Another program starts or stops listening on a loopback port.           *)
Listen ==
    /\ \/ \E port \in Port \ Taken : foreign' = foreign \cup {port}
       \/ \E port \in foreign : foreign' = foreign \ {port}
    /\ UNCHANGED <<os, records, cmd>>

Next ==
    \/ \E p \in Proc : Call(p) \/ Step(p) \/ Crash(p)
    \/ \E i \in Pid : Bind(i) \/ Exit(i) \/ Recycle(i)
    \/ Listen

Spec == Init /\ [][Next]_vars

(* A call runs until it returns; no process has to end.                    *)
Fairness == \A p \in Proc : WF_vars(Step(p))

FairSpec == Spec /\ Fairness

(* No two commands of one project at a time, as nothing but the user sees  *)
(* to; commands of different projects run together.                        *)
Apart == \A p, q \in Proc :
    p # q /\ ~ At(p, "idle") /\ ~ At(q, "idle") => M(p) # M(q)

ApartSpec == Init /\ [][Next /\ Apart']_vars

-----------------------------------------------------------------------------
(* Properties.                                                             *)

Tunnels(m) == {i \in Pid : os[i].kind = "tunnel" /\ os[i].machine = m}

(* A tunnel between its start and the save of its record, or the stop that *)
(* follows a failed save.                                                  *)
InHand(i) == \E p \in Proc :
    /\ cmd[p].pid = i
    /\ cmd[p].pc = "save" \/ (cmd[p].pc \in Stopping /\ cmd[p].why = "unsaved")

(* A live tunnel can be found again: its machine's record names it, a      *)
(* running command is about to record or stop it, or the command that gave *)
(* up on it told the user its process ID (Reconcile, "a tunnel no record   *)
(* points at is a tunnel no later run can find or replace").               *)
LiveTunnelsRecorded ==
    \A m \in Machine : \A i \in Tunnels(m) :
        \/ records[m] # NoRecord /\ records[m].pid = i
        \/ InHand(i)
        \/ os[i].told

(* Each project machine has at most one tunnel process (package comment),  *)
(* a reported survivor apart.                                              *)
OneTunnelPerMachine ==
    \A m \in Machine : \A i, j \in Tunnels(m) :
        os[i].told \/ os[j].told \/ i = j

Succeeds(p, op) ==
    /\ cmd[p].pc \notin {"ok", "idle"}
    /\ cmd'[p].pc = "ok"
    /\ cmd[p].req.op = op

(* Remove returns nil only when no tunnel of the machine is left alive and *)
(* no record of one either, however often it failed before.                *)
RemoveEndsTunnel ==
    [][\A p \in Proc : Succeeds(p, "remove") =>
         /\ \A i \in Tunnels(M(p)) : os[i].told
         /\ records'[M(p)] = NoRecord]_vars

(* Reconcile returns nil only with the machine's record, and whatever      *)
(* tunnel lives, being those of the request: the address it was given, no  *)
(* port but the wanted ones, and none left out of the tunnel that this     *)
(* very call did not find taken.                                           *)
ReconcileConverges ==
    [][\A p \in Proc : Succeeds(p, "reconcile") =>
         LET req == cmd[p].req
             r   == records'[req.machine]
         IN /\ req.want = {} <=> r = NoRecord
            /\ r # NoRecord => /\ r.addr = req.addr
                              /\ r.fwd \cup r.unfwd = req.want
                              /\ r.unfwd \subseteq cmd[p].unfwd
            /\ \A i \in Tunnels(req.machine) : os[i].told \/
                 /\ r # NoRecord
                 /\ os[i].addr = req.addr
                 /\ os[i].ports = r.fwd]_vars

Signalled(i) == os'[i].sig # os[i].sig /\ os'[i].kind # "free"

(* Only a tunnel is ever signalled, and only for its own machine: an ID    *)
(* the system gave to another program since is left alone.                 *)
OnlyTunnelsSignalled ==
    [][\A i \in Pid : Signalled(i) =>
         /\ os[i].kind = "tunnel"
         /\ \E p \in Proc : cmd[p].pid = i /\ M(p) = os[i].machine]_vars

(* Whatever else goes wrong, a signalled process carries the name of the   *)
(* machine the command is about: the ID of a dead tunnel may since have    *)
(* gone to another machine's tunnel, which is left alone.                  *)
OnlyMarkedSignalled ==
    [][\A i \in Pid : Signalled(i) =>
         \E p \in Proc : cmd[p].pid = i /\ Marked(i, M(p))]_vars

(* Repeated up and open runs never cut a recorded tunnel that already      *)
(* leads where they ask, with the ports they ask for (Reconcile, "what     *)
(* keeps repeated runs from stacking processes"); one that was started     *)
(* around a port in conflict is tried anew.                                *)
MatchingTunnelKept ==
    [][\A i \in Pid : Signalled(i) =>
         ~ \E p \in Proc :
             /\ cmd[p].pid = i /\ cmd[p].pc \in Stopping
             /\ cmd[p].why = "stale" /\ cmd[p].req.op = "reconcile"
             /\ cmd[p].old.unfwd = {}
             /\ os[i].machine = M(p)
             /\ os[i].addr = cmd[p].req.addr
             /\ os[i].ports = cmd[p].req.want]_vars

(* Every call returns, even when the process it stops does not die.        *)
CallsReturn == \A p \in Proc : cmd[p].pc # "idle" ~> cmd[p].pc = "idle"

(* The recorded tunnel of each machine, and the call of each process as    *)
(* its caller sees it.                                                     *)
TunnelOf(m) ==
    IF records[m] = NoRecord THEN NoRecord
    ELSE [addr |-> records[m].addr, fwd |-> records[m].fwd,
          unfwd |-> records[m].unfwd, live |-> records[m].pid \in Tunnels(m)]

CallOf(p) ==
    IF At(p, "idle") THEN [state |-> "idle", req |-> NoRecord]
    ELSE [state |-> IF cmd[p].pc \in {"ok", "error"} THEN cmd[p].pc
                    ELSE "running",
          req   |-> cmd[p].req]

Atomic == INSTANCE AtomicTunnel WITH
    tunnel <- [m \in Machine |-> TunnelOf(m)],
    call <- [p \in Proc |-> CallOf(p)],
    NoTunnel <- NoRecord, NoRequest <- NoRecord

ASSUME TunnelAssumption == NoRecord \notin Atomic!Tunnel

(* Reconcile and Remove, with all their steps, failures and kills, are to  *)
(* the outside what AtomicTunnel says: what Lifecycle takes them for.      *)
AtomicSpec == Atomic!Spec
=============================================================================
