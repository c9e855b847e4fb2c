---------------------------- MODULE TunnelProofs ----------------------------
(***************************************************************************)
(* Proofs of the safety properties of Tunnel, for any machines, process    *)
(* IDs, ports and requests.                                                *)
(***************************************************************************)
EXTENDS Tunnel, TLAPS

(* A command, and the steps by what it is doing.                           *)
Cmd == [pc: Steps \cup {"idle"}, req: Request \cup {NoRecord},
        old: Record \cup {NoRecord}, fwd: SUBSET Port, unfwd: SUBSET Port,
        pid: Pid \cup {NoPid}, why: {"none", "stale", "unsaved"}]

(* A running call has its request, one that signals a process its ID.      *)
Called == \A p \in Proc :
    /\ cmd[p].pc # "idle" => cmd[p].req \in Request
    /\ cmd[p].pc \in Stopping \ {"stop"} => cmd[p].pid \in Pid

TInv == TypeOK /\ Called

(* Whoever is about to signal a process still aims at what it saw, unless  *)
(* that is gone.                                                           *)
Aims == \A p \in Proc : cmd[p].pc \in {"term", "kill"} =>
    os[cmd[p].pid].kind = "free" \/ Marked(cmd[p].pid, M(p))

NoRace == "race" \notin Faults
Visible == Faults \cap {"ps", "session"} = {}
Benign ==
    Faults \cap {"crash", "release", "ps", "session", "race"} = {}

Untold(m) == {i \in Tunnels(m) : ~ os[i].told}

(* The call has a tunnel of its own in hand; it deals with the one it      *)
(* found recorded; it has nothing left to deal with.                       *)
Holding(p) ==
    cmd[p].pc = "save" \/ (cmd[p].pc \in Stopping /\ cmd[p].why = "unsaved")
Replacing(p) ==
    \/ cmd[p].pc \in {"inspect", "delete"}
    \/ cmd[p].pc \in Stopping /\ cmd[p].why = "stale"
Beginning(p) == cmd[p].pc \in {"probe", "start"}

(* Why a process is stopped is known at every step.                        *)
Reasons(p) ==
    /\ cmd[p].pc \in {"inspect", "delete"} => cmd[p].why = "stale"
    /\ cmd[p].pc \in Stopping => cmd[p].why \in {"stale", "unsaved"}
    /\ cmd[p].pc \in {"load", "probe", "start", "save"} => cmd[p].why = "none"
    /\ cmd[p].pc = "load" =>
         cmd[p].pid = NoPid /\ cmd[p].fwd = {} /\ cmd[p].unfwd = {}

(* What a call has loaded is still the record of its machine.              *)
Loaded(p) == Replacing(p) =>
    /\ records[M(p)] # NoRecord
    /\ cmd[p].old = records[M(p)] /\ cmd[p].pid = records[M(p)].pid
    /\ cmd[p].pc = "inspect" => cmd[p].req.op = "reconcile"
    /\ cmd[p].pc = "delete" => cmd[p].pid \notin Tunnels(M(p))
    /\ /\ cmd[p].pc \in Stopping /\ cmd[p].req.op = "reconcile"
       /\ Matches(cmd[p].old, cmd[p].req)
       => cmd[p].pid \notin Tunnels(M(p))

(* A tunnel is started where none is, for what the request asks.           *)
Making(p) == Beginning(p) \/ Holding(p) =>
    /\ records[M(p)] = NoRecord
    /\ cmd[p].req.op = "reconcile" /\ cmd[p].req.want # {}
    /\ Beginning(p) => cmd[p].pid = NoPid
    /\ cmd[p].pc = "start" \/ Holding(p) =>
         cmd[p].fwd \cup cmd[p].unfwd = cmd[p].req.want
    /\ Holding(p) /\ cmd[p].pid \in Tunnels(M(p)) =>
         /\ os[cmd[p].pid].addr = cmd[p].req.addr
         /\ os[cmd[p].pid].ports = cmd[p].fwd

(* A record tells the truth of the tunnel it names.                        *)
Truthful == \A m \in Machine : records[m] # NoRecord =>
    /\ records[m].fwd \cup records[m].unfwd # {}
    /\ records[m].pid \in Tunnels(m) =>
         /\ os[records[m].pid].addr = records[m].addr
         /\ os[records[m].pid].ports = records[m].fwd

(* A tunnel nobody was told of is recorded or in hand.                     *)
Found == \A m \in Machine : \A i \in Untold(m) :
    \/ records[m] # NoRecord /\ records[m].pid = i
    \/ \E p \in Proc : Holding(p) /\ M(p) = m /\ cmd[p].pid = i

NoSession == \A i \in Pid : os[i].kind # "session"

KInv == /\ \A p \in Proc : Reasons(p) /\ Loaded(p) /\ Making(p)
        /\ Truthful /\ NoSession
IInv == TInv /\ KInv /\ Found

-----------------------------------------------------------------------------
(* What the operators on cmd change, and what they leave.                  *)

Moved(p) == /\ cmd' \in [Proc -> Cmd]
            /\ \A q \in Proc : q # p => cmd'[q] = cmd[q]

(* All of a call but its step and its reason.                              *)
SameWork(p) ==
    /\ cmd'[p].req = cmd[p].req /\ cmd'[p].old = cmd[p].old
    /\ cmd'[p].fwd = cmd[p].fwd /\ cmd'[p].unfwd = cmd[p].unfwd
    /\ cmd'[p].pid = cmd[p].pid

Same(p) == SameWork(p) /\ cmd'[p].why = cmd[p].why

LEMMA CmdType == TypeOK <=> /\ os \in [Pid -> Process]
                           /\ foreign \in SUBSET Port
                           /\ records \in [Machine -> Record \cup {NoRecord}]
                           /\ cmd \in [Proc -> Cmd]
BY DEF TypeOK, Cmd

LEMMA Move ==
    ASSUME TypeOK, NEW p \in Proc, NEW c \in Cmd, cmd' = [cmd EXCEPT ![p] = c]
    PROVE  Moved(p) /\ cmd'[p] = c
BY CmdType DEF Moved

LEMMA GotoEffect ==
    ASSUME TypeOK, NEW p \in Proc, NEW step \in Steps \cup {"idle"}, Goto(p, step)
    PROVE  Moved(p) /\ cmd'[p].pc = step /\ Same(p)
<1> DEFINE c == [cmd[p] EXCEPT !.pc = step]
<1>1. cmd[p] \in Cmd
  BY CmdType
<1>2. c \in Cmd
  BY <1>1 DEF Cmd
<1>3. cmd' = [cmd EXCEPT ![p] = c]
  BY DEF Goto
<1>4. Moved(p) /\ cmd'[p] = c
  BY <1>2, <1>3, Move
<1>5. QED
  BY <1>1, <1>4 DEF Cmd, Same, SameWork

LEMMA StepNames ==
    /\ Stopping = {"stop", "term", "awaitTerm", "kill", "awaitKill"}
    /\ {"load", "inspect", "delete", "probe", "start", "save", "ok", "error",
        "stop", "term", "awaitTerm", "kill", "awaitKill"} \subseteq Steps
BY DEF Steps, Stopping

(* The types a step has to restore.                                        *)
LEMMA TypesAgain ==
    ASSUME TInv, NEW p \in Proc, Moved(p),
           os' \in [Pid -> Process], foreign' \in SUBSET Port,
           records' \in [Machine -> Record \cup {NoRecord}],
           cmd'[p].pc # "idle" => cmd'[p].req \in Request,
           cmd'[p].pc \in Stopping \ {"stop"} => cmd'[p].pid \in Pid
    PROVE  TInv'
BY CmdType DEF TInv, TypeOK, Cmd, Called, Moved

-----------------------------------------------------------------------------
(* What each action does.                                                  *)

(* A step that leaves the world alone and goes to one of some steps.       *)
Quiet(p, steps) ==
    /\ UNCHANGED <<os, foreign, records>>
    /\ Moved(p) /\ Same(p) /\ cmd'[p].pc \in steps

LEMMA CallEffect ==
    ASSUME TInv, NEW p \in Proc, Call(p)
    PROVE  /\ cmd[p].pc = "idle" /\ UNCHANGED <<os, foreign, records>>
           /\ Moved(p) /\ cmd'[p].pc = "load" /\ cmd'[p].req \in Request
           /\ cmd'[p].fwd = {} /\ cmd'[p].unfwd = {}
           /\ cmd'[p].pid = NoPid /\ cmd'[p].why = "none"
<1>1. PICK req \in Request :
        cmd' = [cmd EXCEPT ![p] = [Idle EXCEPT !.pc = "load", !.req = req]]
  BY DEF Call
<1> DEFINE c == [Idle EXCEPT !.pc = "load", !.req = req]
<1>2. c \in Cmd /\ c.pc = "load" /\ c.req = req /\ c.fwd = {} /\ c.unfwd = {}
        /\ c.pid = NoPid /\ c.why = "none"
  BY StepNames DEF Idle, Cmd
<1> HIDE DEF c
<1>3. Moved(p) /\ cmd'[p] = c
  BY <1>1, <1>2, Move DEF TInv, c
<1>4. QED
  BY <1>2, <1>3 DEF Call, At

LEMMA LoadEffect ==
    ASSUME TInv, NEW p \in Proc, Load(p)
    PROVE  /\ cmd[p].pc = "load" /\ UNCHANGED <<os, foreign, records>>
           /\ Moved(p) /\ cmd'[p].req = cmd[p].req
           /\ cmd'[p].fwd = cmd[p].fwd /\ cmd'[p].unfwd = cmd[p].unfwd
           /\ \/ /\ records[M(p)] = NoRecord
                 /\ Same(p) /\ cmd'[p].pc = AfterOld(p)
              \/ /\ records[M(p)] # NoRecord
                 /\ cmd'[p].pc = IF cmd[p].req.op = "remove" THEN "stop"
                                                            ELSE "inspect"
                 /\ cmd'[p].old = records[M(p)]
                 /\ cmd'[p].pid = records[M(p)].pid
                 /\ cmd'[p].why = "stale"
              \/ Same(p) /\ cmd'[p].pc = "error"
<1>1. cmd[p] \in Cmd /\ cmd[p].pc = "load" /\ cmd[p].req \in Request
        /\ UNCHANGED <<os, foreign, records>>
  BY CmdType DEF TInv, Called, Load, At
<1>2. CASE records[M(p)] = NoRecord /\ Goto(p, AfterOld(p))
  <2>1. AfterOld(p) \in Steps
    BY StepNames DEF AfterOld
  <2>2. QED
    BY <1>1, <1>2, <2>1, GotoEffect DEF TInv, Same, SameWork
<1>3. CASE /\ records[M(p)] # NoRecord
           /\ cmd' = [cmd EXCEPT
               ![p].pc = IF cmd[p].req.op = "remove" THEN "stop" ELSE "inspect",
               ![p].old = records[M(p)], ![p].pid = records[M(p)].pid,
               ![p].why = "stale"]
  <2> DEFINE step == IF cmd[p].req.op = "remove" THEN "stop" ELSE "inspect"
             c == [cmd[p] EXCEPT !.pc = step, !.old = records[M(p)],
                                 !.pid = records[M(p)].pid, !.why = "stale"]
  <2>1. step \in Steps
    BY StepNames
  <2>2. M(p) \in Machine
    BY <1>1, ConstantAssumption DEF RequestType, M
  <2>3. records[M(p)] \in Record
    BY <1>3, <2>2 DEF TInv, TypeOK
  <2> HIDE DEF step
  <2>4. c \in Cmd
    BY <1>1, <2>1, <2>3 DEF Cmd, Record
  <2>5. cmd' = [cmd EXCEPT ![p] = c]
    BY <1>3 DEF step
  <2>6. Moved(p) /\ cmd'[p] = c
    BY <2>4, <2>5, Move DEF TInv
  <2>7. QED
    <3>1. /\ c.req = cmd[p].req /\ c.fwd = cmd[p].fwd
          /\ c.unfwd = cmd[p].unfwd /\ c.pc = step /\ c.why = "stale"
          /\ c.old = records[M(p)] /\ c.pid = records[M(p)].pid
      BY <1>1 DEF Cmd
    <3>2. QED
      BY <1>1, <1>3, <2>6, <3>1 DEF step
<1>4. CASE GotoWhen("disk", p, "error")
  BY <1>1, <1>4, StepNames, GotoEffect DEF TInv, GotoWhen, Same, SameWork
<1>5. QED
  BY <1>2, <1>3, <1>4 DEF Load

LEMMA InspectEffect ==
    ASSUME TInv, NEW p \in Proc, Inspect(p)
    PROVE  /\ cmd[p].pc = "inspect" /\ Quiet(p, {"ok", "stop"})
           /\ cmd'[p].pc = "ok" =>
                Marked(cmd[p].pid, M(p)) /\ Matches(cmd[p].old, cmd[p].req)
           /\ cmd'[p].pc = "stop" /\ "ps" \notin Faults =>
                ~ (Marked(cmd[p].pid, M(p)) /\ Matches(cmd[p].old, cmd[p].req))
<1>1. PICK running \in IsMarked(cmd[p].pid, M(p)) :
        Goto(p, IF running /\ Matches(cmd[p].old, cmd[p].req)
                THEN "ok" ELSE "stop")
  BY DEF Inspect
<1>2. /\ running => Marked(cmd[p].pid, M(p))
      /\ ~ running /\ "ps" \notin Faults => ~ Marked(cmd[p].pid, M(p))
  BY DEF IsMarked
<1>3. UNCHANGED <<os, foreign, records>> /\ cmd[p].pc = "inspect"
  BY DEF Inspect, At
<1>4. CASE running /\ Matches(cmd[p].old, cmd[p].req)
  <2>1. Goto(p, "ok")
    BY <1>1, <1>4
  <2>2. QED
    BY <1>2, <1>3, <1>4, <2>1, StepNames, GotoEffect DEF TInv, Quiet
<1>5. CASE ~ (running /\ Matches(cmd[p].old, cmd[p].req))
  <2>1. Goto(p, "stop")
    BY <1>1, <1>5
  <2>2. QED
    BY <1>2, <1>3, <1>5, <2>1, StepNames, GotoEffect DEF TInv, Quiet
<1>6. QED
  BY <1>4, <1>5

LEMMA StoppedEffect ==
    ASSUME TInv, NEW p \in Proc, Stopped(p)
    PROVE  /\ cmd[p].pc \in Stopping /\ Quiet(p, {"delete", "error"})
           /\ cmd'[p].pc = IF cmd[p].why = "stale" THEN "delete" ELSE "error"
           /\ "ps" \notin Faults => ~ Marked(cmd[p].pid, M(p))
<1> DEFINE next == IF cmd[p].why = "stale" THEN "delete" ELSE "error"
<1>1. next \in Steps /\ next \in {"delete", "error"}
  BY StepNames
<1>2. Goto(p, next) /\ UNCHANGED <<os, foreign, records>>
  BY DEF Stopped
<1> HIDE DEF next
<1>3. Quiet(p, {"delete", "error"}) /\ cmd'[p].pc = next
  BY <1>1, <1>2, GotoEffect DEF TInv, Quiet
<1>4. "ps" \notin Faults => ~ Marked(cmd[p].pid, M(p))
  BY DEF Stopped, IsMarked
<1>5. QED
  BY <1>3, <1>4, StepNames DEF Stopped, At, next

LEMMA StillThereEffect ==
    ASSUME TInv, NEW p \in Proc, StillThere(p)
    PROVE  /\ cmd[p].pc = "stop" /\ Quiet(p, {"term"})
           /\ Marked(cmd[p].pid, M(p))
BY StepNames, GotoEffect DEF TInv, StillThere, At, Quiet

(* Every process is who it was; at most it was signalled, bound or told of.*)
Unmoved ==
    /\ os' \in [Pid -> Process]
    /\ \A i \in Pid : /\ os'[i].kind = os[i].kind
                      /\ os'[i].machine = os[i].machine
                      /\ os'[i].addr = os[i].addr
                      /\ os'[i].ports = os[i].ports
                      /\ os[i].told => os'[i].told

LEMMA DeliverEffect ==
    ASSUME TInv, NEW p \in Proc, NEW from \in {"term", "kill"},
           NEW sig \in {"TERM", "KILL"}, NEW to \in {"awaitTerm", "awaitKill"},
           Deliver(p, from, sig, to)
    PROVE  /\ cmd[p].pc = from /\ Moved(p) /\ Same(p) /\ cmd'[p].pc = to
           /\ Unmoved /\ UNCHANGED <<foreign, records>>
           /\ \A i \in Pid : os'[i].told = os[i].told
           /\ \A i \in Pid : os'[i].sig # os[i].sig =>
                i = cmd[p].pid /\ os[i].kind # "free"
<1>1. /\ cmd[p].pc = from /\ Moved(p) /\ Same(p) /\ cmd'[p].pc = to
      /\ UNCHANGED <<foreign, records>>
  BY StepNames, GotoEffect DEF TInv, Deliver, At
<1>2. CASE os' = os
  BY <1>1, <1>2 DEF TInv, TypeOK, Unmoved
<1>3. CASE os[cmd[p].pid].kind # "free" /\ os' # os
  <2> DEFINE i == cmd[p].pid
             new == [os[i] EXCEPT !.sig = sig]
  <2>1. i \in Pid /\ os[i] \in Process
    BY <1>1 DEF TInv, Called, Stopping, TypeOK
  <2>2. /\ new \in Process /\ new.kind = os[i].kind
        /\ new.machine = os[i].machine /\ new.addr = os[i].addr
        /\ new.ports = os[i].ports /\ new.told = os[i].told
    BY <2>1 DEF Process
  <2>3. os' = [os EXCEPT ![i] = new]
    BY <1>3 DEF Deliver
  <2> HIDE DEF i, new
  <2>4. QED
    BY <1>1, <1>3, <2>1, <2>2, <2>3 DEF TInv, TypeOK, Unmoved, i
<1>4. QED
  BY <1>2, <1>3 DEF Deliver

LEMMA OutlivedEffect ==
    ASSUME TInv, NEW p \in Proc, Outlived(p)
    PROVE  /\ cmd[p].pc \in {"awaitTerm", "awaitKill"} /\ Moved(p) /\ Same(p)
           /\ Marked(cmd[p].pid, M(p))
           /\ Unmoved /\ UNCHANGED <<foreign, records>>
           /\ \A i \in Pid : os'[i].sig = os[i].sig
           /\ \/ cmd'[p].pc = "kill" /\ UNCHANGED os
              \/ /\ cmd'[p].pc = "error"
                 /\ cmd[p].why = "unsaved" => os'[cmd[p].pid].told
<1>1. /\ cmd[p].pc \in {"awaitTerm", "awaitKill"} /\ Moved(p) /\ Same(p)
      /\ cmd'[p].pc \in {"kill", "error"}
      /\ Marked(cmd[p].pid, M(p)) /\ UNCHANGED <<foreign, records>>
  BY StepNames, GotoEffect DEF TInv, Outlived, At
<1>2. cmd[p].pid \in Pid
  BY <1>1, CmdType DEF TInv, Cmd, Marked
<1>3. CASE cmd'[p].pc = "kill" /\ UNCHANGED os
  BY <1>1, <1>3 DEF TInv, TypeOK, Unmoved
<1>4. CASE /\ cmd'[p].pc = "error"
           /\ os' = IF cmd[p].why = "unsaved"
                    THEN [os EXCEPT ![cmd[p].pid].told = TRUE] ELSE os
  <2>1. CASE cmd[p].why = "unsaved"
    <3> DEFINE i == cmd[p].pid
               new == [os[i] EXCEPT !.told = TRUE]
    <3>1. i \in Pid /\ os[i] \in Process
      BY <1>2 DEF TInv, TypeOK
    <3>2. /\ new \in Process /\ new.kind = os[i].kind
          /\ new.machine = os[i].machine /\ new.addr = os[i].addr
          /\ new.ports = os[i].ports /\ new.sig = os[i].sig /\ new.told
      BY <3>1 DEF Process
    <3>3. os' = [os EXCEPT ![i] = new]
      BY <1>4, <2>1
    <3> HIDE DEF i, new
    <3>4. QED
      BY <1>1, <1>4, <3>1, <3>2, <3>3 DEF TInv, TypeOK, Unmoved, i
  <2>2. CASE cmd[p].why # "unsaved"
    BY <1>1, <1>4, <2>2 DEF TInv, TypeOK, Unmoved
  <2>3. QED
    BY <2>1, <2>2
<1>5. QED
  <2>1. CASE Goto(p, "kill") /\ UNCHANGED os
    BY <1>3, <2>1, StepNames, GotoEffect DEF TInv
  <2>2. CASE /\ Goto(p, "error")
             /\ os' = IF cmd[p].why = "unsaved"
                      THEN [os EXCEPT ![cmd[p].pid].told = TRUE] ELSE os
    BY <1>4, <2>2, StepNames, GotoEffect DEF TInv
  <2>3. QED
    BY <2>1, <2>2 DEF Outlived

LEMMA DeleteEffect ==
    ASSUME TInv, NEW p \in Proc, Delete(p)
    PROVE  /\ cmd[p].pc = "delete" /\ UNCHANGED <<os, foreign>>
           /\ Moved(p) /\ cmd'[p].req = cmd[p].req
           /\ cmd'[p].fwd = cmd[p].fwd /\ cmd'[p].unfwd = cmd[p].unfwd
           /\ \/ /\ records' = [records EXCEPT ![M(p)] = NoRecord]
                 /\ cmd'[p].pc = AfterOld(p)
                 /\ cmd'[p].pid = NoPid /\ cmd'[p].why = "none"
              \/ Same(p) /\ cmd'[p].pc = "error" /\ UNCHANGED records
<1>1. cmd[p] \in Cmd /\ cmd[p].pc = "delete" /\ UNCHANGED <<os, foreign>>
  BY CmdType DEF TInv, Delete, At
<1>2. CASE /\ records' = [records EXCEPT ![M(p)] = NoRecord]
           /\ cmd' = [cmd EXCEPT ![p].pc = AfterOld(p), ![p].old = NoRecord,
                                 ![p].pid = NoPid, ![p].why = "none"]
  <2> DEFINE c == [cmd[p] EXCEPT !.pc = AfterOld(p), !.old = NoRecord,
                                 !.pid = NoPid, !.why = "none"]
  <2>1. AfterOld(p) \in Steps
    BY StepNames DEF AfterOld
  <2>2. c \in Cmd
    BY <1>1, <2>1 DEF Cmd
  <2>3. cmd' = [cmd EXCEPT ![p] = c]
    BY <1>2
  <2>4. /\ c.req = cmd[p].req /\ c.fwd = cmd[p].fwd /\ c.unfwd = cmd[p].unfwd
        /\ c.pc = AfterOld(p) /\ c.pid = NoPid /\ c.why = "none"
    BY <1>1 DEF Cmd
  <2> HIDE DEF c
  <2>5. Moved(p) /\ cmd'[p] = c
    BY <2>2, <2>3, Move DEF TInv
  <2>6. QED
    BY <1>1, <1>2, <2>4, <2>5
<1>3. CASE GotoWhen("disk", p, "error") /\ UNCHANGED records
  BY <1>1, <1>3, StepNames, GotoEffect DEF TInv, GotoWhen, Same, SameWork
<1>4. QED
  BY <1>2, <1>3 DEF Delete

LEMMA ProbeEffect ==
    ASSUME TInv, NEW p \in Proc, Probe(p)
    PROVE  /\ cmd[p].pc = "probe" /\ UNCHANGED <<os, foreign, records>>
           /\ Moved(p) /\ cmd'[p].pc = "probe" /\ cmd'[p].req = cmd[p].req
           /\ cmd'[p].pid = cmd[p].pid /\ cmd'[p].why = cmd[p].why
<1>1. /\ cmd[p] \in Cmd /\ cmd[p].pc = "probe" /\ cmd[p].req \in RequestType
      /\ UNCHANGED <<os, foreign, records>>
  BY CmdType, ConstantAssumption DEF TInv, Called, Probe, At
<1>2. PICK port \in cmd[p].req.want :
        cmd' = IF port \in Taken
               THEN [cmd EXCEPT ![p].unfwd = @ \cup {port}]
               ELSE [cmd EXCEPT ![p].fwd = @ \cup {port}]
  BY DEF Probe
<1>3. port \in Port
  BY <1>1, <1>2 DEF RequestType
<1>4. CASE port \in Taken
  <2> DEFINE c == [cmd[p] EXCEPT !.unfwd = @ \cup {port}]
  <2>1. c \in Cmd /\ c.pc = cmd[p].pc /\ c.req = cmd[p].req
          /\ c.pid = cmd[p].pid /\ c.why = cmd[p].why
    BY <1>1, <1>3 DEF Cmd
  <2>2. cmd' = [cmd EXCEPT ![p] = c]
    BY <1>2, <1>4
  <2>3. QED
    BY <1>1, <2>1, <2>2, Move DEF TInv
<1>5. CASE port \notin Taken
  <2> DEFINE c == [cmd[p] EXCEPT !.fwd = @ \cup {port}]
  <2>1. c \in Cmd /\ c.pc = cmd[p].pc /\ c.req = cmd[p].req
          /\ c.pid = cmd[p].pid /\ c.why = cmd[p].why
    BY <1>1, <1>3 DEF Cmd
  <2>2. cmd' = [cmd EXCEPT ![p] = c]
    BY <1>2, <1>5
  <2>3. QED
    BY <1>1, <2>1, <2>2, Move DEF TInv
<1>6. QED
  BY <1>4, <1>5

LEMMA ProbedAllEffect ==
    ASSUME TInv, NEW p \in Proc, ProbedAll(p)
    PROVE  /\ cmd[p].pc = "probe" /\ Quiet(p, {"save", "start"})
           /\ cmd[p].fwd \cup cmd[p].unfwd = cmd[p].req.want
           /\ cmd'[p].pc = "save" => cmd[p].fwd = {}
<1> DEFINE next == IF cmd[p].fwd = {} THEN "save" ELSE "start"
<1>1. next \in Steps /\ next \in {"save", "start"}
  BY StepNames
<1>2. Goto(p, next) /\ UNCHANGED <<os, foreign, records>>
  BY DEF ProbedAll
<1> HIDE DEF next
<1>3. Quiet(p, {"save", "start"}) /\ cmd'[p].pc = next
  BY <1>1, <1>2, GotoEffect DEF TInv, Quiet
<1>4. QED
  BY <1>3 DEF ProbedAll, At, next

(* A new tunnel takes an unused ID and nothing else.                       *)
LEMMA LaunchEffect ==
    ASSUME TInv, NEW p \in Proc, NEW i \in Pid, Launch(p, i),
           cmd[p].req \in RequestType
    PROVE  /\ os' \in [Pid -> Process] /\ Unused(i)
           /\ os'[i].kind = "tunnel" /\ os'[i].machine = M(p)
           /\ os'[i].addr = cmd[p].req.addr /\ os'[i].ports = cmd[p].fwd
           /\ os'[i].sig = "none" /\ ~ os'[i].told
           /\ \A j \in Pid : j # i => os'[j] = os[j]
<1> DEFINE new == [Free EXCEPT !.kind = "tunnel", !.machine = M(p),
                               !.addr = cmd[p].req.addr, !.ports = cmd[p].fwd]
<1>1. /\ new \in Process /\ new.kind = "tunnel" /\ new.machine = M(p)
      /\ new.addr = cmd[p].req.addr /\ new.ports = cmd[p].fwd
      /\ new.sig = "none" /\ ~ new.told
  BY CmdType DEF TInv, Cmd, RequestType, M, Free, Process
<1>2. os' = [os EXCEPT ![i] = new] /\ Unused(i)
  BY DEF Launch
<1> HIDE DEF new
<1>3. QED
  BY <1>1, <1>2 DEF TInv, TypeOK

LEMMA StartEffect ==
    ASSUME TInv, NEW p \in Proc, Start(p)
    PROVE  /\ cmd[p].pc = "start" /\ UNCHANGED <<foreign, records>>
           /\ Moved(p) /\ cmd'[p].req = cmd[p].req
           /\ cmd'[p].fwd = cmd[p].fwd /\ cmd'[p].unfwd = cmd[p].unfwd
           /\ cmd'[p].why = cmd[p].why
           /\ \/ \E i \in Pid :
                   /\ Launch(p, i)
                   /\ \/ cmd'[p].pc = "save" /\ cmd'[p].pid = i
                      \/ "release" \in Faults /\ cmd'[p].pc = "error"
              \/ cmd'[p].pc = "error" /\ UNCHANGED os
<1>1. cmd[p] \in Cmd /\ cmd[p].pc = "start" /\ UNCHANGED <<foreign, records>>
  BY CmdType DEF TInv, Start, At
<1>2. ASSUME NEW i \in Pid, cmd' = [cmd EXCEPT ![p].pc = "save", ![p].pid = i]
      PROVE  /\ Moved(p) /\ cmd'[p].req = cmd[p].req
             /\ cmd'[p].fwd = cmd[p].fwd /\ cmd'[p].unfwd = cmd[p].unfwd
             /\ cmd'[p].why = cmd[p].why
             /\ cmd'[p].pc = "save" /\ cmd'[p].pid = i
  <2> DEFINE c == [cmd[p] EXCEPT !.pc = "save", !.pid = i]
  <2>1. /\ c \in Cmd /\ c.req = cmd[p].req /\ c.fwd = cmd[p].fwd
        /\ c.unfwd = cmd[p].unfwd /\ c.why = cmd[p].why
        /\ c.pc = "save" /\ c.pid = i
    BY <1>1, StepNames DEF Cmd
  <2>2. cmd' = [cmd EXCEPT ![p] = c]
    BY <1>2
  <2> HIDE DEF c
  <2>3. QED
    BY <2>1, <2>2, Move DEF TInv
<1>3. ASSUME Goto(p, "error")
      PROVE  Moved(p) /\ Same(p) /\ cmd'[p].pc = "error"
  BY <1>3, StepNames, GotoEffect DEF TInv
<1>4. CASE \E i \in Pid :
            /\ Launch(p, i)
            /\ \/ cmd' = [cmd EXCEPT ![p].pc = "save", ![p].pid = i]
               \/ GotoWhen("release", p, "error")
  <2>1. PICK i \in Pid :
            /\ Launch(p, i)
            /\ \/ cmd' = [cmd EXCEPT ![p].pc = "save", ![p].pid = i]
               \/ GotoWhen("release", p, "error")
    BY <1>4
  <2>2. CASE cmd' = [cmd EXCEPT ![p].pc = "save", ![p].pid = i]
    BY <1>1, <1>2, <2>1, <2>2
  <2>3. CASE GotoWhen("release", p, "error")
    BY <1>1, <1>3, <2>1, <2>3 DEF GotoWhen, Same, SameWork
  <2>4. QED
    BY <2>1, <2>2, <2>3
<1>5. CASE Goto(p, "error") /\ UNCHANGED os
  BY <1>1, <1>3, <1>5 DEF Same, SameWork
<1>6. QED
  BY <1>4, <1>5 DEF Start

(* The record that Save writes.                                            *)
Kept(p) == [pid |-> cmd[p].pid, addr |-> cmd[p].req.addr,
            fwd |-> cmd[p].fwd, unfwd |-> cmd[p].unfwd]

LEMMA SaveEffect ==
    ASSUME TInv, NEW p \in Proc, Save(p)
    PROVE  /\ cmd[p].pc = "save" /\ UNCHANGED <<os, foreign>>
           /\ Moved(p) /\ SameWork(p)
           /\ \/ /\ records' = [records EXCEPT ![M(p)] = Kept(p)]
                 /\ cmd'[p].pc = "ok"
              \/ /\ UNCHANGED records /\ cmd'[p].why = "unsaved"
                 /\ cmd'[p].pc = IF cmd[p].pid = NoPid THEN "error" ELSE "stop"
<1>1. cmd[p] \in Cmd /\ cmd[p].pc = "save" /\ UNCHANGED <<os, foreign>>
  BY CmdType DEF TInv, Save, At
<1>2. CASE records' = [records EXCEPT ![M(p)] = Kept(p)] /\ Goto(p, "ok")
  BY <1>1, <1>2, StepNames, GotoEffect DEF TInv, Same
<1>3. CASE /\ cmd' = [cmd EXCEPT
                ![p].pc = IF cmd[p].pid = NoPid THEN "error" ELSE "stop",
                ![p].why = "unsaved"]
           /\ UNCHANGED records
  <2> DEFINE step == IF cmd[p].pid = NoPid THEN "error" ELSE "stop"
             c == [cmd[p] EXCEPT !.pc = step, !.why = "unsaved"]
  <2>1. step \in Steps
    BY StepNames
  <2>2. cmd' = [cmd EXCEPT ![p] = c]
    BY <1>3
  <2> HIDE DEF step
  <2>3. /\ c \in Cmd /\ c.req = cmd[p].req /\ c.old = cmd[p].old
        /\ c.fwd = cmd[p].fwd /\ c.unfwd = cmd[p].unfwd
        /\ c.pid = cmd[p].pid /\ c.pc = step /\ c.why = "unsaved"
    BY <1>1, <2>1 DEF Cmd
  <2> HIDE DEF c
  <2>4. Moved(p) /\ cmd'[p] = c
    BY <2>2, <2>3, Move DEF TInv
  <2>5. QED
    BY <1>1, <1>3, <2>3, <2>4 DEF SameWork, step
<1>4. QED
  BY <1>2, <1>3 DEF Save, Kept

LEMMA LeaveEffect ==
    ASSUME TInv, NEW p \in Proc, Finish(p) \/ Crash(p)
    PROVE  /\ UNCHANGED <<os, foreign, records>>
           /\ Moved(p) /\ cmd'[p].pc = "idle"
           /\ cmd[p].pc \in {"ok", "error"} \/ "crash" \in Faults
<1>1. Idle \in Cmd /\ Idle.pc = "idle"
  BY DEF Idle, Cmd
<1>2. cmd' = [cmd EXCEPT ![p] = Idle] /\ UNCHANGED <<os, foreign, records>>
  BY DEF Finish, Crash
<1>3. QED
  BY <1>1, <1>2, Move DEF TInv, Finish, Crash, At

-----------------------------------------------------------------------------
(* What the system and other programs do.                                  *)

(* Only process i is another one than before.                              *)
OnlyMoved(i) == /\ os' \in [Pid -> Process]
                /\ \A j \in Pid : j # i => os'[j] = os[j]

LEMMA BindEffect ==
    ASSUME TInv, NEW i \in Pid, Bind(i)
    PROVE  /\ UNCHANGED <<foreign, records, cmd>> /\ Unmoved
           /\ \A j \in Pid : os'[j].sig = os[j].sig /\ os'[j].told = os[j].told
<1> DEFINE new == [os[i] EXCEPT !.bound = TRUE]
<1>1. /\ new \in Process /\ new.kind = os[i].kind
      /\ new.machine = os[i].machine /\ new.addr = os[i].addr
      /\ new.ports = os[i].ports /\ new.told = os[i].told
      /\ new.sig = os[i].sig
  BY DEF TInv, TypeOK, Process
<1>2. os' = [os EXCEPT ![i] = new] /\ UNCHANGED <<foreign, records, cmd>>
  BY DEF Bind
<1> HIDE DEF new
<1>3. QED
  BY <1>1, <1>2 DEF TInv, TypeOK, Unmoved

LEMMA ExitEffect ==
    ASSUME TInv, NEW i \in Pid, Exit(i)
    PROVE  /\ UNCHANGED <<foreign, records, cmd>> /\ OnlyMoved(i)
           /\ os'[i].kind = "free"
<1>1. Free \in Process /\ Free.kind = "free"
  BY DEF Free, Process
<1>2. QED
  BY <1>1 DEF Exit, TInv, TypeOK, OnlyMoved

LEMMA RecycleEffect ==
    ASSUME TInv, NEW i \in Pid, Recycle(i)
    PROVE  /\ UNCHANGED <<foreign, records, cmd>> /\ OnlyMoved(i) /\ Unused(i)
           /\ os'[i].sig = os[i].sig
           /\ \/ os'[i].kind = "other"
              \/ os'[i].kind = "session" /\ "session" \in Faults
<1>1. UNCHANGED <<foreign, records, cmd>> /\ Unused(i) /\ os[i] \in Process
  BY DEF Recycle, TInv, TypeOK
<1>2. CASE os' = [os EXCEPT ![i].kind = "other"]
  <2> DEFINE new == [os[i] EXCEPT !.kind = "other"]
  <2>1. new \in Process /\ new.kind = "other" /\ new.sig = os[i].sig
    BY <1>1 DEF Process
  <2>2. os' = [os EXCEPT ![i] = new]
    BY <1>2
  <2> HIDE DEF new
  <2>3. QED
    BY <1>1, <2>1, <2>2 DEF TInv, TypeOK, OnlyMoved
<1>3. CASE /\ "session" \in Faults
           /\ \E m \in Machine :
                os' = [os EXCEPT ![i].kind = "session", ![i].machine = m]
  <2>1. PICK m \in Machine :
               os' = [os EXCEPT ![i].kind = "session", ![i].machine = m]
    BY <1>3
  <2> DEFINE new == [os[i] EXCEPT !.kind = "session", !.machine = m]
  <2>2. new \in Process /\ new.kind = "session" /\ new.sig = os[i].sig
    BY <1>1 DEF Process
  <2>3. os' = [os EXCEPT ![i] = new]
    BY <2>1
  <2> HIDE DEF new
  <2>4. QED
    BY <1>1, <1>3, <2>2, <2>3 DEF TInv, TypeOK, OnlyMoved
<1>4. QED
  BY <1>2, <1>3 DEF Recycle

-----------------------------------------------------------------------------
(* Types, whatever runs at the same time and whatever goes wrong.          *)

LEMMA InitTypes == Init => TInv
BY DEF Init, TInv, TypeOK, Called, Free, Process, Idle, Stopping

LEMMA RequestParts ==
    ASSUME TInv, NEW p \in Proc, cmd[p].pc # "idle"
    PROVE  /\ cmd[p].req \in Request /\ cmd[p].req \in RequestType
           /\ M(p) \in Machine /\ cmd[p].req.addr \in Address
           /\ cmd[p].req.want \in SUBSET Port
           /\ cmd[p].req.op = "remove" => cmd[p].req.want = {}
           /\ cmd[p].req.op \in {"remove", "reconcile"}
<1>1. cmd[p].req \in Request /\ cmd[p].req \in RequestType
  BY ConstantAssumption DEF TInv, Called
<1>2. QED
  BY <1>1 DEF RequestType, M

LEMMA KeptType ==
    ASSUME TInv, NEW p \in Proc, cmd[p].pc # "idle" PROVE Kept(p) \in Record
BY CmdType, RequestParts DEF TInv, Cmd, Kept, Record

LEMMA QuietTypes ==
    ASSUME TInv, NEW p \in Proc, Quiet(p, Steps), cmd[p].pc # "idle",
           cmd'[p].pc \in Stopping \ {"stop"} => cmd[p].pid \in Pid
    PROVE  TInv'
BY RequestParts, TypesAgain DEF TInv, TypeOK, Quiet, Same, SameWork

LEMMA StepTypes == ASSUME TInv, NEW p \in Proc, Step(p) PROVE TInv'
<1>1. cmd[p] \in Cmd /\ NoPid \notin Pid
  BY CmdType, ConstantAssumption DEF TInv
<1>2. CASE Load(p)
  <2>1. cmd'[p].pc \notin Stopping \ {"stop"}
    BY <1>2, LoadEffect DEF Stopping, AfterOld
  <2>2. QED
    BY <1>2, <2>1, LoadEffect, RequestParts, TypesAgain DEF TInv, TypeOK
<1>3. CASE Inspect(p)
  BY <1>3, InspectEffect, StepNames, QuietTypes DEF Quiet
<1>4. CASE Stopped(p)
  BY <1>4, StoppedEffect, StepNames, QuietTypes DEF Quiet
<1>5. CASE StillThere(p)
  BY <1>1, <1>5, StillThereEffect, StepNames, QuietTypes DEF Quiet, Marked, Cmd
<1>6. CASE Term(p) \/ Kill(p)
  <2>1. PICK from \in {"term", "kill"}, sig \in {"TERM", "KILL"},
             to \in {"awaitTerm", "awaitKill"} : Deliver(p, from, sig, to)
    BY <1>6 DEF Term, Kill
  <2>2. cmd[p].pid \in Pid /\ cmd[p].pc # "idle"
    BY <2>1, DeliverEffect DEF TInv, Called, Stopping
  <2>3. QED
    BY <2>1, <2>2, DeliverEffect, RequestParts, TypesAgain
       DEF TInv, TypeOK, Unmoved, Same, SameWork
<1>7. CASE Outlived(p)
  <2>1. cmd[p].pid \in Pid /\ cmd[p].pc # "idle"
    BY <1>1, <1>7, OutlivedEffect DEF Marked, Cmd
  <2>2. QED
    BY <1>7, <2>1, OutlivedEffect, RequestParts, TypesAgain
       DEF TInv, TypeOK, Unmoved, Same, SameWork
<1>8. CASE Delete(p)
  <2>1. cmd'[p].pc \notin Stopping \ {"stop"}
    BY <1>8, DeleteEffect DEF Stopping, AfterOld
  <2>2. records' \in [Machine -> Record \cup {NoRecord}]
    BY <1>8, DeleteEffect DEF TInv, TypeOK
  <2>3. QED
    BY <1>8, <2>1, <2>2, DeleteEffect, RequestParts, TypesAgain
       DEF TInv, TypeOK
<1>9. CASE Probe(p)
  BY <1>9, ProbeEffect, RequestParts, TypesAgain DEF TInv, TypeOK, Stopping
<1>10. CASE ProbedAll(p)
  BY <1>10, ProbedAllEffect, StepNames, QuietTypes DEF Quiet
<1>11. CASE Start(p)
  <2>1. cmd'[p].pc \in {"save", "error"} /\ cmd[p].pc # "idle"
    BY <1>11, StartEffect
  <2>2. os' \in [Pid -> Process]
    BY <1>11, <2>1, StartEffect, LaunchEffect, RequestParts DEF TInv, TypeOK
  <2>3. QED
    BY <1>11, <2>1, <2>2, StartEffect, RequestParts, TypesAgain
       DEF TInv, TypeOK, Stopping
<1>12. CASE Save(p)
  <2>1. cmd'[p].pc \in {"ok", "error", "stop"} /\ cmd[p].pc # "idle"
    BY <1>12, SaveEffect
  <2>2. records' \in [Machine -> Record \cup {NoRecord}]
    BY <1>12, <2>1, SaveEffect, KeptType DEF TInv, TypeOK
  <2>3. QED
    BY <1>12, <2>1, <2>2, SaveEffect, RequestParts, TypesAgain
       DEF TInv, TypeOK, Stopping, SameWork
<1>13. CASE Finish(p)
  BY <1>13, LeaveEffect, TypesAgain DEF TInv, TypeOK, Stopping
<1>14. QED
  BY <1>2, <1>3, <1>4, <1>5, <1>6, <1>7, <1>8, <1>9, <1>10, <1>11, <1>12,
     <1>13 DEF Step

LEMMA NextTypes == ASSUME TInv, [Next]_vars PROVE TInv'
<1>1. ASSUME UNCHANGED cmd, os' \in [Pid -> Process],
             foreign' \in SUBSET Port,
             records' \in [Machine -> Record \cup {NoRecord}]
      PROVE  TInv'
  BY <1>1 DEF TInv, TypeOK, Called
<1>2. ASSUME NEW p \in Proc, Call(p) PROVE TInv'
  BY <1>2, CallEffect, TypesAgain DEF TInv, TypeOK, Stopping
<1>3. ASSUME NEW p \in Proc, Crash(p) PROVE TInv'
  BY <1>3, LeaveEffect, TypesAgain DEF TInv, TypeOK, Stopping
<1>4. ASSUME NEW i \in Pid, Bind(i) PROVE TInv'
  BY <1>1, <1>4, BindEffect DEF TInv, TypeOK, Unmoved
<1>5. ASSUME NEW i \in Pid, Exit(i) \/ Recycle(i) PROVE TInv'
  BY <1>1, <1>5, ExitEffect, RecycleEffect DEF TInv, TypeOK, OnlyMoved
<1>6. CASE Listen
  BY <1>1, <1>6 DEF Listen, TInv, TypeOK
<1>7. CASE UNCHANGED vars
  BY <1>1, <1>7 DEF vars, TInv, TypeOK
<1>8. QED
  BY <1>2, <1>3, <1>4, <1>5, <1>6, <1>7, StepTypes DEF Next

THEOREM TypeInvariant == Spec => []TInv
BY InitTypes, NextTypes, PTL DEF Spec

(* The variables keep their types, however many commands run at once.      *)
THEOREM TypeCorrect == Spec => []TypeOK
<1>1. TInv => TypeOK
  BY DEF TInv
<1>2. QED
  BY <1>1, TypeInvariant, PTL

-----------------------------------------------------------------------------
(* Who is signalled, whatever runs at the same time.                       *)

LEMMA InitAims == Init => Aims
BY DEF Init, Aims, Idle

(* A process ID changes hands only when its process is gone.               *)
LEMMA OneProcessMoves ==
    ASSUME TInv, [Next]_vars
    PROVE  \/ Unmoved
           \/ \E i \in Pid : OnlyMoved(i) /\ (os'[i].kind = "free" \/ Unused(i))
<1>1. CASE UNCHANGED os
  BY <1>1 DEF TInv, TypeOK, Unmoved
<1>2. ASSUME NEW i \in Pid, Bind(i) \/ Exit(i) \/ Recycle(i)
      PROVE  Unmoved \/ (OnlyMoved(i) /\ (os'[i].kind = "free" \/ Unused(i)))
  BY <1>2, BindEffect, ExitEffect, RecycleEffect
<1>3. ASSUME NEW p \in Proc, Term(p) \/ Kill(p) \/ Outlived(p)
      PROVE  Unmoved
  BY <1>3, DeliverEffect, OutlivedEffect DEF Term, Kill
<1>4. ASSUME NEW p \in Proc, Start(p)
      PROVE  UNCHANGED os \/ \E i \in Pid : OnlyMoved(i) /\ Unused(i)
  BY <1>4, StartEffect, LaunchEffect, RequestParts DEF OnlyMoved
<1>5. ASSUME NEW p \in Proc,
             Call(p) \/ Crash(p) \/ Load(p) \/ Inspect(p) \/ Stopped(p)
               \/ StillThere(p) \/ Delete(p) \/ Probe(p) \/ ProbedAll(p)
               \/ Save(p) \/ Finish(p)
      PROVE  UNCHANGED os
  BY <1>5 DEF Call, Crash, Load, Inspect, Stopped, StillThere, Delete, Probe,
              ProbedAll, Save, Finish
<1>6. QED
  BY <1>1, <1>2, <1>3, <1>4, <1>5 DEF Next, Step, Listen, vars

(* What was aimed at stays what it was or ends.                            *)
LEMMA StillAimed ==
    ASSUME TInv, NoRace, Aims, [Next]_vars, NEW q \in Proc,
           cmd'[q] = cmd[q], cmd[q].pc \in {"term", "kill"}
    PROVE  os'[cmd[q].pid].kind = "free" \/ Marked(cmd[q].pid, M(q))'
<1> DEFINE i == cmd[q].pid
<1>1. /\ i \in Pid /\ Aimed(i)
      /\ os[i].kind = "free" \/ Marked(i, M(q))
  BY DEF TInv, Called, Stopping, Aimed, Aims
<1>2. ~ Unused(i)
  BY <1>1 DEF Unused, NoRace
<1>3. CASE Unmoved
  BY <1>1, <1>3 DEF Unmoved, Marked, M
<1>4. CASE \E j \in Pid : OnlyMoved(j) /\ (os'[j].kind = "free" \/ Unused(j))
  BY <1>1, <1>2, <1>4 DEF OnlyMoved, Marked, M
<1>5. QED
  BY <1>3, <1>4, OneProcessMoves

(* A command comes to aim only by having just looked.                      *)
LEMMA NewlyAimed ==
    ASSUME TInv, NEW p \in Proc, Call(p) \/ Step(p) \/ Crash(p),
           cmd'[p].pc \in {"term", "kill"}
    PROVE  Same(p) /\ Marked(cmd[p].pid, M(p)) /\ UNCHANGED os
<1>1. StillThere(p) \/ Outlived(p)
  BY CallEffect, LoadEffect, InspectEffect, StoppedEffect, DeliverEffect,
     DeleteEffect, ProbeEffect, ProbedAllEffect, StartEffect, SaveEffect,
     LeaveEffect
     DEF Step, Quiet, Term, Kill, AfterOld
<1>2. QED
  BY <1>1, StillThereEffect, OutlivedEffect DEF Quiet

LEMMA Mover ==
    ASSUME TInv, NEW p \in Proc, Call(p) \/ Step(p) \/ Crash(p)
    PROVE  Moved(p)
BY CallEffect, LoadEffect, InspectEffect, StoppedEffect, StillThereEffect,
   DeliverEffect, OutlivedEffect, DeleteEffect, ProbeEffect, ProbedAllEffect,
   StartEffect, SaveEffect, LeaveEffect DEF Step, Quiet, Term, Kill

LEMMA NextAims ==
    ASSUME TInv, NoRace, Aims, [Next]_vars PROVE Aims'
<1> SUFFICES ASSUME NEW q \in Proc, cmd'[q].pc \in {"term", "kill"}
             PROVE  os'[cmd'[q].pid].kind = "free" \/ Marked(cmd[q].pid, M(q))'
  BY DEF Aims
<1>1. CASE cmd'[q] = cmd[q]
  BY <1>1, StillAimed
<1>2. CASE cmd'[q] # cmd[q]
  <2>1. \E p \in Proc : Call(p) \/ Step(p) \/ Crash(p)
    BY <1>2 DEF Next, Bind, Exit, Recycle, Listen, vars
  <2>2. PICK p \in Proc : Call(p) \/ Step(p) \/ Crash(p)
    BY <2>1
  <2>3. p = q
    BY <1>2, <2>2, Mover DEF Moved
  <2>4. Same(q) /\ Marked(cmd[q].pid, M(q)) /\ UNCHANGED os
    BY <2>2, <2>3, NewlyAimed
  <2>5. QED
    BY <2>4 DEF Marked, M, Same, SameWork
<1>3. QED
  BY <1>1, <1>2

THEOREM AimsInvariant == NoRace => (Spec => [](TInv /\ Aims))
<1> SUFFICES ASSUME NoRace PROVE Spec => [](TInv /\ Aims)
  OBVIOUS
<1>1. Init => TInv /\ Aims
  BY InitTypes, InitAims
<1>2. TInv /\ Aims /\ [Next]_vars => (TInv /\ Aims)'
  BY NextTypes, NextAims
<1>3. QED
  BY <1>1, <1>2, PTL DEF Spec

(* Only a command that aims at a process signals it.                       *)
LEMMA SignalEffect ==
    ASSUME TInv, [Next]_vars, NEW i \in Pid, Signalled(i)
    PROVE  \E p \in Proc : /\ cmd[p].pc \in {"term", "kill"}
                          /\ cmd[p].pid = i /\ os[i].kind # "free"
<1>1. os'[i].sig # os[i].sig /\ os'[i].kind # "free"
  BY DEF Signalled
<1>2. ASSUME NEW j \in Pid, Bind(j) \/ Exit(j) \/ Recycle(j)
      PROVE  FALSE
  BY <1>1, <1>2, BindEffect, ExitEffect, RecycleEffect DEF OnlyMoved
<1>3. ASSUME NEW p \in Proc, Term(p) \/ Kill(p)
      PROVE  /\ cmd[p].pc \in {"term", "kill"}
             /\ cmd[p].pid = i /\ os[i].kind # "free"
  BY <1>1, <1>3, DeliverEffect DEF Term, Kill
<1>4. ASSUME NEW p \in Proc, Outlived(p) \/ Start(p)
      PROVE  FALSE
  <2>1. CASE Outlived(p)
    BY <1>1, <2>1, OutlivedEffect
  <2>2. CASE Start(p)
    <3>1. PICK j \in Pid : Launch(p, j)
      BY <1>1, <2>2, StartEffect
    <3>2. os[j].sig = "none" /\ os'[j].sig = "none"
      BY <2>2, <3>1, StartEffect, LaunchEffect, RequestParts DEF Unused, Free
    <3>3. QED
      BY <1>1, <2>2, <3>1, <3>2, StartEffect, LaunchEffect, RequestParts
  <2>3. QED
    BY <1>4, <2>1, <2>2
<1>5. UNCHANGED os => FALSE
  BY <1>1
<1>6. ASSUME NEW p \in Proc,
             Call(p) \/ Crash(p) \/ Load(p) \/ Inspect(p) \/ Stopped(p)
               \/ StillThere(p) \/ Delete(p) \/ Probe(p) \/ ProbedAll(p)
               \/ Save(p) \/ Finish(p)
      PROVE  UNCHANGED os
  BY <1>6 DEF Call, Crash, Load, Inspect, Stopped, StillThere, Delete, Probe,
              ProbedAll, Save, Finish
<1>7. QED
  BY <1>2, <1>3, <1>4, <1>5, <1>6 DEF Next, Step, Listen, vars

(* Whatever goes wrong, and however many commands run at once, a signal    *)
(* goes to a process that carries the name of the command's machine        *)
(* (Stop and isMarkedProcess), if no ID is reused between the look at ps   *)
(* and the signal.                                                         *)
THEOREM SignalsOnlyMarked == NoRace => (Spec => OnlyMarkedSignalled)
<1> SUFFICES ASSUME NoRace PROVE Spec => OnlyMarkedSignalled
  OBVIOUS
<1> DEFINE Marks == \A i \in Pid : Signalled(i) =>
                      \E p \in Proc : cmd[p].pid = i /\ Marked(i, M(p))
<1>1. TInv /\ Aims /\ [Next]_vars => [Marks]_vars
  BY SignalEffect DEF Aims
<1>2. QED
  BY <1>1, AimsInvariant, PTL DEF Spec, OnlyMarkedSignalled

(* Only Recycle makes a session of the user's out of a process ID.         *)
LEMMA NextNoSession ==
    ASSUME "session" \notin Faults, TInv, NoSession, [Next]_vars
    PROVE  NoSession'
<1>1. ASSUME NEW p \in Proc, Call(p) \/ Step(p) \/ Crash(p)
      PROVE  NoSession'
  <2>1. CASE Start(p)
    BY <2>1, StartEffect, LaunchEffect, RequestParts DEF NoSession
  <2>2. CASE UNCHANGED os \/ Unmoved
    BY <2>2 DEF NoSession, Unmoved
  <2>3. QED
    BY <1>1, <2>1, <2>2, CallEffect, LoadEffect, InspectEffect, StoppedEffect,
       StillThereEffect, DeliverEffect, OutlivedEffect, DeleteEffect,
       ProbeEffect, ProbedAllEffect, SaveEffect, LeaveEffect
       DEF Step, Term, Kill, Quiet
<1>2. CASE Listen \/ UNCHANGED vars
  BY <1>2 DEF Listen, vars, NoSession
<1>3. ASSUME NEW i \in Pid, Bind(i) \/ Exit(i) \/ Recycle(i)
      PROVE  NoSession'
  <2>1. CASE Bind(i)
    BY <2>1, BindEffect DEF NoSession, Unmoved
  <2>2. CASE Exit(i) \/ Recycle(i)
    BY <2>2, ExitEffect, RecycleEffect DEF NoSession, OnlyMoved
  <2>3. QED
    BY <1>3, <2>1, <2>2
<1>4. QED
  BY <1>1, <1>2, <1>3 DEF Next

(* ... and where no program of the user's that names the machine gets the  *)
(* ID, it goes only to a tunnel, and one of the command's own machine: an  *)
(* ID that went to another program is left alone (isMarkedProcess).        *)
THEOREM SignalsOnlyTunnels ==
    NoRace /\ "session" \notin Faults => (Spec => OnlyTunnelsSignalled)
<1> SUFFICES ASSUME NoRace, "session" \notin Faults
             PROVE  Spec => OnlyTunnelsSignalled
  OBVIOUS
<1> DEFINE Hits == \A i \in Pid : Signalled(i) =>
                     /\ os[i].kind = "tunnel"
                     /\ \E p \in Proc : cmd[p].pid = i /\ M(p) = os[i].machine
<1>1. Init => TInv /\ Aims /\ NoSession
  BY InitTypes, InitAims DEF Init, NoSession, Free
<1>2. TInv /\ Aims /\ NoSession /\ [Next]_vars => (TInv /\ Aims /\ NoSession)'
  BY NextTypes, NextAims, NextNoSession
<1>3. TInv /\ Aims /\ NoSession /\ [Next]_vars => [Hits]_vars
  BY SignalEffect DEF Aims, NoSession, Marked
<1>4. QED
  BY <1>1, <1>2, <1>3, PTL DEF Spec, OnlyTunnelsSignalled

-----------------------------------------------------------------------------
(* Commands of one project one after the other, which can run ps; commands *)
(* of different projects run together, and any may be killed. What a       *)
(* command knows of the records and of its own tunnel.                     *)

LEMMA InitKnown == Init => KInv
BY DEF Init, KInv, Reasons, Loaded, Making, Truthful, NoSession, Idle,
       Stopping, Replacing, Beginning, Holding, Free

(* No new tunnel of the machine: those that are left are the ones there    *)
(* were, and a report of one stands.                                       *)
FewerOf(m) == \A i \in Tunnels(m)' :
    /\ i \in Tunnels(m)
    /\ os'[i].addr = os[i].addr /\ os'[i].ports = os[i].ports
    /\ os[i].told => os'[i].told

Fewer == \A m \in Machine : FewerOf(m)

LEMMA FewerIf ==
    ASSUME TInv, NoSession,
           \/ UNCHANGED os \/ Unmoved
           \/ \E i \in Pid : OnlyMoved(i) /\ os'[i].kind \in {"free", "other"}
    PROVE  Fewer /\ NoSession'
BY DEF Fewer, FewerOf, NoSession, Tunnels, Unmoved, OnlyMoved

LEMMA TruthfulAgain ==
    ASSUME Truthful, Fewer, UNCHANGED records PROVE Truthful'
BY DEF Truthful, Fewer, FewerOf

(* What p does is none of the other machines' business.                    *)
Elsewhere(p) ==
    /\ Moved(p)
    /\ \A m \in Machine : \/ records'[m] = records[m] /\ FewerOf(m)
                          \/ cmd[p].pc # "idle" /\ m = M(p)

LEMMA ElsewhereIf ==
    ASSUME NEW p \in Proc, Moved(p), Fewer, UNCHANGED records
    PROVE  Elsewhere(p)
BY DEF Elsewhere, Fewer

(* Where a command neither moves nor is disturbed, what it knows stands.   *)
LEMMA Undisturbed ==
    ASSUME TInv, NEW q \in Proc, Reasons(q), Loaded(q), Making(q),
           cmd'[q] = cmd[q],
           cmd[q].pc # "idle" => records'[M(q)] = records[M(q)] /\ FewerOf(M(q))
    PROVE  Reasons(q)' /\ Loaded(q)' /\ Making(q)'
<1>1. M(q)' = M(q)
  BY DEF M
<1>2. /\ Replacing(q)' = Replacing(q) /\ Beginning(q)' = Beginning(q)
      /\ Holding(q)' = Holding(q)
  BY DEF Replacing, Beginning, Holding
<1>3. Reasons(q)'
  BY DEF Reasons
<1>4. ASSUME cmd[q].pc # "idle"
      PROVE  /\ records'[M(q)'] = records[M(q)]
             /\ \A i \in Tunnels(M(q))' :
                  /\ i \in Tunnels(M(q))
                  /\ os'[i].addr = os[i].addr /\ os'[i].ports = os[i].ports
  BY <1>1, <1>4 DEF FewerOf, Tunnels
<1>5. Loaded(q)'
  <2> SUFFICES ASSUME Replacing(q)
               PROVE  /\ records'[M(q)'] # NoRecord
                      /\ cmd[q].old = records'[M(q)']
                      /\ cmd[q].pid = records'[M(q)'].pid
                      /\ cmd[q].pc = "inspect" => cmd[q].req.op = "reconcile"
                      /\ cmd[q].pc = "delete" =>
                           cmd[q].pid \notin Tunnels(M(q))'
                      /\ /\ cmd[q].pc \in Stopping
                         /\ cmd[q].req.op = "reconcile"
                         /\ Matches(cmd[q].old, cmd[q].req)
                         => cmd[q].pid \notin Tunnels(M(q))'
    BY <1>2 DEF Loaded, Matches
  <2>1. cmd[q].pc # "idle"
    BY DEF Replacing, Stopping
  <2>2. QED
    BY <1>4, <2>1 DEF Loaded
<1>6. Making(q)'
  <2> SUFFICES ASSUME Beginning(q) \/ Holding(q)
               PROVE  /\ records'[M(q)'] = NoRecord
                      /\ cmd[q].req.op = "reconcile" /\ cmd[q].req.want # {}
                      /\ Beginning(q) => cmd[q].pid = NoPid
                      /\ cmd[q].pc = "start" \/ Holding(q) =>
                           cmd[q].fwd \cup cmd[q].unfwd = cmd[q].req.want
                      /\ Holding(q) /\ cmd[q].pid \in Tunnels(M(q))' =>
                           /\ os'[cmd[q].pid].addr = cmd[q].req.addr
                           /\ os'[cmd[q].pid].ports = cmd[q].fwd
    BY <1>2 DEF Making
  <2>1. cmd[q].pc # "idle"
    BY DEF Beginning, Holding, Stopping
  <2>2. QED
    BY <1>4, <2>1 DEF Making
<1>7. QED
  BY <1>3, <1>5, <1>6

(* The part of the invariant that speaks of the command that moves; the    *)
(* others are about other machines.                                        *)
LEMMA CommandAgain ==
    ASSUME Apart, TInv, KInv, NEW p \in Proc, Elsewhere(p),
           Truthful', NoSession',
           /\ cmd'[p].pc \in {"inspect", "delete"} => cmd'[p].why = "stale"
           /\ cmd'[p].pc \in Stopping => cmd'[p].why \in {"stale", "unsaved"}
           /\ cmd'[p].pc \in {"load", "probe", "start", "save"} =>
                cmd'[p].why = "none"
           /\ cmd'[p].pc = "load" =>
                cmd'[p].pid = NoPid /\ cmd'[p].fwd = {} /\ cmd'[p].unfwd = {},
           Replacing(p)' =>
             /\ records'[M(p)'] # NoRecord
             /\ cmd'[p].old = records'[M(p)']
             /\ cmd'[p].pid = records'[M(p)'].pid
             /\ cmd'[p].pc = "inspect" => cmd'[p].req.op = "reconcile"
             /\ cmd'[p].pc = "delete" => cmd'[p].pid \notin Tunnels(M(p))'
             /\ /\ cmd'[p].pc \in Stopping /\ cmd'[p].req.op = "reconcile"
                /\ Matches(cmd'[p].old, cmd'[p].req)
                => cmd'[p].pid \notin Tunnels(M(p))',
           Beginning(p)' \/ Holding(p)' =>
             /\ records'[M(p)'] = NoRecord
             /\ cmd'[p].req.op = "reconcile" /\ cmd'[p].req.want # {}
             /\ Beginning(p)' => cmd'[p].pid = NoPid
             /\ cmd'[p].pc = "start" \/ Holding(p)' =>
                  cmd'[p].fwd \cup cmd'[p].unfwd = cmd'[p].req.want
             /\ Holding(p)' /\ cmd'[p].pid \in Tunnels(M(p))' =>
                  /\ os'[cmd'[p].pid].addr = cmd'[p].req.addr
                  /\ os'[cmd'[p].pid].ports = cmd'[p].fwd
    PROVE  KInv'
<1>1. Reasons(p)'
  BY DEF Reasons
<1>2. Loaded(p)'
  BY DEF Loaded, Matches
<1>3. Making(p)'
  BY DEF Making
<1>4. ASSUME NEW q \in Proc, q # p
      PROVE  Reasons(q)' /\ Loaded(q)' /\ Making(q)'
  <2>1. Reasons(q) /\ Loaded(q) /\ Making(q) /\ cmd'[q] = cmd[q]
    BY <1>4 DEF KInv, Elsewhere, Moved
  <2>2. cmd[q].pc # "idle" => records'[M(q)] = records[M(q)] /\ FewerOf(M(q))
    <3> SUFFICES ASSUME cmd[q].pc # "idle"
                 PROVE  records'[M(q)] = records[M(q)] /\ FewerOf(M(q))
      OBVIOUS
    <3>1. M(q) \in Machine
      BY RequestParts DEF M
    <3>2. ~ (cmd[p].pc # "idle" /\ M(q) = M(p))
      BY <1>4 DEF Apart, At
    <3>3. QED
      BY <3>1, <3>2 DEF Elsewhere
  <2>3. QED
    BY <2>1, <2>2, Undisturbed
<1>5. QED
  BY <1>1, <1>2, <1>3, <1>4 DEF KInv

(* The world moves, no command does.                                       *)
LEMMA WorldKnown ==
    ASSUME TInv, KInv, Fewer, NoSession', UNCHANGED <<records, cmd>>
    PROVE  KInv'
<1>1. Truthful'
  BY TruthfulAgain DEF KInv
<1>2. ASSUME NEW q \in Proc PROVE Reasons(q)' /\ Loaded(q)' /\ Making(q)'
  <2>1. cmd[q].pc # "idle" => M(q) \in Machine
    BY RequestParts DEF M
  <2>2. QED
    BY <2>1, Undisturbed DEF KInv, Fewer
<1>3. QED
  BY <1>1, <1>2 DEF KInv

LEMMA SystemMoves ==
    ASSUME Visible, TInv, KInv, NEW i \in Pid,
           Bind(i) \/ Exit(i) \/ Recycle(i)
    PROVE  Fewer /\ NoSession' /\ UNCHANGED <<records, cmd>>
<1>1. NoSession /\ "session" \notin Faults
  BY DEF KInv, Visible
<1>2. UNCHANGED <<records, cmd>>
  BY BindEffect, ExitEffect, RecycleEffect
<1>3. Unmoved \/ (OnlyMoved(i) /\ os'[i].kind \in {"free", "other"})
  BY <1>1, BindEffect, ExitEffect, RecycleEffect
<1>4. QED
  BY <1>1, <1>2, <1>3, FewerIf

(* The parts of a running command.                                         *)
LEMMA OfCommand ==
    ASSUME TInv, NEW p \in Proc, cmd[p].pc # "idle"
    PROVE  /\ M(p) \in Machine /\ NoPid \notin Pid
           /\ cmd[p].pid \in Pid \cup {NoPid}
           /\ cmd[p].pid \notin Pid => cmd[p].pid \notin Tunnels(M(p))
           /\ ~ Marked(cmd[p].pid, M(p)) => cmd[p].pid \notin Tunnels(M(p))
<1>1. M(p) \in Machine /\ NoPid \notin Pid /\ cmd[p].pid \in Pid \cup {NoPid}
  BY RequestParts, CmdType, ConstantAssumption DEF TInv, Cmd
<1>2. ~ Marked(cmd[p].pid, M(p)) => cmd[p].pid \notin Tunnels(M(p))
  BY <1>1 DEF Marked, Tunnels
<1>3. QED
  BY <1>1, <1>2 DEF Tunnels

(* The steps that leave the world and the records alone.                   *)
LEMMA StandKnown ==
    ASSUME TInv, KInv, UNCHANGED <<os, records>>, NEW p \in Proc, Moved(p)
    PROVE  Fewer /\ Elsewhere(p) /\ Truthful' /\ NoSession'
BY FewerIf, ElsewhereIf, TruthfulAgain DEF KInv

(* A call that has returned, or never ran, promises nothing.               *)
LEMMA OverKnown ==
    ASSUME Apart, TInv, KInv, NEW p \in Proc, Elsewhere(p),
           Truthful', NoSession', cmd'[p].pc \in {"idle", "ok", "error"}
    PROVE  KInv'
<1>1. ~ Replacing(p)' /\ ~ Beginning(p)' /\ ~ Holding(p)'
  BY DEF Replacing, Beginning, Holding, Stopping
<1>2. QED
  BY <1>1, CommandAgain DEF Stopping


LEMMA LoadKnown ==
    ASSUME Apart, TInv, KInv, NEW p \in Proc, Call(p) \/ Load(p)
    PROVE  KInv'
<1>1. Moved(p) /\ UNCHANGED <<os, records>>
  BY CallEffect, LoadEffect
<1>2. Elsewhere(p) /\ Truthful' /\ NoSession'
  BY <1>1, StandKnown
<1>3. CASE Call(p)
  <2>1. /\ cmd'[p].pc = "load" /\ cmd'[p].why = "none" /\ cmd'[p].pid = NoPid
        /\ cmd'[p].fwd = {} /\ cmd'[p].unfwd = {}
    BY <1>3, CallEffect
  <2>2. ~ Replacing(p)' /\ ~ Beginning(p)' /\ ~ Holding(p)'
    BY <2>1 DEF Replacing, Beginning, Holding, Stopping
  <2>3. QED
    BY <1>2, <2>1, <2>2, CommandAgain DEF Stopping
<1>4. CASE Load(p)
  <2>1. /\ cmd[p].pc = "load" /\ cmd[p].why = "none" /\ cmd[p].pid = NoPid
        /\ cmd'[p].req = cmd[p].req /\ M(p)' = M(p)
    BY <1>4, LoadEffect DEF KInv, Reasons, M
  <2>2. CASE /\ records[M(p)] = NoRecord
             /\ Same(p) /\ cmd'[p].pc = AfterOld(p)
    <3>1. CASE cmd'[p].pc = "ok"
      BY <1>2, <3>1, OverKnown
    <3>2. CASE cmd'[p].pc = "probe"
      <4>1. cmd[p].req.op = "reconcile" /\ cmd[p].req.want # {}
        BY <2>1, <2>2, <3>2, RequestParts DEF AfterOld
      <4>2. ~ Replacing(p)' /\ Beginning(p)' /\ ~ Holding(p)'
        BY <3>2 DEF Replacing, Beginning, Holding, Stopping
      <4>3. cmd'[p].pid = NoPid /\ cmd'[p].why = "none"
        BY <2>1, <2>2 DEF Same, SameWork
      <4>4. QED
        BY <1>1, <1>2, <2>1, <2>2, <3>2, <4>1, <4>2, <4>3, CommandAgain
           DEF Stopping
    <3>3. QED
      BY <2>2, <3>1, <3>2 DEF AfterOld
  <2>3. CASE /\ records[M(p)] # NoRecord
             /\ cmd'[p].pc = IF cmd[p].req.op = "remove" THEN "stop"
                                                        ELSE "inspect"
             /\ cmd'[p].old = records[M(p)]
             /\ cmd'[p].pid = records[M(p)].pid
             /\ cmd'[p].why = "stale"
    <3>1. /\ cmd'[p].pc \in {"stop", "inspect"}
          /\ cmd'[p].pc = "inspect" <=> cmd[p].req.op = "reconcile"
      BY <2>1, <2>3, RequestParts
    <3>2. ~ Beginning(p)' /\ ~ Holding(p)'
      BY <2>3, <3>1 DEF Beginning, Holding
    <3>3. QED
      BY <1>1, <1>2, <2>1, <2>3, <3>1, <3>2, CommandAgain DEF Stopping
  <2>4. CASE cmd'[p].pc = "error"
    BY <1>2, <2>4, OverKnown
  <2>5. QED
    BY <1>4, <2>2, <2>3, <2>4, LoadEffect
<1>5. QED
  BY <1>3, <1>4

LEMMA InspectKnown ==
    ASSUME Apart, Visible, TInv, KInv, NEW p \in Proc, Inspect(p)
    PROVE  KInv'
<1>1. cmd[p].pc = "inspect" /\ Quiet(p, {"ok", "stop"}) /\ Replacing(p)
  BY InspectEffect DEF Replacing
<1>2. Elsewhere(p) /\ Truthful' /\ NoSession'
  BY <1>1, StandKnown DEF Quiet
<1>3. CASE cmd'[p].pc = "ok"
  BY <1>2, <1>3, OverKnown
<1>4. CASE cmd'[p].pc = "stop"
  <2>1. /\ records[M(p)] # NoRecord /\ cmd[p].why = "stale"
        /\ cmd[p].old = records[M(p)] /\ cmd[p].pid = records[M(p)].pid
    BY <1>1 DEF KInv, Loaded, Reasons
  <2>2. Matches(cmd[p].old, cmd[p].req) => cmd[p].pid \notin Tunnels(M(p))
    BY <1>1, <1>4, InspectEffect, OfCommand DEF Visible
  <2>3. /\ UNCHANGED <<os, records>> /\ cmd'[p].req = cmd[p].req
        /\ cmd'[p].old = cmd[p].old /\ cmd'[p].pid = cmd[p].pid
        /\ cmd'[p].why = "stale" /\ M(p)' = M(p)
    BY <1>1, <2>1 DEF Quiet, Same, SameWork, M
  <2>4. Tunnels(M(p))' = Tunnels(M(p))
    BY <2>3 DEF Tunnels
  <2>5. ~ Beginning(p)' /\ ~ Holding(p)'
    BY <1>4, <2>3 DEF Beginning, Holding
  <2>6. QED
    BY <1>2, <1>4, <2>1, <2>2, <2>3, <2>4, <2>5, CommandAgain
       DEF Stopping, Matches
<1>5. QED
  BY <1>1, <1>3, <1>4 DEF Quiet

(* From one step of stopping a process to the next.                        *)
LEMMA StoppingKnown ==
    ASSUME Apart, TInv, KInv, NEW p \in Proc, Fewer, NoSession',
           UNCHANGED records, Moved(p), Same(p),
           cmd[p].pc \in Stopping, cmd'[p].pc \in Stopping
    PROVE  KInv'
<1>1. Elsewhere(p) /\ Truthful'
  BY ElsewhereIf, TruthfulAgain DEF KInv
<1>2. /\ M(p) \in Machine /\ M(p)' = M(p)
      /\ cmd'[p].req = cmd[p].req /\ cmd'[p].old = cmd[p].old
      /\ cmd'[p].fwd = cmd[p].fwd /\ cmd'[p].unfwd = cmd[p].unfwd
      /\ cmd'[p].pid = cmd[p].pid /\ cmd'[p].why = cmd[p].why
  BY OfCommand DEF Same, SameWork, M, Stopping
<1>3. \A i \in Tunnels(M(p))' :
           /\ i \in Tunnels(M(p))
           /\ os'[i].addr = os[i].addr /\ os'[i].ports = os[i].ports
  BY <1>2 DEF Fewer, FewerOf, Tunnels
<1>4. /\ Replacing(p)' <=> Replacing(p)
      /\ Holding(p)' <=> Holding(p)
      /\ ~ Beginning(p)'
  BY <1>2 DEF Replacing, Beginning, Holding, Stopping
<1>5. cmd'[p].pc \notin {"inspect", "delete", "load", "probe", "start", "save"}
  BY DEF Stopping
<1>6. Replacing(p) =>
        /\ records[M(p)] # NoRecord
        /\ cmd[p].old = records[M(p)] /\ cmd[p].pid = records[M(p)].pid
        /\ cmd[p].req.op = "reconcile" /\ Matches(cmd[p].old, cmd[p].req)
           => cmd[p].pid \notin Tunnels(M(p))
  BY DEF KInv, Loaded
<1>7. Holding(p) =>
        /\ records[M(p)] = NoRecord
        /\ cmd[p].req.op = "reconcile" /\ cmd[p].req.want # {}
        /\ cmd[p].fwd \cup cmd[p].unfwd = cmd[p].req.want
        /\ cmd[p].pid \in Tunnels(M(p)) =>
             /\ os[cmd[p].pid].addr = cmd[p].req.addr
             /\ os[cmd[p].pid].ports = cmd[p].fwd
  BY DEF KInv, Making
<1>8. cmd[p].why \in {"stale", "unsaved"}
  BY DEF KInv, Reasons
<1>9. Replacing(p)' =>
             /\ records'[M(p)'] # NoRecord
             /\ cmd'[p].old = records'[M(p)']
             /\ cmd'[p].pid = records'[M(p)'].pid
             /\ /\ cmd'[p].req.op = "reconcile"
                /\ Matches(cmd'[p].old, cmd'[p].req)
                => cmd'[p].pid \notin Tunnels(M(p))'
  BY <1>2, <1>3, <1>4, <1>6
<1>10. Holding(p)' =>
             /\ records'[M(p)'] = NoRecord
             /\ cmd'[p].req.op = "reconcile" /\ cmd'[p].req.want # {}
             /\ cmd'[p].fwd \cup cmd'[p].unfwd = cmd'[p].req.want
             /\ cmd'[p].pid \in Tunnels(M(p))' =>
                  /\ os'[cmd'[p].pid].addr = cmd'[p].req.addr
                  /\ os'[cmd'[p].pid].ports = cmd'[p].fwd
  BY <1>2, <1>3, <1>4, <1>7
<1>11. QED
  BY <1>1, <1>2, <1>4, <1>5, <1>8, <1>9, <1>10, CommandAgain

LEMMA StopKnown ==
    ASSUME Apart, Visible, TInv, KInv, NEW p \in Proc,
           Stopped(p) \/ StillThere(p) \/ Term(p) \/ Kill(p) \/ Outlived(p)
    PROVE  KInv'
<1>1. CASE Stopped(p)
  <2>1. /\ cmd[p].pc \in Stopping /\ UNCHANGED <<os, records>>
        /\ Moved(p) /\ Same(p)
        /\ cmd'[p].pc = IF cmd[p].why = "stale" THEN "delete" ELSE "error"
        /\ cmd[p].pid \notin Tunnels(M(p)) /\ M(p)' = M(p)
    BY <1>1, StoppedEffect, OfCommand
       DEF Quiet, Visible, Stopping, Same, SameWork, M
  <2>2. Elsewhere(p) /\ Truthful' /\ NoSession'
    BY <2>1, StandKnown
  <2>3. CASE cmd[p].why = "stale"
    <3>1. /\ records[M(p)] # NoRecord
          /\ cmd[p].old = records[M(p)] /\ cmd[p].pid = records[M(p)].pid
      BY <2>1, <2>3 DEF KInv, Loaded, Replacing
    <3>2. /\ cmd'[p].pc = "delete" /\ cmd'[p].why = "stale"
          /\ ~ Beginning(p)' /\ ~ Holding(p)'
      BY <2>1, <2>3 DEF Same, Beginning, Holding, Stopping
    <3>3. /\ cmd'[p].old = cmd[p].old /\ cmd'[p].pid = cmd[p].pid
          /\ Tunnels(M(p))' = Tunnels(M(p))
      BY <2>1 DEF Same, SameWork, Tunnels
    <3>4. QED
      BY <2>1, <2>2, <3>1, <3>2, <3>3, CommandAgain DEF Stopping
  <2>4. CASE cmd[p].why # "stale"
    BY <2>1, <2>2, <2>4, OverKnown
  <2>5. QED
    BY <2>3, <2>4
<1>2. CASE StillThere(p)
  <2>1. /\ UNCHANGED <<os, records>> /\ Moved(p) /\ Same(p)
        /\ cmd[p].pc \in Stopping /\ cmd'[p].pc \in Stopping
    BY <1>2, StillThereEffect DEF Quiet, Stopping
  <2>2. QED
    BY <2>1, FewerIf, StoppingKnown DEF KInv
<1>3. CASE Term(p) \/ Kill(p)
  <2>1. /\ Unmoved /\ UNCHANGED records /\ Moved(p) /\ Same(p)
        /\ cmd[p].pc \in Stopping /\ cmd'[p].pc \in Stopping
    BY <1>3, DeliverEffect DEF Term, Kill, Stopping
  <2>2. QED
    BY <2>1, FewerIf, StoppingKnown DEF KInv
<1>4. CASE Outlived(p)
  <2>1. /\ Unmoved /\ UNCHANGED records /\ Moved(p) /\ Same(p)
        /\ cmd[p].pc \in Stopping
    BY <1>4, OutlivedEffect DEF Stopping
  <2>2. Fewer /\ NoSession' /\ Elsewhere(p) /\ Truthful'
    BY <2>1, FewerIf, ElsewhereIf, TruthfulAgain DEF KInv
  <2>3. CASE cmd'[p].pc = "kill"
    BY <2>1, <2>2, <2>3, StoppingKnown DEF Stopping
  <2>4. CASE cmd'[p].pc = "error"
    BY <2>2, <2>4, OverKnown
  <2>5. QED
    BY <1>4, <2>3, <2>4, OutlivedEffect
<1>5. QED
  BY <1>1, <1>2, <1>3, <1>4

LEMMA DeleteKnown ==
    ASSUME Apart, TInv, KInv, NEW p \in Proc, Delete(p)
    PROVE  KInv'
<1>1. /\ cmd[p].pc = "delete" /\ UNCHANGED os /\ Moved(p)
      /\ cmd'[p].req = cmd[p].req /\ M(p) \in Machine /\ M(p)' = M(p)
  BY DeleteEffect, OfCommand DEF M
<1>2. Fewer /\ NoSession'
  BY <1>1, FewerIf DEF KInv
<1>3. CASE /\ records' = [records EXCEPT ![M(p)] = NoRecord]
           /\ cmd'[p].pc = AfterOld(p)
           /\ cmd'[p].pid = NoPid /\ cmd'[p].why = "none"
  <2>1. /\ records'[M(p)] = NoRecord
        /\ \A m \in Machine : m # M(p) => records'[m] = records[m]
    BY <1>1, <1>3 DEF TInv, TypeOK
  <2>2. Elsewhere(p) /\ Truthful'
    BY <1>1, <1>2, <2>1 DEF KInv, Truthful, Tunnels, Elsewhere, Fewer
  <2>3. CASE cmd'[p].pc = "ok"
    BY <1>2, <2>2, <2>3, OverKnown
  <2>4. CASE cmd'[p].pc = "probe"
    <3>1. cmd[p].req.op = "reconcile" /\ cmd[p].req.want # {}
      BY <1>1, <1>3, <2>4, RequestParts DEF AfterOld
    <3>2. ~ Replacing(p)' /\ Beginning(p)' /\ ~ Holding(p)'
      BY <2>4 DEF Replacing, Beginning, Holding, Stopping
    <3>3. QED
      BY <1>1, <1>2, <1>3, <2>1, <2>2, <2>4, <3>1, <3>2, CommandAgain
         DEF Stopping
  <2>5. QED
    BY <1>3, <2>3, <2>4 DEF AfterOld
<1>4. CASE cmd'[p].pc = "error" /\ UNCHANGED records
  BY <1>1, <1>4, StandKnown, OverKnown
<1>5. QED
  BY <1>3, <1>4, DeleteEffect

(* What a call knows before it has started anything.                       *)
LEMMA BeginningKnows ==
    ASSUME TInv, KInv, NEW p \in Proc, Beginning(p)
    PROVE  /\ M(p) \in Machine /\ cmd[p].pc # "idle"
           /\ ~ Holding(p) /\ cmd[p].why = "none"
           /\ records[M(p)] = NoRecord
           /\ cmd[p].req.op = "reconcile" /\ cmd[p].req.want # {}
           /\ cmd[p].pid = NoPid
           /\ cmd[p].pc = "start" =>
                cmd[p].fwd \cup cmd[p].unfwd = cmd[p].req.want
<1>1. cmd[p].pc \in {"probe", "start"} /\ cmd[p].pc # "idle" /\ ~ Holding(p)
  BY DEF Beginning, Holding, Stopping
<1>2. QED
  BY <1>1, OfCommand DEF KInv, Making, Reasons, Beginning

LEMMA ProbeKnown ==
    ASSUME Apart, TInv, KInv, NEW p \in Proc, Probe(p) \/ ProbedAll(p)
    PROVE  KInv'
<1>1. Beginning(p)
  BY ProbeEffect, ProbedAllEffect DEF Beginning
<1>2. /\ UNCHANGED <<os, records>> /\ Moved(p) /\ cmd'[p].req = cmd[p].req
      /\ cmd'[p].pid = NoPid /\ cmd'[p].why = "none" /\ M(p)' = M(p)
  BY <1>1, ProbeEffect, ProbedAllEffect, BeginningKnows
     DEF Quiet, Same, SameWork, M
<1>3. NoPid \notin Tunnels(M(p))'
  BY ConstantAssumption DEF Tunnels
<1>4. Elsewhere(p) /\ Truthful' /\ NoSession'
  BY <1>2, StandKnown
<1>5. CASE cmd'[p].pc = "probe"
  <2>1. ~ Replacing(p)' /\ Beginning(p)' /\ ~ Holding(p)'
    BY <1>5 DEF Replacing, Beginning, Holding, Stopping
  <2>2. QED
    BY <1>1, <1>2, <1>4, <1>5, <2>1, BeginningKnows, CommandAgain
       DEF Stopping
<1>6. CASE ProbedAll(p)
  <2>1. /\ cmd'[p].fwd \cup cmd'[p].unfwd = cmd'[p].req.want
        /\ cmd'[p].pc \in {"save", "start"}
    BY <1>6, ProbedAllEffect DEF Quiet, Same, SameWork
  <2>2. ~ Replacing(p)'
    BY <2>1 DEF Replacing, Stopping
  <2>3. QED
    BY <1>1, <1>2, <1>3, <1>4, <2>1, <2>2, BeginningKnows, CommandAgain
       DEF Stopping
<1>7. QED
  BY <1>5, <1>6, ProbeEffect

(* A tunnel is launched where there is no record, and nowhere else.        *)
LEMMA LaunchElsewhere ==
    ASSUME TInv, KInv, NEW p \in Proc, Start(p), NEW i \in Pid, Launch(p, i)
    PROVE  /\ os'[i].kind = "tunnel" /\ os'[i].machine = M(p)
           /\ os'[i].addr = cmd[p].req.addr /\ os'[i].ports = cmd[p].fwd
           /\ \A j \in Pid : j # i => os'[j] = os[j]
           /\ Elsewhere(p) /\ Truthful' /\ NoSession'
<1>1. /\ cmd[p].pc = "start" /\ Beginning(p) /\ UNCHANGED records /\ Moved(p)
  BY StartEffect DEF Beginning
<1>2. /\ os'[i].kind = "tunnel" /\ os'[i].machine = M(p)
      /\ os'[i].addr = cmd[p].req.addr /\ os'[i].ports = cmd[p].fwd
      /\ \A j \in Pid : j # i => os'[j] = os[j]
  BY <1>1, LaunchEffect, RequestParts, BeginningKnows
<1>3. \A m \in Machine : m # M(p) => \A j \in Tunnels(m)' :
        j # i /\ j \in Tunnels(m)
  BY <1>2 DEF Tunnels
<1>4. /\ Truthful'
      /\ \A m \in Machine : m # M(p) => FewerOf(m)
  BY <1>1, <1>2, <1>3, BeginningKnows DEF KInv, Truthful, Tunnels, FewerOf
<1>5. NoSession'
  BY <1>2 DEF KInv, NoSession
<1>6. Elsewhere(p)
  BY <1>1, <1>4 DEF Elsewhere
<1>7. QED
  BY <1>2, <1>4, <1>5, <1>6

LEMMA StartKnown ==
    ASSUME Apart, TInv, KInv, NEW p \in Proc, Start(p)
    PROVE  KInv'
<1>1. /\ cmd[p].pc = "start" /\ Beginning(p) /\ UNCHANGED records
      /\ Moved(p)
      /\ cmd'[p].req = cmd[p].req /\ M(p)' = M(p)
      /\ cmd'[p].fwd = cmd[p].fwd /\ cmd'[p].unfwd = cmd[p].unfwd
      /\ cmd'[p].why = cmd[p].why
  BY StartEffect DEF Beginning, M
<1>2. ASSUME NEW i \in Pid, Launch(p, i), cmd'[p].pc = "save", cmd'[p].pid = i
      PROVE  KInv'
  <2>1. /\ os'[i].addr = cmd[p].req.addr /\ os'[i].ports = cmd[p].fwd
        /\ Elsewhere(p) /\ Truthful' /\ NoSession'
    BY <1>2, LaunchElsewhere
  <2>2. ~ Replacing(p)' /\ ~ Beginning(p)'
    BY <1>2 DEF Replacing, Beginning, Stopping
  <2>3. QED
    BY <1>1, <1>2, <2>1, <2>2, BeginningKnows, CommandAgain DEF Stopping
<1>3. ASSUME NEW i \in Pid, Launch(p, i), cmd'[p].pc = "error"
      PROVE  KInv'
  BY <1>3, LaunchElsewhere, OverKnown
<1>4. CASE cmd'[p].pc = "error" /\ UNCHANGED os
  BY <1>1, <1>4, StandKnown, OverKnown
<1>5. QED
  BY <1>2, <1>3, <1>4, StartEffect

LEMMA SaveKnown ==
    ASSUME Apart, TInv, KInv, NEW p \in Proc, Save(p)
    PROVE  KInv'
<1>1. /\ cmd[p].pc = "save" /\ Holding(p) /\ UNCHANGED os
      /\ Moved(p) /\ SameWork(p) /\ M(p)' = M(p) /\ M(p) \in Machine
  BY SaveEffect, OfCommand DEF Holding, SameWork, M
<1>2. /\ records[M(p)] = NoRecord
      /\ cmd[p].req.op = "reconcile" /\ cmd[p].req.want # {}
      /\ cmd[p].fwd \cup cmd[p].unfwd = cmd[p].req.want
      /\ cmd[p].pid \in Tunnels(M(p)) =>
           /\ os[cmd[p].pid].addr = cmd[p].req.addr
           /\ os[cmd[p].pid].ports = cmd[p].fwd
  BY <1>1 DEF KInv, Making
<1>3. Fewer /\ NoSession' /\ Tunnels(M(p))' = Tunnels(M(p))
  BY <1>1, FewerIf DEF KInv, Tunnels
<1>4. CASE records' = [records EXCEPT ![M(p)] = Kept(p)] /\ cmd'[p].pc = "ok"
  <2>1. /\ records'[M(p)] = Kept(p)
        /\ \A m \in Machine : m # M(p) => records'[m] = records[m]
    BY <1>1, <1>4 DEF TInv, TypeOK
  <2>2. /\ Kept(p).pid = cmd[p].pid /\ Kept(p).addr = cmd[p].req.addr
        /\ Kept(p).fwd = cmd[p].fwd /\ Kept(p).unfwd = cmd[p].unfwd
    BY DEF Kept
  <2>3. Truthful'
    <3> SUFFICES ASSUME NEW m \in Machine, records'[m] # NoRecord
                 PROVE  /\ records'[m].fwd \cup records'[m].unfwd # {}
                        /\ records'[m].pid \in Tunnels(m)' =>
                             /\ os'[records'[m].pid].addr = records'[m].addr
                             /\ os'[records'[m].pid].ports = records'[m].fwd
      BY DEF Truthful
    <3>1. Tunnels(m)' = Tunnels(m)
      BY <1>1 DEF Tunnels
    <3>2. CASE m = M(p)
      BY <1>1, <1>2, <2>1, <2>2, <3>1, <3>2
    <3>3. CASE m # M(p)
      BY <1>1, <2>1, <3>1, <3>3 DEF KInv, Truthful
    <3>4. QED
      BY <3>2, <3>3
  <2>4. Elsewhere(p)
    BY <1>1, <1>3, <2>1 DEF Elsewhere, Fewer
  <2>5. QED
    BY <1>3, <1>4, <2>3, <2>4, OverKnown
<1>5. CASE /\ UNCHANGED records /\ cmd'[p].why = "unsaved"
           /\ cmd'[p].pc = IF cmd[p].pid = NoPid THEN "error" ELSE "stop"
  <2>1. Elsewhere(p) /\ Truthful'
    BY <1>1, <1>3, <1>5, ElsewhereIf, TruthfulAgain DEF KInv
  <2>2. CASE cmd'[p].pc = "error"
    BY <1>3, <2>1, <2>2, OverKnown
  <2>3. CASE cmd'[p].pc = "stop"
    <3>1. Holding(p)' /\ ~ Replacing(p)' /\ ~ Beginning(p)'
      BY <1>5, <2>3 DEF Holding, Replacing, Beginning, Stopping
    <3>2. QED
      BY <1>1, <1>2, <1>3, <1>5, <2>1, <2>3, <3>1, CommandAgain
         DEF Stopping, SameWork
  <2>4. QED
    BY <1>5, <2>2, <2>3
<1>6. QED
  BY <1>4, <1>5, SaveEffect

LEMMA LeaveKnown ==
    ASSUME Apart, TInv, KInv, NEW p \in Proc, Finish(p) \/ Crash(p)
    PROVE  KInv'
BY LeaveEffect, StandKnown, OverKnown

LEMMA NextKnown ==
    ASSUME Apart, Visible, TInv, KInv, [Next]_vars PROVE KInv'
<1>1. ASSUME NEW p \in Proc, Call(p) \/ Step(p) \/ Crash(p)
      PROVE  KInv'
  BY <1>1, LoadKnown, InspectKnown, StopKnown, DeleteKnown, ProbeKnown,
     StartKnown, SaveKnown, LeaveKnown DEF Step
<1>2. CASE Listen \/ UNCHANGED vars
  BY <1>2, FewerIf, WorldKnown DEF Listen, vars, KInv
<1>3. QED
  BY <1>1, <1>2, SystemMoves, WorldKnown DEF Next

LEMMA InitApart == Init => Apart
BY DEF Init, Apart, At, Idle

LEMMA NextApart ==
    ASSUME Apart, [Next /\ Apart']_vars PROVE Apart'
BY DEF Apart, At, M, vars

(* The inductive invariant of the records: whoever is killed, what a       *)
(* command has loaded is still its machine's record, and a record tells    *)
(* the truth of the tunnel it names.                                       *)
THEOREM RecordsInvariant ==
    Visible => (ApartSpec => [](TInv /\ KInv /\ Apart))
<1> SUFFICES ASSUME Visible PROVE ApartSpec => [](TInv /\ KInv /\ Apart)
  OBVIOUS
<1>1. Init => TInv /\ KInv /\ Apart
  BY InitTypes, InitKnown, InitApart
<1>2. TInv /\ KInv /\ Apart /\ [Next /\ Apart']_vars => (TInv /\ KInv /\ Apart)'
  <2> SUFFICES ASSUME TInv, KInv, Apart, [Next /\ Apart']_vars
               PROVE  TInv' /\ KInv' /\ Apart'
    OBVIOUS
  <2>1. [Next]_vars
    OBVIOUS
  <2>2. QED
    BY <2>1, NextTypes, NextKnown, NextApart
<1>3. QED
  BY <1>1, <1>2, PTL DEF ApartSpec

(* A tunnel that already is what is asked for is never signalled by the    *)
(* Reconcile that asks (Reconcile, its early return), not even where       *)
(* commands are killed.                                                    *)
THEOREM KeepsMatchingTunnel ==
    Visible /\ NoRace => (ApartSpec => MatchingTunnelKept)
<1> SUFFICES ASSUME Visible, NoRace PROVE ApartSpec => MatchingTunnelKept
  OBVIOUS
<1> DEFINE Cut(i, p) ==
             /\ cmd[p].pid = i /\ cmd[p].pc \in Stopping
             /\ cmd[p].why = "stale" /\ cmd[p].req.op = "reconcile"
             /\ cmd[p].old.unfwd = {}
             /\ os[i].machine = M(p)
             /\ os[i].addr = cmd[p].req.addr
             /\ os[i].ports = cmd[p].req.want
           Spares == \A i \in Pid : Signalled(i) => ~ \E p \in Proc : Cut(i, p)
<1>1. TInv /\ Aims /\ KInv /\ [Next]_vars => [Spares]_vars
  <2> SUFFICES ASSUME TInv, Aims, KInv, [Next]_vars, NEW i \in Pid,
                      Signalled(i), NEW p \in Proc, Cut(i, p)
               PROVE  FALSE
    OBVIOUS
  <2>1. cmd[p].pc # "idle"
    BY DEF Stopping
  <2>2. PICK q \in Proc : /\ cmd[q].pc \in {"term", "kill"}
                          /\ cmd[q].pid = i /\ os[i].kind # "free"
    BY SignalEffect
  <2>3. i \in Tunnels(M(p))
    BY <2>2 DEF Aims, Marked, KInv, NoSession, Tunnels
  <2>4. /\ records[M(p)] # NoRecord /\ cmd[p].old = records[M(p)]
        /\ records[M(p)].pid = i /\ ~ Matches(cmd[p].old, cmd[p].req)
    BY <2>3 DEF KInv, Loaded, Replacing
  <2>5. os[i].addr = cmd[p].old.addr /\ os[i].ports = cmd[p].old.fwd
    BY <2>1, <2>3, <2>4, OfCommand DEF KInv, Truthful
  <2>6. QED
    BY <2>4, <2>5 DEF Matches
<1>2. ApartSpec => Spec
  BY PTL DEF ApartSpec, Spec
<1>3. QED
  BY <1>1, <1>2, RecordsInvariant, AimsInvariant, PTL
     DEF ApartSpec, MatchingTunnelKept

-----------------------------------------------------------------------------
(* ... and none of them is killed. No tunnel is lost from sight.           *)

(* A step of p is none of the other machines' business.                    *)
LEMMA StepElsewhere ==
    ASSUME TInv, KInv, NEW p \in Proc, Call(p) \/ Step(p) \/ Crash(p)
    PROVE  Elsewhere(p)
<1>1. Moved(p)
  BY Mover
<1>2. (UNCHANGED os \/ Unmoved) /\ UNCHANGED records => Elsewhere(p)
  BY <1>1, FewerIf, ElsewhereIf DEF KInv
<1>3. UNCHANGED <<os, records>> => Elsewhere(p)
  BY <1>2
<1>4. CASE Start(p)
  BY <1>3, <1>4, StartEffect, LaunchElsewhere
<1>5. CASE Delete(p) \/ Save(p)
  <2>1. cmd[p].pc # "idle" /\ UNCHANGED os
    BY <1>5, DeleteEffect, SaveEffect
  <2>2. \A m \in Machine : m # M(p) => records'[m] = records[m]
    BY <1>5, DeleteEffect, SaveEffect DEF TInv, TypeOK
  <2>3. QED
    BY <1>1, <2>1, <2>2 DEF Elsewhere, FewerOf, Tunnels
<1>6. CASE Term(p) \/ Kill(p) \/ Outlived(p)
  BY <1>2, <1>6, DeliverEffect, OutlivedEffect DEF Term, Kill
<1>7. CASE \/ Call(p) \/ Crash(p) \/ Load(p) \/ Inspect(p) \/ Stopped(p)
           \/ StillThere(p) \/ Probe(p) \/ ProbedAll(p) \/ Finish(p)
  BY <1>3, <1>7 DEF Call, Crash, Load, Inspect, Stopped, StillThere, Probe,
                    ProbedAll, Finish
<1>8. QED
  BY <1>4, <1>5, <1>6, <1>7 DEF Step

LEMMA FewerUntold ==
    ASSUME NEW m, FewerOf(m) PROVE Untold(m)' \subseteq Untold(m)
BY DEF FewerOf, Untold, Tunnels

(* The machine's one command has no tunnel in hand: what is left of the    *)
(* machine is recorded.                                                    *)
LEMMA OnlyRecorded ==
    ASSUME Apart, Found, NEW p \in Proc, cmd[p].pc # "idle", ~ Holding(p),
           M(p) \in Machine
    PROVE  \A i \in Untold(M(p)) :
              records[M(p)] # NoRecord /\ records[M(p)].pid = i
<1>1. \A q \in Proc : Holding(q) => cmd[q].pc # "idle"
  BY DEF Holding, Stopping
<1>2. \A q \in Proc : Holding(q) => M(q) # M(p)
  BY <1>1 DEF Apart, At
<1>3. QED
  BY <1>2 DEF Found

(* What is left of the machine of a running command is what the command    *)
(* deals with.                                                             *)
LEMMA Left ==
    ASSUME Apart, TInv, KInv, Found, NEW p \in Proc, cmd[p].pc # "idle"
    PROVE  /\ ~ Holding(p) /\ records[M(p)] = NoRecord => Untold(M(p)) = {}
           /\ Replacing(p) \/ Holding(p) => Untold(M(p)) \subseteq {cmd[p].pid}
<1>1. M(p) \in Machine
  BY OfCommand
<1>2. ~ Holding(p) /\ records[M(p)] = NoRecord => Untold(M(p)) = {}
  BY <1>1, OnlyRecorded
<1>3. Replacing(p) /\ ~ Holding(p) => Untold(M(p)) \subseteq {cmd[p].pid}
  BY <1>1, OnlyRecorded DEF KInv, Loaded
<1>4. Holding(p) => Untold(M(p)) \subseteq {cmd[p].pid}
  <2> SUFFICES ASSUME Holding(p), NEW i \in Untold(M(p))
               PROVE  i = cmd[p].pid
    OBVIOUS
  <2>1. records[M(p)] = NoRecord
    BY DEF KInv, Making
  <2>2. PICK q \in Proc : Holding(q) /\ M(q) = M(p) /\ cmd[q].pid = i
    BY <1>1, <2>1 DEF Found
  <2>3. cmd[q].pc # "idle"
    BY <2>2 DEF Holding, Stopping
  <2>4. q = p
    BY <2>2, <2>3 DEF Apart, At
  <2>5. QED
    BY <2>2, <2>4
<1>5. QED
  BY <1>2, <1>3, <1>4

(* Every tunnel of p's machine is found in the record, or in p's hand.     *)
FoundBy(p) == \A m \in Machine : m = M(p) => \A i \in Untold(m)' :
    \/ records'[m] # NoRecord /\ records'[m].pid = i
    \/ Holding(p)' /\ M(p)' = m /\ cmd'[p].pid = i

LEMMA FoundAgain ==
    ASSUME Found, NEW p \in Proc, Elsewhere(p),
           cmd[p].pc # "idle" => FoundBy(p)
    PROVE  Found'
<1> SUFFICES ASSUME NEW m \in Machine, NEW i \in Untold(m)'
             PROVE  \/ records'[m] # NoRecord /\ records'[m].pid = i
                    \/ \E q \in Proc :
                         Holding(q)' /\ M(q)' = m /\ cmd'[q].pid = i
  BY DEF Found
<1>1. CASE cmd[p].pc # "idle" /\ m = M(p)
  BY <1>1 DEF FoundBy
<1>2. CASE ~ (cmd[p].pc # "idle" /\ m = M(p))
  <2>1. records'[m] = records[m] /\ FewerOf(m) /\ Moved(p)
    BY <1>2 DEF Elsewhere
  <2>2. i \in Untold(m)
    BY <2>1, FewerUntold
  <2>3. CASE records[m] # NoRecord /\ records[m].pid = i
    BY <2>1, <2>3
  <2>4. ASSUME NEW q \in Proc, Holding(q), M(q) = m, cmd[q].pid = i
        PROVE  Holding(q)' /\ M(q)' = m /\ cmd'[q].pid = i
    <3>1. q # p
      BY <1>2, <2>4 DEF Holding, Stopping
    <3>2. QED
      BY <2>1, <2>4, <3>1 DEF Moved, Holding, M
  <2>5. QED
    BY <2>2, <2>3, <2>4 DEF Found
<1>3. QED
  BY <1>1, <1>2

(* The recorded tunnel stays recorded; the one in hand stays in hand, or   *)
(* is gone or reported.                                                    *)
LEMMA FoundStill ==
    ASSUME Apart, TInv, KInv, Found, NEW p \in Proc, cmd[p].pc # "idle",
           Fewer, UNCHANGED records,
           Holding(p) => \/ Holding(p)' /\ SameWork(p)
                         \/ cmd[p].pid \notin Tunnels(M(p))
                         \/ os'[cmd[p].pid].told
    PROVE  FoundBy(p)
<1> SUFFICES ASSUME NEW m \in Machine, m = M(p), NEW i \in Untold(m)'
             PROVE  \/ records[m] # NoRecord /\ records[m].pid = i
                    \/ Holding(p)' /\ M(p)' = m /\ cmd'[p].pid = i
  BY DEF FoundBy
<1>1. i \in Untold(m) /\ ~ os'[i].told /\ i \in Tunnels(m)
  BY FewerUntold DEF Fewer, Untold
<1>2. CASE ~ Holding(p)
  BY <1>1, <1>2, OnlyRecorded
<1>3. CASE Holding(p)
  <2>1. i = cmd[p].pid
    BY <1>1, <1>3, Left
  <2>2. QED
    BY <1>1, <1>3, <2>1 DEF SameWork, M
<1>4. QED
  BY <1>2, <1>3

LEMMA StepFound ==
    ASSUME Apart, Benign, TInv, KInv, Found, NEW p \in Proc, Step(p)
    PROVE  cmd[p].pc # "idle" => FoundBy(p)
<1> SUFFICES ASSUME cmd[p].pc # "idle" PROVE FoundBy(p)
  OBVIOUS
<1>1. ASSUME UNCHANGED <<os, records>>,
             Holding(p) => \/ Holding(p)' /\ SameWork(p)
                           \/ cmd[p].pid \notin Tunnels(M(p))
      PROVE  FoundBy(p)
  BY <1>1, FewerIf, FoundStill DEF KInv
<1>2. CASE Load(p) \/ Inspect(p) \/ Probe(p) \/ ProbedAll(p) \/ Finish(p)
  <2>1. UNCHANGED <<os, records>>
    BY <1>2 DEF Load, Inspect, Probe, ProbedAll, Finish
  <2>2. cmd[p].pc \in {"load", "inspect", "probe", "ok", "error"}
    BY <1>2 DEF Load, Inspect, Probe, ProbedAll, Finish, At
  <2>3. ~ Holding(p)
    BY <2>2 DEF Holding, Stopping
  <2>4. QED
    BY <1>1, <2>1, <2>3
<1>3. CASE Stopped(p)
  <2>1. UNCHANGED <<os, records>> /\ cmd[p].pid \notin Tunnels(M(p))
    BY <1>3, StoppedEffect, OfCommand DEF Quiet, Benign
  <2>2. QED
    BY <1>1, <2>1
<1>4. CASE StillThere(p) \/ Term(p) \/ Kill(p)
  <2>1. /\ UNCHANGED os \/ Unmoved
        /\ UNCHANGED records /\ Same(p)
        /\ cmd[p].pc \in Stopping /\ cmd'[p].pc \in Stopping
    BY <1>4, StillThereEffect, DeliverEffect
       DEF Quiet, Term, Kill, Stopping
  <2>2. Fewer /\ (Holding(p) => Holding(p)' /\ SameWork(p))
    BY <2>1, FewerIf DEF KInv, Holding, Same, Stopping
  <2>3. QED
    BY <2>1, <2>2, FoundStill
<1>5. CASE Outlived(p)
  <2>1. /\ Unmoved /\ UNCHANGED records /\ Same(p) /\ cmd[p].pc \in Stopping
        /\ \/ cmd'[p].pc = "kill"
           \/ cmd[p].why = "unsaved" => os'[cmd[p].pid].told
    BY <1>5, OutlivedEffect DEF Stopping
  <2>2. Fewer
    BY <2>1, FewerIf DEF KInv
  <2>3. Holding(p) => \/ Holding(p)' /\ SameWork(p)
                      \/ os'[cmd[p].pid].told
    BY <2>1 DEF Holding, Same, Stopping
  <2>4. QED
    BY <2>1, <2>2, <2>3, FoundStill
<1>6. CASE Delete(p)
  <2>1. cmd[p].pc = "delete" /\ Replacing(p) /\ UNCHANGED os
    BY <1>6, DeleteEffect DEF Replacing
  <2>2. cmd[p].pid \notin Tunnels(M(p)) /\ Untold(M(p)) \subseteq {cmd[p].pid}
    BY <2>1, Left DEF KInv, Loaded
  <2>3. \A m \in Machine : m = M(p) => Untold(m)' = {}
    BY <2>1, <2>2 DEF Untold, Tunnels
  <2>4. QED
    BY <2>3 DEF FoundBy
<1>7. CASE Start(p)
  <2>1. Beginning(p) /\ cmd'[p].req = cmd[p].req
    BY <1>7, StartEffect DEF Beginning
  <2>2. Untold(M(p)) = {}
    BY <2>1, BeginningKnows, Left
  <2>3. CASE UNCHANGED os
    <3>1. \A m \in Machine : m = M(p) => Untold(m)' = {}
      BY <2>2, <2>3 DEF Untold, Tunnels
    <3>2. QED
      BY <3>1 DEF FoundBy
  <2>4. ASSUME NEW i \in Pid, Launch(p, i), cmd'[p].pc = "save",
               cmd'[p].pid = i
        PROVE  FoundBy(p)
    <3>1. \A j \in Pid : j # i => os'[j] = os[j]
      BY <1>7, <2>4, LaunchElsewhere
    <3>2. \A m \in Machine : m = M(p) => Untold(m)' \subseteq {i}
      BY <2>2, <3>1 DEF Untold, Tunnels
    <3>3. Holding(p)' /\ M(p)' = M(p)
      BY <2>1, <2>4 DEF Holding, M
    <3>4. QED
      BY <2>4, <3>2, <3>3 DEF FoundBy
  <2>5. QED
    BY <1>7, <2>3, <2>4, StartEffect DEF Benign
<1>8. CASE Save(p)
  <2>1. /\ Holding(p) /\ UNCHANGED os /\ SameWork(p) /\ M(p)' = M(p)
        /\ M(p) \in Machine
    BY <1>8, SaveEffect, OfCommand DEF Holding, SameWork, M
  <2>2. \A m \in Machine : m = M(p) => Untold(m)' \subseteq {cmd[p].pid}
    BY <2>1, Left DEF Untold, Tunnels
  <2>3. CASE records' = [records EXCEPT ![M(p)] = Kept(p)]
    <3>1. records'[M(p)] = Kept(p)
      BY <2>1, <2>3 DEF TInv, TypeOK
    <3>2. Kept(p) # NoRecord /\ Kept(p).pid = cmd[p].pid
      BY KeptType, RecordAssumption DEF Kept
    <3>3. QED
      BY <2>2, <3>1, <3>2 DEF FoundBy
  <2>4. CASE /\ UNCHANGED records /\ cmd'[p].why = "unsaved"
             /\ cmd'[p].pc = IF cmd[p].pid = NoPid THEN "error" ELSE "stop"
    <3>1. \/ Holding(p)' /\ SameWork(p)
          \/ cmd[p].pid \notin Tunnels(M(p))
      BY <2>1, <2>4, ConstantAssumption DEF Holding, Stopping, Tunnels
    <3>2. QED
      BY <1>1, <2>1, <2>4, <3>1
  <2>5. QED
    BY <1>8, <2>3, <2>4, SaveEffect
<1>9. QED
  BY <1>2, <1>3, <1>4, <1>5, <1>6, <1>7, <1>8 DEF Step

LEMMA NextFound ==
    ASSUME Apart, Benign, TInv, KInv, Found, [Next]_vars PROVE Found'
<1>1. ASSUME NEW p \in Proc, Call(p) \/ Step(p) \/ Crash(p)
      PROVE  Found'
  <2>1. Elsewhere(p)
    BY <1>1, StepElsewhere
  <2>2. cmd[p].pc # "idle" => FoundBy(p)
    <3>1. CASE Call(p)
      BY <3>1, CallEffect
    <3>2. CASE Step(p)
      BY <3>2, StepFound
    <3>3. ~ Crash(p)
      BY DEF Crash, Benign
    <3>4. QED
      BY <1>1, <3>1, <3>2, <3>3
  <2>3. QED
    BY <2>1, <2>2, FoundAgain
<1>2. ASSUME Fewer, UNCHANGED <<records, cmd>> PROVE Found'
  <2> SUFFICES ASSUME NEW m \in Machine, NEW i \in Untold(m)'
               PROVE  \/ records'[m] # NoRecord /\ records'[m].pid = i
                      \/ \E q \in Proc :
                           Holding(q)' /\ M(q)' = m /\ cmd'[q].pid = i
    BY DEF Found
  <2>1. i \in Untold(m)
    BY <1>2, FewerUntold DEF Fewer
  <2>2. QED
    BY <1>2, <2>1 DEF Found, Holding, M
<1>3. CASE Listen \/ UNCHANGED vars
  BY <1>2, <1>3, FewerIf DEF Listen, vars, KInv
<1>4. Visible
  BY DEF Visible, Benign
<1>5. QED
  BY <1>1, <1>2, <1>3, <1>4, SystemMoves DEF Next

(* The inductive invariant: what a command loaded still holds, a record    *)
(* tells the truth, and every tunnel nobody was told of is found again.    *)
THEOREM Invariant == Benign => (ApartSpec => [](IInv /\ Apart))
<1> SUFFICES ASSUME Benign PROVE ApartSpec => [](IInv /\ Apart)
  OBVIOUS
<1>1. Visible
  BY DEF Benign, Visible
<1>2. Init => Found
  BY DEF Init, Found, Untold, Tunnels, Free
<1>3. TInv /\ KInv /\ Apart /\ Found /\ [Next /\ Apart']_vars => Found'
  BY NextFound
<1>4. TInv /\ KInv /\ Found => IInv
  BY DEF IInv
<1>5. QED
  BY <1>1, <1>2, <1>3, <1>4, RecordsInvariant, PTL DEF ApartSpec

(* Where commands of one project follow one another and are not killed, a  *)
(* live tunnel nobody was told of is found through its machine's record    *)
(* (Reconcile, Save).                                                      *)
THEOREM NoTunnelLost == Benign => (ApartSpec => []LiveTunnelsRecorded)
<1>1. IInv => LiveTunnelsRecorded
  BY DEF IInv, Found, LiveTunnelsRecorded, Untold, Holding, InHand
<1>2. QED
  BY <1>1, Invariant, PTL

(* ... and there is but one of each machine (Reconcile stops before it     *)
(* starts).                                                                *)
THEOREM OneTunnel == Benign => (ApartSpec => []OneTunnelPerMachine)
<1>1. IInv /\ Apart => OneTunnelPerMachine
  <2> SUFFICES ASSUME IInv, Apart, NEW m \in Machine,
                      NEW i \in Untold(m), NEW j \in Untold(m)
               PROVE  i = j
    BY DEF OneTunnelPerMachine, Untold
  <2>1. CASE \E p \in Proc : Holding(p) /\ M(p) = m
    <3>1. PICK p \in Proc : Holding(p) /\ M(p) = m
      BY <2>1
    <3>2. cmd[p].pc # "idle"
      BY <3>1 DEF Holding, Stopping
    <3>3. Untold(m) \subseteq {cmd[p].pid}
      BY <3>1, <3>2, Left DEF IInv
    <3>4. QED
      BY <3>3
  <2>2. CASE ~ \E p \in Proc : Holding(p) /\ M(p) = m
    BY <2>2 DEF IInv, Found
  <2>3. QED
    BY <2>1, <2>2
<1>2. QED
  BY <1>1, Invariant, PTL

(* What a call that is about to return nil has achieved.                   *)
LEMMA Achieved ==
    ASSUME Benign, IInv, NEW p \in Proc, [Next]_vars,
           cmd[p].pc \notin {"ok", "idle"}, cmd'[p].pc = "ok"
    PROVE  Load(p) \/ Inspect(p) \/ Delete(p) \/ Save(p)
<1>1. TInv
  BY DEF IInv
<1>2. cmd' # cmd
  OBVIOUS
<1>3. PICK q \in Proc : Call(q) \/ Step(q) \/ Crash(q)
  BY <1>2 DEF Next, Bind, Exit, Recycle, Listen, vars
<1>4. Call(p) \/ Step(p) \/ Crash(p)
  BY <1>1, <1>3, Mover DEF Moved
<1>5. QED
  BY <1>1, <1>4, CallEffect, StoppedEffect, StillThereEffect, DeliverEffect,
     OutlivedEffect, ProbeEffect, ProbedAllEffect, StartEffect, LeaveEffect
     DEF Step, Quiet, Term, Kill

(* What is there when a call returns nil, in the state after it.           *)
LEMMA Result ==
    ASSUME Apart, Benign, IInv, NEW p \in Proc, [Next]_vars,
           cmd[p].pc \notin {"ok", "idle"}, cmd'[p].pc = "ok"
    PROVE  /\ M(p) \in Machine /\ UNCHANGED os
           /\ \/ /\ records'[M(p)] = NoRecord /\ Untold(M(p)) = {}
                 /\ cmd[p].req.op = "remove" \/ cmd[p].req.want = {}
              \/ LET r == records'[M(p)] IN
                 /\ r # NoRecord /\ cmd[p].req.op = "reconcile"
                 /\ cmd[p].req.want # {} /\ r.addr = cmd[p].req.addr
                 /\ r.fwd \cup r.unfwd = cmd[p].req.want
                 /\ r.unfwd \subseteq cmd[p].unfwd
                 /\ \A i \in Untold(M(p)) :
                      os[i].addr = cmd[p].req.addr /\ os[i].ports = r.fwd
<1>1. TInv /\ KInv /\ Found /\ M(p) \in Machine
  BY OfCommand DEF IInv
<1>2. CASE Load(p)
  <2>1. /\ cmd[p].pc = "load" /\ UNCHANGED <<os, records>>
        /\ records[M(p)] = NoRecord /\ cmd'[p].pc = AfterOld(p)
    BY <1>1, <1>2, LoadEffect
  <2>2. Untold(M(p)) = {}
    BY <1>1, <2>1, Left DEF Holding, Stopping
  <2>3. cmd[p].req.op = "remove" \/ cmd[p].req.want = {}
    BY <2>1 DEF AfterOld
  <2>4. QED
    BY <1>1, <2>1, <2>2, <2>3
<1>3. CASE Inspect(p)
  <2>1. /\ cmd[p].pc = "inspect" /\ UNCHANGED <<os, records>>
        /\ Marked(cmd[p].pid, M(p)) /\ Matches(cmd[p].old, cmd[p].req)
    BY <1>1, <1>3, InspectEffect DEF Quiet
  <2>2. /\ records[M(p)] # NoRecord /\ cmd[p].req.op = "reconcile"
        /\ cmd[p].old = records[M(p)] /\ cmd[p].pid = records[M(p)].pid
        /\ Untold(M(p)) \subseteq {cmd[p].pid}
    BY <1>1, <2>1, Left DEF KInv, Loaded, Replacing
  <2>3. /\ records[M(p)].fwd \cup records[M(p)].unfwd # {}
        /\ \A i \in Untold(M(p)) :
             /\ os[i].addr = records[M(p)].addr
             /\ os[i].ports = records[M(p)].fwd
    BY <1>1, <2>2 DEF KInv, Truthful, Untold
  <2>4. /\ records[M(p)].addr = cmd[p].req.addr
        /\ records[M(p)].unfwd = {} /\ records[M(p)].fwd = cmd[p].req.want
    BY <2>1, <2>2 DEF Matches
  <2>5. QED
    BY <1>1, <2>1, <2>2, <2>3, <2>4
<1>4. CASE Delete(p)
  <2>1. /\ cmd[p].pc = "delete" /\ UNCHANGED os /\ Replacing(p)
        /\ records' = [records EXCEPT ![M(p)] = NoRecord]
        /\ cmd'[p].pc = AfterOld(p)
    BY <1>1, <1>4, DeleteEffect DEF Replacing
  <2>2. records'[M(p)] = NoRecord
    BY <1>1, <2>1 DEF TInv, TypeOK
  <2>3. cmd[p].req.op = "remove" \/ cmd[p].req.want = {}
    BY <2>1 DEF AfterOld
  <2>4. Untold(M(p)) = {}
    <3>1. cmd[p].pid \notin Tunnels(M(p))
      BY <1>1, <2>1 DEF KInv, Loaded
    <3>2. QED
      BY <1>1, <2>1, <3>1, Left DEF Untold
  <2>5. QED
    BY <1>1, <2>1, <2>2, <2>3, <2>4
<1>5. CASE Save(p)
  <2>1. /\ cmd[p].pc = "save" /\ Holding(p) /\ UNCHANGED os
        /\ records' = [records EXCEPT ![M(p)] = Kept(p)]
    BY <1>1, <1>5, SaveEffect DEF Holding
  <2>2. /\ records'[M(p)] = Kept(p) /\ Kept(p) # NoRecord
    BY <1>1, <2>1, KeptType, RecordAssumption DEF TInv, TypeOK
  <2>3. /\ Kept(p).addr = cmd[p].req.addr
        /\ Kept(p).fwd = cmd[p].fwd /\ Kept(p).unfwd = cmd[p].unfwd
    BY DEF Kept
  <2>4. /\ cmd[p].req.op = "reconcile" /\ cmd[p].req.want # {}
        /\ cmd[p].fwd \cup cmd[p].unfwd = cmd[p].req.want
        /\ \A i \in Untold(M(p)) :
             os[i].addr = cmd[p].req.addr /\ os[i].ports = cmd[p].fwd
    BY <1>1, <2>1, Left DEF KInv, Making, Untold
  <2>5. QED
    BY <1>1, <2>1, <2>2, <2>3, <2>4
<1>6. QED
  BY <1>2, <1>3, <1>4, <1>5, Achieved

(* Remove returns nil only when neither a tunnel nor a record is left      *)
(* (Manager.Remove), whatever failed before.                               *)
THEOREM RemoveLeavesNone == Benign => (ApartSpec => RemoveEndsTunnel)
<1> SUFFICES ASSUME Benign PROVE ApartSpec => RemoveEndsTunnel
  OBVIOUS
<1> DEFINE Gone == \A p \in Proc : Succeeds(p, "remove") =>
                     /\ \A i \in Tunnels(M(p)) : os[i].told
                     /\ records'[M(p)] = NoRecord
<1>1. IInv /\ Apart /\ [Next]_vars => [Gone]_vars
  <2> SUFFICES ASSUME IInv, Apart, [Next]_vars, NEW p \in Proc, Succeeds(p, "remove")
               PROVE  /\ \A i \in Tunnels(M(p)) : os[i].told
                      /\ records'[M(p)] = NoRecord
    OBVIOUS
  <2>1. records'[M(p)] = NoRecord /\ Untold(M(p)) = {}
    BY Result DEF Succeeds
  <2>2. QED
    BY <2>1 DEF Untold
<1>2. QED
  BY <1>1, Invariant, PTL DEF ApartSpec, RemoveEndsTunnel

(* Reconcile returns nil only with the record and the tunnel of its        *)
(* request (Manager.Reconcile), whatever failed before.                    *)
THEOREM ReconcileReaches ==
    Benign => (ApartSpec => ReconcileConverges)
<1> SUFFICES ASSUME Benign PROVE ApartSpec => ReconcileConverges
  OBVIOUS
<1> DEFINE Reached == \A p \in Proc : Succeeds(p, "reconcile") =>
         LET req == cmd[p].req
             r   == records'[req.machine]
         IN /\ req.want = {} <=> r = NoRecord
            /\ r # NoRecord => /\ r.addr = req.addr
                              /\ r.fwd \cup r.unfwd = req.want
                              /\ r.unfwd \subseteq cmd[p].unfwd
            /\ \A i \in Tunnels(req.machine) : os[i].told \/
                 /\ r # NoRecord
                 /\ os[i].addr = req.addr
                 /\ os[i].ports = r.fwd
<1>1. IInv /\ Apart /\ [Next]_vars => [Reached]_vars
  <2> SUFFICES ASSUME IInv, Apart, [Next]_vars, NEW p \in Proc,
                      Succeeds(p, "reconcile")
               PROVE  LET r == records'[M(p)] IN
                      /\ cmd[p].req.want = {} <=> r = NoRecord
                      /\ r # NoRecord =>
                           /\ r.addr = cmd[p].req.addr
                           /\ r.fwd \cup r.unfwd = cmd[p].req.want
                           /\ r.unfwd \subseteq cmd[p].unfwd
                      /\ \A i \in Untold(M(p)) :
                           /\ r # NoRecord
                           /\ os[i].addr = cmd[p].req.addr
                           /\ os[i].ports = r.fwd
    BY DEF Untold, M
  <2>1. QED
    BY Result DEF Succeeds
<1>2. QED
  BY <1>1, Invariant, PTL DEF ApartSpec, ReconcileConverges

-----------------------------------------------------------------------------
(* Reconcile and Remove as AtomicTunnel has them.                          *)

(* A call that has not returned, and what it is about.                     *)
Running(p) == cmd[p].pc \notin {"idle", "ok", "error"}

LEMMA Seen ==
    ASSUME TInv, NEW p \in Proc, cmd[p].pc # "idle"
    PROVE  /\ CallOf(p).req = cmd[p].req /\ CallOf(p) # Atomic!Idle
           /\ Atomic!Of(p) = TunnelOf(M(p))
           /\ Running(p) => Atomic!Running(p)
           /\ Running(p) => CallOf(p) = [state |-> "running", req |-> cmd[p].req]
           /\ Atomic!WantsNone(p) <=>
                cmd[p].req.op = "remove" \/ cmd[p].req.want = {}
<1>1. M(p) \in Machine
  BY OfCommand
<1>2. CallOf(p).req = cmd[p].req /\ CallOf(p).state # "idle"
  BY DEF CallOf, At
<1>3. Running(p) => CallOf(p) = [state |-> "running", req |-> cmd[p].req]
  BY DEF CallOf, At, Running
<1>4. QED
  BY <1>1, <1>2, <1>3 DEF Atomic!Idle, Atomic!Of, Atomic!Running,
                          Atomic!WantsNone, M

(* What the caller sees of a step of p: nothing, or that the call returns. *)
LEMMA GoesOn ==
    ASSUME NEW p \in Proc, Moved(p), cmd'[p].req = cmd[p].req,
           Running(p), Running(p)'
    PROVE  UNCHANGED [q \in Proc |-> CallOf(q)]
<1>1. \A q \in Proc : CallOf(q)' = CallOf(q)
  BY DEF Moved, CallOf, At, Running
<1>2. QED
  BY <1>1

LEMMA CallsExcept ==
    ASSUME NEW p \in Proc, NEW result,
           CallOf(p)' = [CallOf(p) EXCEPT !.state = result],
           \A q \in Proc : q # p => CallOf(q)' = CallOf(q)
    PROVE  [q \in Proc |-> CallOf(q)]' =
             [[q \in Proc |-> CallOf(q)] EXCEPT ![p].state = result]
OBVIOUS

LEMMA Returns ==
    ASSUME TInv, NEW p \in Proc, Moved(p), cmd'[p].req = cmd[p].req,
           Running(p), cmd'[p].pc \in {"ok", "error"}
    PROVE  Atomic!Return(p, cmd'[p].pc)
<1>1. CallOf(p) = [state |-> "running", req |-> cmd[p].req]
  BY DEF CallOf, At, Running
<1>2. CallOf(p)' = [state |-> cmd'[p].pc, req |-> cmd[p].req]
  BY DEF CallOf, At
<1>3. \A q \in Proc : q # p => CallOf(q)' = CallOf(q)
  BY DEF Moved, CallOf, At
<1>4. CallOf(p)' = [CallOf(p) EXCEPT !.state = cmd'[p].pc]
  BY <1>1, <1>2
<1>5. QED
  BY <1>3, <1>4, CallsExcept DEF Atomic!Return

(* A machine's tunnel changes for the outside only with its record or with *)
(* the tunnels there are.                                                  *)
LEMMA TunnelStays ==
    ASSUME NEW m \in Machine, records'[m] = records[m],
           records[m] # NoRecord => Tunnels(m)' = Tunnels(m)
    PROVE  TunnelOf(m)' = TunnelOf(m)
BY DEF TunnelOf

LEMMA TunnelsStay ==
    ASSUME UNCHANGED os \/ Unmoved, UNCHANGED records
    PROVE  UNCHANGED [m \in Machine |-> TunnelOf(m)]
<1>1. \A m \in Machine : Tunnels(m)' = Tunnels(m)
  BY DEF Tunnels, Unmoved
<1>2. QED
  BY <1>1, TunnelStays

(* A step of a call that neither returns nor touches a record; or one that *)
(* fails.                                                                  *)
LEMMA HiddenStep ==
    ASSUME TInv, NEW p \in Proc, Moved(p), cmd'[p].req = cmd[p].req,
           Running(p), UNCHANGED [m \in Machine |-> TunnelOf(m)],
           Running(p)' \/ cmd'[p].pc = "error"
    PROVE  Atomic!Fail(p) \/ UNCHANGED Atomic!vars
<1>1. CASE Running(p)'
  BY <1>1, GoesOn DEF Atomic!vars
<1>2. CASE cmd'[p].pc = "error"
  <2>1. Atomic!Return(p, "error")
    BY <1>2, Returns
  <2>2. Atomic!Running(p)
    BY Seen DEF Running
  <2>3. QED
    BY <2>1, <2>2 DEF Atomic!Fail
<1>3. QED
  BY <1>1, <1>2

LEMMA SeenTunnel ==
    ASSUME TInv, NEW m \in Machine, records[m] # NoRecord
    PROVE  TunnelOf(m) \in Atomic!Tunnel /\ TunnelOf(m) # NoRecord
<1>1. records[m] \in Record
  BY DEF TInv, TypeOK
<1>2. TunnelOf(m) \in Atomic!Tunnel
  BY <1>1 DEF Record, TunnelOf, Atomic!Tunnel
<1>3. QED
  BY <1>2, TunnelAssumption

LEMMA LoadAtomic ==
    ASSUME TInv, KInv, NEW p \in Proc, Load(p)
    PROVE  Atomic!Keep(p) \/ Atomic!Fail(p) \/ UNCHANGED Atomic!vars
<1>1. /\ cmd[p].pc = "load" /\ Running(p) /\ Moved(p)
      /\ cmd'[p].req = cmd[p].req
      /\ UNCHANGED [m \in Machine |-> TunnelOf(m)]
  BY LoadEffect, TunnelsStay DEF Running
<1>2. CASE cmd'[p].pc = "ok"
  <2>1. records[M(p)] = NoRecord /\ AfterOld(p) = "ok"
    BY <1>2, LoadEffect
  <2>2. Atomic!WantsNone(p) /\ Atomic!Of(p) = NoRecord /\ Atomic!Running(p)
    BY <1>1, <2>1, Seen DEF AfterOld, TunnelOf
  <2>3. Atomic!Return(p, "ok")
    BY <1>1, <1>2, Returns
  <2>4. QED
    BY <1>1, <2>2, <2>3 DEF Atomic!Keep
<1>3. CASE cmd'[p].pc # "ok"
  <2>1. Running(p)' \/ cmd'[p].pc = "error"
    BY <1>3, LoadEffect DEF Running, AfterOld
  <2>2. QED
    BY <1>1, <2>1, HiddenStep
<1>4. QED
  BY <1>2, <1>3

LEMMA InspectAtomic ==
    ASSUME TInv, KInv, NEW p \in Proc, Inspect(p)
    PROVE  Atomic!Keep(p) \/ UNCHANGED Atomic!vars
<1>1. /\ cmd[p].pc = "inspect" /\ Running(p) /\ Moved(p)
      /\ cmd'[p].req = cmd[p].req /\ cmd'[p].pc \in {"ok", "stop"}
      /\ UNCHANGED [m \in Machine |-> TunnelOf(m)]
  BY InspectEffect, TunnelsStay DEF Quiet, Same, SameWork, Running
<1>2. CASE cmd'[p].pc = "ok"
  <2>1. /\ Marked(cmd[p].pid, M(p)) /\ Matches(cmd[p].old, cmd[p].req)
        /\ records[M(p)] # NoRecord /\ cmd[p].old = records[M(p)]
        /\ cmd[p].pid = records[M(p)].pid /\ cmd[p].req.op = "reconcile"
    BY <1>1, <1>2, InspectEffect DEF KInv, Loaded, Replacing
  <2>2. records[M(p)].pid \in Tunnels(M(p))
    BY <1>1, <2>1, OfCommand DEF Marked, KInv, NoSession, Tunnels
  <2>3. /\ Atomic!Of(p) = TunnelOf(M(p)) /\ Atomic!Running(p)
        /\ CallOf(p).req = cmd[p].req
    BY <1>1, Seen
  <2>4. /\ TunnelOf(M(p)).addr = cmd[p].req.addr
        /\ TunnelOf(M(p)).fwd = cmd[p].req.want
        /\ TunnelOf(M(p)).unfwd = {} /\ TunnelOf(M(p)).live
        /\ TunnelOf(M(p)) # NoRecord
    <3>1. TunnelOf(M(p)) = [addr |-> records[M(p)].addr,
                            fwd |-> records[M(p)].fwd,
                            unfwd |-> records[M(p)].unfwd, live |-> TRUE]
      BY <2>1, <2>2 DEF TunnelOf
    <3>2. TunnelOf(M(p)) # NoRecord
      BY <1>1, <2>1, OfCommand, SeenTunnel
    <3>3. QED
      BY <2>1, <3>1, <3>2 DEF Matches
  <2>5. Atomic!Return(p, "ok")
    BY <1>1, <1>2, Returns
  <2>6. QED
    BY <1>1, <2>1, <2>3, <2>4, <2>5 DEF Atomic!Keep
<1>3. CASE cmd'[p].pc = "stop"
  BY <1>1, <1>3, GoesOn DEF Running, Atomic!vars
<1>4. QED
  BY <1>1, <1>2, <1>3

(* p changes what its own machine's tunnel is.                             *)
LEMMA Puts ==
    ASSUME TInv, KInv, NEW p \in Proc, Delete(p) \/ Save(p), NEW t,
           \A m \in Machine : m = M(p) => TunnelOf(m)' = t
    PROVE  Atomic!Put(p, t)
<1>1. /\ M(p) \in Machine /\ UNCHANGED os /\ cmd[p].pc # "idle"
      /\ \A m \in Machine : m # M(p) => records'[m] = records[m]
  BY DeleteEffect, SaveEffect, OfCommand DEF TInv, TypeOK
<1>2. CallOf(p).req.machine = M(p)
  BY <1>1, Seen DEF M
<1>3. \A m \in Machine : m # M(p) => TunnelOf(m)' = TunnelOf(m)
  BY <1>1, TunnelStays DEF Tunnels
<1>4. [m \in Machine |-> TunnelOf(m)]' =
        [[m \in Machine |-> TunnelOf(m)] EXCEPT ![M(p)] = t]
  BY <1>1, <1>3
<1>5. QED
  BY <1>2, <1>4 DEF Atomic!Put

LEMMA DeleteAtomic ==
    ASSUME TInv, KInv, NEW p \in Proc, Delete(p)
    PROVE  Atomic!Forget(p) \/ Atomic!Fail(p) \/ UNCHANGED Atomic!vars
<1>1. /\ cmd[p].pc = "delete" /\ Running(p) /\ Moved(p) /\ UNCHANGED os
      /\ cmd'[p].req = cmd[p].req /\ M(p) \in Machine
  BY DeleteEffect, OfCommand DEF Running
<1>2. CASE records' = [records EXCEPT ![M(p)] = NoRecord]
           /\ cmd'[p].pc = AfterOld(p)
  <2>1. /\ records[M(p)] # NoRecord
        /\ records[M(p)].pid \notin Tunnels(M(p))
    BY <1>1 DEF KInv, Loaded, Replacing
  <2>2. TunnelOf(M(p)) # NoRecord /\ ~ TunnelOf(M(p)).live
    BY <1>1, <2>1, SeenTunnel DEF TunnelOf
  <2>3. Atomic!Put(p, NoRecord)
    <3>1. \A m \in Machine : m = M(p) => TunnelOf(m)' = NoRecord
      BY <1>1, <1>2 DEF TInv, TypeOK, TunnelOf
    <3>2. QED
      BY <3>1, Puts
  <2>4. /\ Atomic!Of(p) = TunnelOf(M(p)) /\ Atomic!Running(p)
        /\ Atomic!WantsNone(p) <=>
             cmd[p].req.op = "remove" \/ cmd[p].req.want = {}
    BY <1>1, Seen
  <2>5. Atomic!Return(p, IF Atomic!WantsNone(p) THEN "ok" ELSE "running")
    <3>1. CASE AfterOld(p) = "ok"
      BY <1>1, <1>2, <2>4, <3>1, Returns DEF AfterOld
    <3>2. CASE AfterOld(p) = "probe"
      <4>1. UNCHANGED [q \in Proc |-> CallOf(q)] /\ ~ Atomic!WantsNone(p)
        BY <1>1, <1>2, <2>4, <3>2, GoesOn DEF Running, AfterOld
      <4>2. CallOf(p) = [CallOf(p) EXCEPT !.state = "running"]
        BY <1>1, Seen
      <4>3. QED
        BY <4>1, <4>2 DEF Atomic!Return
    <3>3. QED
      BY <3>1, <3>2 DEF AfterOld
  <2>6. QED
    BY <2>2, <2>3, <2>4, <2>5 DEF Atomic!Forget
<1>3. CASE cmd'[p].pc = "error" /\ UNCHANGED records
  BY <1>1, <1>3, TunnelsStay, HiddenStep
<1>4. QED
  BY <1>2, <1>3, DeleteEffect

LEMMA SaveAtomic ==
    ASSUME TInv, TInv', KInv, NEW p \in Proc, Save(p)
    PROVE  Atomic!Open(p) \/ Atomic!Fail(p) \/ UNCHANGED Atomic!vars
<1>1. /\ cmd[p].pc = "save" /\ Running(p) /\ Holding(p) /\ Moved(p)
      /\ UNCHANGED os /\ cmd'[p].req = cmd[p].req /\ M(p) \in Machine
  BY SaveEffect, OfCommand DEF Running, Holding, SameWork
<1>2. CASE records' = [records EXCEPT ![M(p)] = Kept(p)] /\ cmd'[p].pc = "ok"
  <2>1. records'[M(p)] = Kept(p) /\ Kept(p) # NoRecord
    BY <1>1, <1>2, KeptType, RecordAssumption DEF TInv, TypeOK
  <2>2. /\ records[M(p)] = NoRecord
        /\ cmd[p].req.op = "reconcile" /\ cmd[p].req.want # {}
        /\ cmd[p].fwd \cup cmd[p].unfwd = cmd[p].req.want
    BY <1>1 DEF KInv, Making
  <2>3. PICK t \in Atomic!Tunnel :
          /\ \A m \in Machine : m = M(p) => TunnelOf(m)' = t
          /\ t.addr = cmd[p].req.addr
          /\ t.fwd \cup t.unfwd = cmd[p].req.want
    <3> DEFINE m == M(p)
               t == [addr |-> Kept(p).addr, fwd |-> Kept(p).fwd,
                     unfwd |-> Kept(p).unfwd, live |-> Kept(p).pid \in Tunnels(m)]
    <3>1. \A n \in Machine : n = M(p) => TunnelOf(n)' = t
      BY <1>1, <2>1 DEF TunnelOf, Tunnels
    <3>2. t \in Atomic!Tunnel
      BY <1>1, KeptType DEF Record, Atomic!Tunnel
    <3>3. t.addr = cmd[p].req.addr /\ t.fwd \cup t.unfwd = cmd[p].req.want
      BY <2>2 DEF Kept
    <3>4. QED
      BY <3>1, <3>2, <3>3
  <2>4. Atomic!Put(p, t)
    BY <2>3, Puts
  <2>5. /\ Atomic!Of(p) = NoRecord /\ Atomic!Running(p)
        /\ ~ Atomic!WantsNone(p) /\ CallOf(p).req = cmd[p].req
    BY <1>1, <2>2, Seen DEF TunnelOf
  <2>6. Atomic!Return(p, "ok")
    BY <1>1, <1>2, Returns
  <2>7. QED
    BY <2>3, <2>4, <2>5, <2>6 DEF Atomic!Open
<1>3. CASE /\ UNCHANGED records
           /\ cmd'[p].pc = IF cmd[p].pid = NoPid THEN "error" ELSE "stop"
  BY <1>1, <1>3, TunnelsStay, HiddenStep DEF Running
<1>4. QED
  BY <1>2, <1>3, SaveEffect

(* A new process of an unused ID changes no recorded tunnel.               *)
LEMMA StartAtomic ==
    ASSUME TInv, KInv, NEW p \in Proc, Start(p)
    PROVE  Atomic!Fail(p) \/ UNCHANGED Atomic!vars
<1>1. /\ cmd[p].pc = "start" /\ Running(p) /\ Beginning(p) /\ Moved(p)
      /\ UNCHANGED records /\ cmd'[p].req = cmd[p].req
      /\ Running(p)' \/ cmd'[p].pc = "error"
  BY StartEffect DEF Running, Beginning
<1>2. UNCHANGED [m \in Machine |-> TunnelOf(m)]
  <2>1. ASSUME NEW i \in Pid, Launch(p, i), NEW m \in Machine
        PROVE  TunnelOf(m)' = TunnelOf(m)
    <3>1. CASE m = M(p)
      BY <1>1, <3>1, BeginningKnows, TunnelStays
    <3>2. CASE m # M(p)
      <4>1. /\ os'[i].machine = M(p)
            /\ \A j \in Pid : j # i => os'[j] = os[j]
        BY <2>1, LaunchElsewhere
      <4>2. os[i].kind = "free"
        BY <2>1 DEF Launch, Unused, Free
      <4>3. Tunnels(m)' = Tunnels(m)
        BY <3>2, <4>1, <4>2 DEF Tunnels
      <4>4. QED
        BY <1>1, <4>3, TunnelStays
    <3>3. QED
      BY <3>1, <3>2
  <2>2. QED
    BY <1>1, <2>1, StartEffect, TunnelsStay
<1>3. QED
  BY <1>1, <1>2, HiddenStep

LEMMA StopAtomic ==
    ASSUME TInv, NEW p \in Proc,
           \/ Stopped(p) \/ StillThere(p) \/ Term(p) \/ Kill(p) \/ Outlived(p)
           \/ Probe(p) \/ ProbedAll(p)
    PROVE  Atomic!Fail(p) \/ UNCHANGED Atomic!vars
<1>1. /\ UNCHANGED os \/ Unmoved
      /\ UNCHANGED records /\ Moved(p) /\ cmd'[p].req = cmd[p].req
  BY StoppedEffect, StillThereEffect, DeliverEffect, OutlivedEffect,
     ProbeEffect, ProbedAllEffect DEF Quiet, Term, Kill, Same, SameWork
<1>2. /\ cmd[p].pc \in Stopping \cup {"probe"}
      /\ cmd'[p].pc \in Stopping \cup {"probe", "delete", "save", "start", "error"}
  BY StoppedEffect, StillThereEffect, DeliverEffect, OutlivedEffect,
     ProbeEffect, ProbedAllEffect DEF Quiet, Term, Kill, Stopping
<1>3. Running(p) /\ (Running(p)' \/ cmd'[p].pc = "error")
  BY <1>2 DEF Running, Stopping
<1>4. QED
  BY <1>1, <1>3, TunnelsStay, HiddenStep

LEMMA CallAtomic ==
    ASSUME TInv, NEW p \in Proc, Call(p) PROVE Atomic!Begin(p)
<1>1. /\ cmd[p].pc = "idle" /\ Moved(p) /\ cmd'[p].pc = "load"
      /\ cmd'[p].req \in Request /\ UNCHANGED <<os, records>>
  BY CallEffect
<1>2. CallOf(p) = Atomic!Idle
  BY <1>1 DEF CallOf, At, Atomic!Idle
<1>3. CallOf(p)' = [state |-> "running", req |-> cmd'[p].req]
  BY <1>1 DEF CallOf, At
<1>4. \A q \in Proc : q # p => CallOf(q)' = CallOf(q)
  BY <1>1 DEF Moved, CallOf, At
<1>5. [q \in Proc |-> CallOf(q)]' = [[q \in Proc |-> CallOf(q)] EXCEPT
          ![p] = [state |-> "running", req |-> cmd'[p].req]]
  BY <1>3, <1>4
<1>6. QED
  BY <1>1, <1>2, <1>5, TunnelsStay DEF Atomic!Begin

LEMMA LeaveAtomic ==
    ASSUME TInv, NEW p \in Proc, Finish(p) \/ Crash(p) PROVE Atomic!End(p)
<1>1. /\ cmd[p].pc # "idle" /\ Moved(p) /\ cmd'[p].pc = "idle"
      /\ UNCHANGED <<os, records>>
  BY LeaveEffect DEF Finish, Crash, At
<1>2. CallOf(p)' = Atomic!Idle
  BY <1>1 DEF CallOf, At, Atomic!Idle
<1>3. \A q \in Proc : q # p => CallOf(q)' = CallOf(q)
  BY <1>1 DEF Moved, CallOf, At
<1>4. [q \in Proc |-> CallOf(q)]' =
        [[q \in Proc |-> CallOf(q)] EXCEPT ![p] = Atomic!Idle]
  BY <1>2, <1>3
<1>5. CallOf(p) # Atomic!Idle
  BY <1>1, Seen
<1>6. QED
  BY <1>1, <1>4, <1>5, TunnelsStay DEF Atomic!End

(* Of the processes only the end of a recorded tunnel is seen.             *)
LEMMA SystemAtomic ==
    ASSUME Visible, TInv, KInv, NEW i \in Pid,
           Bind(i) \/ Exit(i) \/ Recycle(i)
    PROVE  (\E m \in Machine : Atomic!Dies(m)) \/ UNCHANGED Atomic!vars
<1>1. UNCHANGED <<records, cmd>> /\ UNCHANGED [q \in Proc |-> CallOf(q)]
  BY BindEffect, ExitEffect, RecycleEffect DEF CallOf, At
<1>2. CASE Bind(i)
  BY <1>1, <1>2, BindEffect, TunnelsStay DEF Atomic!vars
<1>3. CASE Exit(i) \/ Recycle(i)
  <2>1. OnlyMoved(i) /\ os'[i].kind # "tunnel"
    BY <1>3, ExitEffect, RecycleEffect
  <2>2. \A m \in Machine : i \notin Tunnels(m) => TunnelOf(m)' = TunnelOf(m)
    BY <1>1, <2>1, TunnelStays DEF Tunnels, OnlyMoved
  <2>3. CASE \E m \in Machine : /\ i \in Tunnels(m) /\ records[m] # NoRecord
                                /\ records[m].pid = i
    <3>1. PICK m \in Machine : /\ i \in Tunnels(m) /\ records[m] # NoRecord
                               /\ records[m].pid = i
      BY <2>3
    <3>2. \A n \in Machine : n # m => i \notin Tunnels(n)
      BY <3>1 DEF Tunnels
    <3>3. /\ TunnelOf(m) # NoRecord /\ TunnelOf(m).live
          /\ TunnelOf(m)' = [TunnelOf(m) EXCEPT !.live = FALSE]
      <4>1. TunnelOf(m) # NoRecord
        BY <3>1, SeenTunnel
      <4>2. i \notin Tunnels(m)'
        BY <2>1 DEF Tunnels
      <4>3. TunnelOf(m) = [addr |-> records[m].addr, fwd |-> records[m].fwd,
                           unfwd |-> records[m].unfwd, live |-> TRUE]
        BY <3>1 DEF TunnelOf
      <4>4. TunnelOf(m)' = [addr |-> records[m].addr, fwd |-> records[m].fwd,
                            unfwd |-> records[m].unfwd, live |-> FALSE]
        <5>1. records'[m].pid \notin Tunnels(m)'
          BY <1>1, <3>1, <4>2
        <5>2. (records'[m].pid \in Tunnels(m)') = FALSE
          BY <5>1
        <5>3. QED
          BY <1>1, <3>1, <5>2, Zenon DEF TunnelOf
      <4>5. [TunnelOf(m) EXCEPT !.live = FALSE] =
              [addr |-> records[m].addr, fwd |-> records[m].fwd,
               unfwd |-> records[m].unfwd, live |-> FALSE]
        <5> DEFINE was == TRUE
                   is  == FALSE
        <5>1. TunnelOf(m) =
                [addr |-> records[m].addr, fwd |-> records[m].fwd,
                 unfwd |-> records[m].unfwd, live |-> was]
          BY <4>3
        <5> HIDE DEF was, is
        <5>2. [TunnelOf(m) EXCEPT !.live = is] =
                [addr |-> records[m].addr, fwd |-> records[m].fwd,
                 unfwd |-> records[m].unfwd, live |-> is]
          BY <5>1
        <5>3. QED
          BY <5>2, Zenon DEF is
      <4>6. QED
        BY <4>1, <4>3, <4>4, <4>5
    <3>4. [n \in Machine |-> TunnelOf(n)]' =
            [[n \in Machine |-> TunnelOf(n)] EXCEPT ![m].live = FALSE]
      BY <2>2, <3>2, <3>3
    <3>5. Atomic!Dies(m)
      BY <1>1, <3>3, <3>4 DEF Atomic!Dies
    <3>6. QED
      BY <3>5
  <2>4. CASE \A m \in Machine : i \in Tunnels(m) =>
               records[m] = NoRecord \/ records[m].pid # i
    <3>1. ASSUME NEW m \in Machine, i \in Tunnels(m)
          PROVE  TunnelOf(m)' = TunnelOf(m)
      <4>1. \A j \in Pid : j # i => (j \in Tunnels(m)' <=> j \in Tunnels(m))
        BY <2>1 DEF OnlyMoved, Tunnels
      <4>2. records[m] # NoRecord =>
              (records[m].pid \in Tunnels(m)' <=> records[m].pid \in Tunnels(m))
        BY <2>4, <3>1, <4>1 DEF Tunnels
      <4>3. QED
        BY <1>1, <4>2 DEF TunnelOf
    <3>2. UNCHANGED [m \in Machine |-> TunnelOf(m)]
      BY <2>2, <3>1
    <3>3. QED
      BY <1>1, <3>2 DEF Atomic!vars
  <2>5. QED
    BY <2>3, <2>4
<1>4. QED
  BY <1>2, <1>3

(* Reconcile and Remove, with their many steps, failures and kills, are to *)
(* the outside what AtomicTunnel says they are: Tunnel implements it.      *)
THEOREM ImplementsAtomic == Visible => (ApartSpec => AtomicSpec)
<1> SUFFICES ASSUME Visible PROVE ApartSpec => AtomicSpec
  OBVIOUS
<1>1. Init => Atomic!Init
  BY DEF Init, Atomic!Init, TunnelOf, CallOf, At, Idle, Atomic!Idle
<1>2. TInv /\ KInv /\ TInv' /\ [Next]_vars => [Atomic!Next]_(Atomic!vars)
  <2> SUFFICES ASSUME TInv, KInv, TInv', [Next]_vars
               PROVE  [Atomic!Next]_(Atomic!vars)
    OBVIOUS
  <2>1. ASSUME NEW p \in Proc, Call(p) \/ Step(p) \/ Crash(p)
        PROVE  [Atomic!Next]_(Atomic!vars)
    <3>1. \/ Atomic!Begin(p) \/ Atomic!Keep(p) \/ Atomic!Forget(p)
          \/ Atomic!Open(p) \/ Atomic!Fail(p) \/ Atomic!End(p)
          \/ UNCHANGED Atomic!vars
      BY <2>1, CallAtomic, LoadAtomic, InspectAtomic, StopAtomic,
         DeleteAtomic, StartAtomic, SaveAtomic, LeaveAtomic DEF Step
    <3>2. QED
      BY <3>1 DEF Atomic!Next
  <2>2. ASSUME NEW i \in Pid, Bind(i) \/ Exit(i) \/ Recycle(i)
        PROVE  [Atomic!Next]_(Atomic!vars)
    BY <2>2, SystemAtomic DEF Atomic!Next
  <2>3. CASE Listen \/ UNCHANGED vars
    <3>1. UNCHANGED <<os, records, cmd>>
      BY <2>3 DEF Listen, vars
    <3>2. QED
      BY <3>1, TunnelsStay DEF CallOf, At, Atomic!vars
  <2>4. QED
    BY <2>1, <2>2, <2>3 DEF Next
<1>3. QED
  BY <1>1, <1>2, RecordsInvariant, PTL DEF ApartSpec, AtomicSpec, Atomic!Spec
=============================================================================
