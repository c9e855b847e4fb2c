---------------------------- MODULE AtomicTunnel ----------------------------
(***************************************************************************)
(* What internal/tunnel promises its callers, and what module Lifecycle    *)
(* takes it for: each machine has at most one recorded tunnel. A call      *)
(* forgets one only when it is dead, opens one only where none is, and     *)
(* returns nil only with the tunnel of its request, or with none if it     *)
(* asked for none. A call that fails or dies may have got half of the way. *)
(***************************************************************************)
CONSTANTS Proc, Machine, Address, Port, Request, NoTunnel, NoRequest

VARIABLES
    tunnel,  \* the tunnel recorded of each machine
    call     \* the call of each process, and how it is getting on

vars == <<tunnel, call>>

(* unfwd: the wanted ports that were taken when the tunnel was opened.     *)
Tunnel == [addr: Address, fwd: SUBSET Port, unfwd: SUBSET Port, live: BOOLEAN]

Idle == [state |-> "idle", req |-> NoRequest]

Init ==
    /\ tunnel = [m \in Machine |-> NoTunnel]
    /\ call = [p \in Proc |-> Idle]

Of(p) == tunnel[call[p].req.machine]
Running(p) == call[p].state = "running"
Put(p, t) == tunnel' = [tunnel EXCEPT ![call[p].req.machine] = t]
Return(p, result) == call' = [call EXCEPT ![p].state = result]
WantsNone(p) == call[p].req.op = "remove" \/ call[p].req.want = {}

Begin(p) ==
    /\ call[p] = Idle
    /\ \E req \in Request :
         call' = [call EXCEPT ![p] = [state |-> "running", req |-> req]]
    /\ UNCHANGED tunnel

(* What was asked for is there already.                                    *)
Keep(p) ==
    /\ Running(p)
    /\ Return(p, "ok")
    /\ \/ WantsNone(p) /\ Of(p) = NoTunnel
       \/ /\ call[p].req.op = "reconcile"
          /\ Of(p) # NoTunnel
          /\ Of(p).live /\ Of(p).addr = call[p].req.addr
          /\ Of(p).fwd = call[p].req.want /\ Of(p).unfwd = {}
    /\ UNCHANGED tunnel

Forget(p) ==
    /\ Running(p)
    /\ Return(p, IF WantsNone(p) THEN "ok" ELSE "running")
    /\ Of(p) # NoTunnel /\ ~ Of(p).live
    /\ Put(p, NoTunnel)

(* The tunnel may be dead again before its record is written.              *)
Open(p) ==
    /\ Running(p)
    /\ Return(p, "ok")
    /\ ~ WantsNone(p) /\ Of(p) = NoTunnel
    /\ \E t \in Tunnel :
         /\ t.addr = call[p].req.addr
         /\ t.fwd \cup t.unfwd = call[p].req.want
         /\ Put(p, t)

Fail(p) == Running(p) /\ Return(p, "error") /\ UNCHANGED tunnel

(* The caller goes on, or the command is killed.                           *)
End(p) ==
    /\ call[p] # Idle
    /\ call' = [call EXCEPT ![p] = Idle]
    /\ UNCHANGED tunnel

(* Terminated by a call, or by itself.                                     *)
Dies(m) ==
    /\ tunnel[m] # NoTunnel /\ tunnel[m].live
    /\ tunnel' = [tunnel EXCEPT ![m].live = FALSE]
    /\ UNCHANGED call

Next ==
    \/ \E p \in Proc : Begin(p) \/ Keep(p) \/ Forget(p) \/ Open(p) \/ Fail(p)
                         \/ End(p)
    \/ \E m \in Machine : Dies(m)

Spec == Init /\ [][Next]_vars
=============================================================================
