----------------------------- MODULE MCTunnel ------------------------------
(* TLC instances of Tunnel: the requests commands make.                  *)
EXTENDS Tunnel, TLC

CONSTANTS m1, m2, a1, a2, k1, k2

Up(m, a, ports) ==
    [op |-> "reconcile", machine |-> m, addr |-> a, want |-> ports]
Down(m) == [op |-> "remove", machine |-> m, addr |-> a1, want |-> {}]

(* Either machine wants the one port; one of them stops. *)
OnePort == {Up(m1, a1, {k1}), Up(m2, a1, {k1}), Down(m1)}

(* One machine goes up and down. *)
UpDown == {Up(m1, a1, {k1}), Up(m1, a1, {k1, k2}), Down(m1)}

(* Two machines that want the same port; one of them moves, both stop. *)
SamePort == {Up(m1, a1, {k1}), Up(m1, a2, {k1}), Down(m1),
             Up(m2, a1, {k1}), Down(m2)}

(* One machine that moves, changes its ports and stops, and another that   *)
(* wants one of them. *)
TwoMachines ==
    {Up(m1, a1, {k1, k2}), Up(m1, a2, {k1, k2}), Up(m1, a1, {k1}),
     Up(m1, a1, {}), Down(m1), Up(m2, a1, {k2})}

(* Nothing tells one command, or one process ID, from another. *)
Symmetry == Permutations(Proc) \cup Permutations(Pid)
=============================================================================
