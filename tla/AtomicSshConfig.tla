-------------------------- MODULE AtomicSshConfig --------------------------
(***************************************************************************)
(* What internal/sshconfig promises its callers: each call carries out its *)
(* few effects, each at one instant and on the files as they are at that   *)
(* instant, in the order the call lists them. A call that returns nil has  *)
(* carried out all of them; one that fails or dies, some prefix of them.   *)
(***************************************************************************)
EXTENDS Sequences, Naturals

CONSTANTS Proc, Alias, HostName, UserLine, Include, NoHost

VARIABLES
    hosts,       \* the address of each configured alias
    known,       \* aliases with a recorded host key
    userConfig,  \* the developer's file
    call,        \* the call each process makes
    todo,        \* the effects it has still to carry out, in order
    result       \* how the last call of each process returned

vars == <<hosts, known, userConfig, call, todo, result>>

Call ==
    [kind: {"apply"}, alias: Alias, host: HostName]
      \cup [kind: {"remove", "forget"}, alias: Alias, host: {NoHost}]
NoCall == [kind |-> "none"]

Effects(c) == CASE c.kind = "apply"  -> <<"host", "include">>
                [] c.kind = "remove" -> <<"host", "keys">>
                [] c.kind = "forget" -> <<"keys">>

Included == \E i \in 1 .. Len(userConfig) : userConfig[i] = Include

Init ==
    /\ hosts = [a \in Alias |-> NoHost]
    /\ known = {}
    /\ userConfig = << >>
    /\ call = [p \in Proc |-> NoCall]
    /\ todo = [p \in Proc |-> << >>]
    /\ result = [p \in Proc |-> "none"]

Start(p) ==
    /\ call[p] = NoCall
    /\ \E c \in Call :
         /\ call' = [call EXCEPT ![p] = c]
         /\ todo' = [todo EXCEPT ![p] = Effects(c)]
    /\ result' = [result EXCEPT ![p] = "none"]
    /\ UNCHANGED <<hosts, known, userConfig>>

Next1(p, effect) ==
    /\ call[p] # NoCall
    /\ todo[p] # << >>
    /\ Head(todo[p]) = effect
    /\ todo' = [todo EXCEPT ![p] = Tail(todo[p])]
    /\ UNCHANGED <<call, result>>

SetHost(p) ==
    /\ Next1(p, "host")
    /\ hosts' = [hosts EXCEPT ![call[p].alias] = call[p].host]
    /\ UNCHANGED <<known, userConfig>>

AddInclude(p) ==
    /\ Next1(p, "include")
    /\ userConfig' = IF Included THEN userConfig
                                 ELSE <<Include>> \o userConfig
    /\ UNCHANGED <<hosts, known>>

ForgetKey(p) ==
    /\ Next1(p, "keys")
    /\ known' = known \ {call[p].alias}
    /\ UNCHANGED <<hosts, userConfig>>

Finish(p) ==
    /\ call[p] # NoCall
    /\ \/ todo[p] = << >> /\ result' = [result EXCEPT ![p] = "ok"]
       \/ result' = [result EXCEPT ![p] = "error"]
    /\ call' = [call EXCEPT ![p] = NoCall]
    /\ todo' = [todo EXCEPT ![p] = << >>]
    /\ UNCHANGED <<hosts, known, userConfig>>

(* ssh records a key; the developer adds a line or drops the first.        *)
Outside ==
    /\ \/ /\ \E a \in Alias : known' = known \cup {a}
          /\ UNCHANGED userConfig
       \/ /\ \E l \in UserLine : userConfig' = Append(userConfig, l)
          /\ UNCHANGED known
       \/ /\ userConfig # << >>
          /\ userConfig' = Tail(userConfig)
          /\ UNCHANGED known
    /\ UNCHANGED <<hosts, call, todo, result>>

Next ==
    \/ \E p \in Proc :
         Start(p) \/ SetHost(p) \/ AddInclude(p) \/ ForgetKey(p) \/ Finish(p)
    \/ Outside

Spec == Init /\ [][Next]_vars
=============================================================================
