-------------------------- MODULE SshConfigProofs --------------------------
(***************************************************************************)
(* Theorems about SshConfig, for any sets of processes, aliases, addresses *)
(* and developer lines.                                                    *)
(***************************************************************************)
EXTENDS SshConfig, SequenceTheorems, TLAPS

-----------------------------------------------------------------------------
(* The state has its type: every local copy is one of a whole file, and a  *)
(* process inside a call has the arguments of that call.                   *)
THEOREM TypeCorrect == Spec => []TypeOK
<1>1. Init => TypeOK
  BY DEF Init, TypeOK, Hosts, NoHosts, UserConfig
<1>2. TypeOK /\ [Next]_vars => TypeOK'
  <2> SUFFICES ASSUME TypeOK, [Next]_vars PROVE TypeOK'
    OBVIOUS
  <2> USE DEF TypeOK, Goto, files, seen, Locked
  <2>1. ASSUME NEW p \in Proc, Invoke(p) PROVE TypeOK'
    BY <2>1 DEF Invoke
  <2>2. ASSUME NEW p \in Proc, WithLock(p) PROVE TypeOK'
    BY <2>2 DEF WithLock
  <2>3. ASSUME NEW p \in Proc, LoadBlocks(p) PROVE TypeOK'
    BY <2>3 DEF LoadBlocks
  <2>4. ASSUME NEW p \in Proc, WriteConfig(p) PROVE TypeOK'
    <3>1. call[p] \in Call
      BY <2>4 DEF WriteConfig
    <3>2. call[p].alias \in Alias /\ call[p].host \in HostName \cup {NoHost}
      BY <3>1 DEF Call
    <3>3. hosts' \in Hosts
      BY <2>4, <3>2 DEF WriteConfig, Rendered, Hosts
    <3> QED
      BY <2>4, <3>3 DEF WriteConfig
  <2>5. ASSUME NEW p \in Proc, ReadUserConfig(p) PROVE TypeOK'
    BY <2>5 DEF ReadUserConfig
  <2>6. ASSUME NEW p \in Proc, WriteUserConfig(p) PROVE TypeOK'
    <3>1. userConfig' \in UserConfig
      BY <2>6 DEF WriteUserConfig, UserConfig
    <3> QED
      BY <2>6, <3>1 DEF WriteUserConfig
  <2>7. ASSUME NEW p \in Proc, ReadKnownHosts(p) PROVE TypeOK'
    BY <2>7 DEF ReadKnownHosts
  <2>8. ASSUME NEW p \in Proc, WriteKnownHosts(p) PROVE TypeOK'
    BY <2>8 DEF WriteKnownHosts
  <2>9. ASSUME NEW p \in Proc, NEW how \in {"ok", "error"}, Return(p, how)
        PROVE  TypeOK'
    BY <2>9 DEF Return, NoHosts, Hosts, UserConfig
  <2>10. CASE Outside
    <3>1. ASSUME NEW a \in Alias, SshRecordsKey(a) PROVE TypeOK'
      BY <3>1 DEF SshRecordsKey
    <3>2. ASSUME NEW l \in UserLine, DeveloperAdds(l) PROVE TypeOK'
      <4>1. userConfig' \in UserConfig
        BY <3>2 DEF DeveloperAdds, UserConfig
      <4> QED
        BY <3>2, <4>1 DEF DeveloperAdds
    <3>3. CASE DeveloperDropsFirst
      <4>1. userConfig' \in UserConfig
        BY <3>3, HeadTailProperties DEF DeveloperDropsFirst, UserConfig
      <4> QED
        BY <3>3, <4>1 DEF DeveloperDropsFirst
    <3> QED
      BY <2>10, <3>1, <3>2, <3>3 DEF Outside
  <2>11. CASE UNCHANGED vars
    BY <2>11 DEF vars
  <2> QED
    BY <2>1, <2>2, <2>3, <2>4, <2>5, <2>6, <2>7, <2>8, <2>9, <2>10, <2>11
    DEF Next, Step, Unlock, Abandon
<1> QED
  BY <1>1, <1>2, PTL DEF Spec
-----------------------------------------------------------------------------
(* The inductive invariant. Whoever is past flock is the one holder, what  *)
(* it read of the managed config is what the file still says, and a        *)
(* process about to add the directive is right that it is missing: nobody  *)
(* else adds it.                                                           *)
LockHeld == \A p \in Proc : pc[p] \in Locked => lock = p

FreshBlocks == \A p \in Proc : pc[p] = "writeConfig" => seenHosts[p] = hosts

IncludeMissing ==
    \A p \in Proc : pc[p] = "writeInclude" =>
        ~ IsIncluded(seenUser[p]) /\ ~ IsIncluded(userConfig)

IInv == TypeOK /\ LockHeld /\ FreshBlocks /\ IncludeMissing /\ OneInclude

(* Putting the directive before lines that lack it includes it once.       *)
LEMMA PrependInclude ==
  ASSUME NEW s \in UserConfig, ~ IsIncluded(s)
  PROVE  \A i, j \in 1 .. Len(<<Include>> \o s) :
           /\ (<<Include>> \o s)[i] = Include
           /\ (<<Include>> \o s)[j] = Include
           => i = j
<1> DEFINE T == UserLine \cup {Include}
           c == <<Include>> \o s
<1>1. s \in Seq(T) /\ <<Include>> \in Seq(T)
  BY DEF UserConfig
<1>2. /\ Len(c) = 1 + Len(s)
      /\ \A i \in 1 .. 1 + Len(s) : c[i] = IF i <= 1 THEN Include ELSE s[i - 1]
  BY <1>1, ConcatProperties, Len(<<Include>>) = 1, <<Include>>[1] = Include
<1>3. Len(s) \in Nat
  BY <1>1, LenProperties
<1>4. ASSUME NEW i \in 1 .. Len(c), c[i] = Include PROVE i = 1
  <2> SUFFICES ASSUME i # 1 PROVE FALSE
    OBVIOUS
  <2>1. i - 1 \in 1 .. Len(s) /\ s[i - 1] = Include
    BY <1>2, <1>3, <1>4
  <2> QED
    BY <2>1 DEF IsIncluded
<1> QED
  BY <1>4

(* Saving the file with one more line of the developer's adds no directive.*)
LEMMA DeveloperAddsNoInclude ==
  ASSUME NEW s \in UserConfig, NEW l \in UserLine
  PROVE  /\ \A i \in 1 .. Len(Append(s, l)) :
              Append(s, l)[i] = Include => i \in 1 .. Len(s) /\ s[i] = Include
         /\ Append(s, l) \in UserConfig
<1>1. s \in Seq(UserLine \cup {Include})
  BY DEF UserConfig
<1>2. l # Include
  BY ConstantAssumption DEF ConstantAssumption
<1> QED
  BY <1>1, <1>2, LenProperties, AppendProperties DEF UserConfig

(* The lock keeps the one invariant that the safety of the files rests on: *)
(* it holds in every behaviour, with racing writers or without (withLock). *)
THEOREM Invariant == Spec => []IInv
<1>1. Init => IInv
  BY DEF Init, IInv, TypeOK, Hosts, NoHosts, UserConfig, LockHeld,
         FreshBlocks, IncludeMissing, OneInclude, Locked
<1>2. IInv /\ TypeOK' /\ [Next]_vars => IInv'
  <2> SUFFICES ASSUME IInv, TypeOK', [Next]_vars
               PROVE  /\ LockHeld' /\ FreshBlocks'
                      /\ IncludeMissing' /\ OneInclude'
    BY DEF IInv
  <2> USE DEF TypeOK, LockHeld, FreshBlocks, IncludeMissing, Locked
  <2> TypeOK /\ LockHeld /\ FreshBlocks /\ IncludeMissing /\ OneInclude
    BY DEF IInv
  <2> NoProc \notin Proc
    BY ConstantAssumption DEF ConstantAssumption
  <2>1. ASSUME NEW p \in Proc, Invoke(p)
        PROVE  LockHeld' /\ FreshBlocks' /\ IncludeMissing' /\ OneInclude'
    BY <2>1 DEF Invoke, Goto, files, seen, OneInclude
  <2>2. ASSUME NEW p \in Proc, WithLock(p)
        PROVE  LockHeld' /\ FreshBlocks' /\ IncludeMissing' /\ OneInclude'
    BY <2>2 DEF WithLock, Goto, files, seen, OneInclude
  <2>3. ASSUME NEW p \in Proc, LoadBlocks(p)
        PROVE  LockHeld' /\ FreshBlocks' /\ IncludeMissing' /\ OneInclude'
    BY <2>3 DEF LoadBlocks, Goto, files, OneInclude
  <2>4. ASSUME NEW p \in Proc, WriteConfig(p)
        PROVE  LockHeld' /\ FreshBlocks' /\ IncludeMissing' /\ OneInclude'
    BY <2>4 DEF WriteConfig, Goto, seen, OneInclude
  <2>5. ASSUME NEW p \in Proc, ReadUserConfig(p)
        PROVE  LockHeld' /\ FreshBlocks' /\ IncludeMissing' /\ OneInclude'
    BY <2>5 DEF ReadUserConfig, Goto, files, OneInclude
  <2>6. ASSUME NEW p \in Proc, WriteUserConfig(p)
        PROVE  LockHeld' /\ FreshBlocks' /\ IncludeMissing' /\ OneInclude'
    <3>1. OneInclude'
      BY <2>6, PrependInclude DEF WriteUserConfig, Goto, OneInclude
    <3> QED
      BY <2>6, <3>1 DEF WriteUserConfig, Goto, seen
  <2>7. ASSUME NEW p \in Proc, ReadKnownHosts(p)
        PROVE  LockHeld' /\ FreshBlocks' /\ IncludeMissing' /\ OneInclude'
    BY <2>7 DEF ReadKnownHosts, Goto, files, OneInclude
  <2>8. ASSUME NEW p \in Proc, WriteKnownHosts(p)
        PROVE  LockHeld' /\ FreshBlocks' /\ IncludeMissing' /\ OneInclude'
    BY <2>8 DEF WriteKnownHosts, Goto, seen, OneInclude
  <2>9. ASSUME NEW p \in Proc, NEW how \in {"ok", "error"}, Return(p, how)
        PROVE  LockHeld' /\ FreshBlocks' /\ IncludeMissing' /\ OneInclude'
    BY <2>9 DEF Return, files, OneInclude
  <2>10. CASE Outside
    <3>1. ASSUME NEW a \in Alias, SshRecordsKey(a)
          PROVE  LockHeld' /\ FreshBlocks' /\ IncludeMissing' /\ OneInclude'
      BY <3>1 DEF SshRecordsKey, seen, OneInclude
    <3>2. ASSUME NEW l \in UserLine, DeveloperAdds(l)
          PROVE  LockHeld' /\ FreshBlocks' /\ IncludeMissing' /\ OneInclude'
      <4>1. OneInclude' /\ (~ IsIncluded(userConfig) => ~ IsIncluded(userConfig'))
        BY <3>2, DeveloperAddsNoInclude DEF DeveloperAdds, OneInclude, IsIncluded
      <4> QED
        BY <3>2, <4>1 DEF DeveloperAdds, seen
    <3>3. CASE DeveloperDropsFirst
      <4>1. /\ Len(userConfig) \in Nat
            /\ Len(userConfig') = Len(userConfig) - 1
            /\ \A i \in 1 .. Len(userConfig') : userConfig'[i] = userConfig[i + 1]
        BY <3>3, HeadTailProperties, LenProperties
        DEF DeveloperDropsFirst, UserConfig
      <4>2. \A i \in 1 .. Len(userConfig') : i + 1 \in 1 .. Len(userConfig)
        BY <4>1
      <4>3. ~ IsIncluded(userConfig) => ~ IsIncluded(userConfig')
        BY <4>1, <4>2 DEF IsIncluded
      <4>4. OneInclude'
        <5> SUFFICES ASSUME NEW i \in 1 .. Len(userConfig'),
                            NEW j \in 1 .. Len(userConfig'),
                            userConfig'[i] = Include, userConfig'[j] = Include
                     PROVE  i = j
          BY DEF OneInclude
        <5>1. userConfig[i + 1] = Include /\ userConfig[j + 1] = Include
          BY <4>1
        <5>2. i + 1 = j + 1
          BY <4>2, <5>1 DEF OneInclude
        <5> QED
          BY <5>2
      <4> QED
        BY <3>3, <4>3, <4>4 DEF DeveloperDropsFirst, seen
    <3> QED
      BY <2>10, <3>1, <3>2, <3>3 DEF Outside
  <2>11. CASE UNCHANGED vars
    BY <2>11 DEF vars, OneInclude, IsIncluded
  <2> QED
    BY <2>1, <2>2, <2>3, <2>4, <2>5, <2>6, <2>7, <2>8, <2>9, <2>10, <2>11
    DEF Next, Step, Unlock, Abandon
<1> QED
  BY <1>1, <1>2, TypeCorrect, PTL DEF Spec

(* The developer's file never holds the Include directive twice, for any   *)
(* number of processes, edits and crashes.                                 *)
THEOREM IncludedOnce == Spec => []OneInclude
BY Invariant, PTL DEF IInv

(* No call ever changes the host block of another alias: there is no lost  *)
(* update of the managed config.                                           *)
THEOREM NoLostBlock == Spec => OnlyOwnBlockChanges
<1>1. IInv /\ [Next]_vars => [OwnBlockStep]_vars
  <2> SUFFICES ASSUME IInv, Next, NEW a \in Alias, hosts'[a] # hosts[a]
               PROVE  \E p \in Proc : pc[p] = "writeConfig" /\ call[p].alias = a
    BY DEF OwnBlockStep
  <2>1. PICK p \in Proc : WriteConfig(p)
    BY DEF Next, Step, Outside, Invoke, WithLock, LoadBlocks, ReadUserConfig,
           WriteUserConfig, ReadKnownHosts, WriteKnownHosts, Unlock, Abandon,
           Return, SshRecordsKey, DeveloperAdds, DeveloperDropsFirst, files
  <2>2. seenHosts[p] = hosts /\ hosts \in Hosts /\ pc[p] = "writeConfig"
    BY <2>1 DEF IInv, FreshBlocks, TypeOK, WriteConfig, Goto
  <2>3. call[p].alias = a
    BY <2>1, <2>2 DEF WriteConfig, Rendered, Hosts
  <2> QED
    BY <2>2, <2>3
<1> QED
  BY <1>1, Invariant, PTL DEF Spec, OnlyOwnBlockChanges
-----------------------------------------------------------------------------
(* The refinement. When nobody else writes inside a window, what a process *)
(* read is what the file still says when it writes; and the arguments of a *)
(* call say where it can be.                                               *)
FreshCopies ==
    \A p \in Proc :
        /\ pc[p] = "writeInclude" => seenUser[p] = userConfig
        /\ pc[p] = "writeKeys" => seenKnown[p] = known

CallSteps ==
    \A p \in Proc :
        /\ pc[p] = "idle" => call[p] = NoCall
        /\ pc[p] \in {"load", "writeConfig"} => call[p].kind # "forget"

(* The parts of a call, and that only apply carries an address.            *)
LEMMA CallFields ==
  ASSUME NEW c \in Call
  PROVE  /\ c.kind \in {"apply", "remove", "forget"}
         /\ c.alias \in Alias
         /\ c.host \in HostName \cup {NoHost}
         /\ c.kind # "apply" => c.host = NoHost
         /\ c # NoCall
BY DEF Call, NoCall

(* A call with one effect left has none left once it is carried out.       *)
LEMMA LastEffect ==
  ASSUME NEW e
  PROVE  Head(<<e>>) = e /\ <<e>> # << >> /\ Tail(<<e>>) = << >>
<1>1. <<e>> \in Seq({e}) /\ Len(<<e>>) = 1 /\ <<e>> # << >>
  OBVIOUS
<1>2. Tail(<<e>>) \in Seq({e}) /\ Len(Tail(<<e>>)) = 0
  BY <1>1, HeadTailProperties
<1> QED
  BY <1>1, <1>2, EmptySeq

(* Without racing writers the copies a call writes back from are fresh,    *)
(* and a call is only where its kind takes it (ensureInclude,              *)
(* forgetHostKey).                                                         *)
LEMMA FreshInvariant ==
  ASSUME ~ Races
  PROVE  Spec => [](FreshCopies /\ CallSteps)
<1>1. Init => FreshCopies /\ CallSteps
  BY DEF Init, FreshCopies, CallSteps
<1>2. IInv /\ FreshCopies /\ CallSteps /\ [Next]_vars
        => (FreshCopies /\ CallSteps)'
  <2> SUFFICES ASSUME IInv, FreshCopies, CallSteps, [Next]_vars
               PROVE  FreshCopies' /\ CallSteps'
    OBVIOUS
  <2> USE DEF FreshCopies, CallSteps, Goto, files, seen
  <2> TypeOK /\ LockHeld
    BY DEF IInv
  <2> USE DEF TypeOK, LockHeld, Locked
  <2>1. ASSUME NEW p \in Proc, Invoke(p) PROVE FreshCopies' /\ CallSteps'
    BY <2>1 DEF Invoke
  <2>2. ASSUME NEW p \in Proc, WithLock(p) PROVE FreshCopies' /\ CallSteps'
    BY <2>2 DEF WithLock
  <2>3. ASSUME NEW p \in Proc, LoadBlocks(p) PROVE FreshCopies' /\ CallSteps'
    BY <2>3 DEF LoadBlocks
  <2>4. ASSUME NEW p \in Proc, WriteConfig(p) PROVE FreshCopies' /\ CallSteps'
    BY <2>4 DEF WriteConfig
  <2>5. ASSUME NEW p \in Proc, ReadUserConfig(p) PROVE FreshCopies' /\ CallSteps'
    BY <2>5 DEF ReadUserConfig
  <2>6. ASSUME NEW p \in Proc, WriteUserConfig(p) PROVE FreshCopies' /\ CallSteps'
    BY <2>6 DEF WriteUserConfig
  <2>7. ASSUME NEW p \in Proc, ReadKnownHosts(p) PROVE FreshCopies' /\ CallSteps'
    BY <2>7 DEF ReadKnownHosts
  <2>8. ASSUME NEW p \in Proc, WriteKnownHosts(p) PROVE FreshCopies' /\ CallSteps'
    BY <2>8 DEF WriteKnownHosts
  <2>9. ASSUME NEW p \in Proc, NEW how \in {"ok", "error"}, Return(p, how)
        PROVE  FreshCopies' /\ CallSteps'
    BY <2>9 DEF Return
  <2>10. CASE Outside
    BY <2>10 DEF Outside, SshRecordsKey, DeveloperAdds, DeveloperDropsFirst
  <2>11. CASE UNCHANGED vars
    BY <2>11 DEF vars
  <2> QED
    BY <2>1, <2>2, <2>3, <2>4, <2>5, <2>6, <2>7, <2>8, <2>9, <2>10, <2>11
    DEF Next, Step, Unlock, Abandon
<1> QED
  BY <1>1, <1>2, Invariant, PTL DEF Spec

(* Without racing writers a call changes the developer's file only by      *)
(* putting the directive before what the file holds at that moment         *)
(* (ensureInclude).                                                        *)
THEOREM KeepsDeveloperLines ==
  ASSUME ~ Races
  PROVE  Spec => DeveloperLinesKept
<1> DEFINE Kept == pc' # pc =>
                     userConfig' \in {userConfig, <<Include>> \o userConfig}
<1>1. FreshCopies /\ [Next]_vars => [Kept]_vars
  <2> SUFFICES ASSUME FreshCopies, Next, pc' # pc, userConfig' # userConfig
               PROVE  userConfig' = <<Include>> \o userConfig
    OBVIOUS
  <2>1. PICK p \in Proc : WriteUserConfig(p)
    BY DEF Next, Step, Outside, Invoke, WithLock, LoadBlocks, WriteConfig,
           ReadUserConfig, ReadKnownHosts, WriteKnownHosts, Unlock, Abandon,
           Return, SshRecordsKey, DeveloperAdds, DeveloperDropsFirst, files
  <2> QED
    BY <2>1 DEF FreshCopies, WriteUserConfig, Goto
<1> QED
  BY <1>1, FreshInvariant, PTL DEF Spec, DeveloperLinesKept

(* What a Remove that is past its rewrite of the managed config has        *)
(* achieved. Only its own rewrite could bring the block back, and ssh      *)
(* records keys of hosts that have one.                                    *)
Removed ==
    \A p \in Proc :
        /\ pc[p] \in {"readInclude", "writeInclude"} => call[p].kind = "apply"
        /\ pc[p] \in {"readKeys", "writeKeys", "unlock"}
             /\ call[p].kind = "remove" => hosts[call[p].alias] = NoHost
        /\ pc[p] = "unlock" /\ call[p].kind = "remove" =>
             call[p].alias \notin known

LEMMA RemovedInvariant ==
  ASSUME ~ Races
  PROVE  Spec => []Removed
<1>1. Init => Removed
  BY DEF Init, Removed
<1>2. IInv /\ FreshCopies /\ CallSteps /\ Removed /\ [Next]_vars => Removed'
  <2> SUFFICES ASSUME IInv, FreshCopies, CallSteps, Removed, [Next]_vars
               PROVE  Removed'
    OBVIOUS
  <2> TypeOK /\ LockHeld /\ FreshBlocks
    BY DEF IInv
  <2> USE DEF Removed, Goto, files, seen, TypeOK, LockHeld, Locked
  <2>1. ASSUME NEW p \in Proc, Invoke(p) PROVE Removed'
    BY <2>1 DEF Invoke
  <2>2. ASSUME NEW p \in Proc, WithLock(p) PROVE Removed'
    BY <2>2, CallFields DEF WithLock
  <2>3. ASSUME NEW p \in Proc, LoadBlocks(p) PROVE Removed'
    BY <2>3 DEF LoadBlocks
  <2>4. ASSUME NEW p \in Proc, WriteConfig(p) PROVE Removed'
    <3>1. /\ call[p] \in Call /\ pc[p] = "writeConfig" /\ seenHosts[p] = hosts
          /\ \A q \in Proc : pc[q] \in Locked => q = p
      BY <2>4 DEF WriteConfig, FreshBlocks
    <3>2. call[p].kind = "remove" => hosts'[call[p].alias] = NoHost
      BY <2>4, <3>1, CallFields DEF WriteConfig, Rendered, Hosts
    <3>3. QED
      BY <2>4, <3>1, <3>2, CallFields DEF WriteConfig, CallSteps
  <2>5. ASSUME NEW p \in Proc, ReadUserConfig(p) PROVE Removed'
    BY <2>5 DEF ReadUserConfig
  <2>6. ASSUME NEW p \in Proc, WriteUserConfig(p) PROVE Removed'
    BY <2>6 DEF WriteUserConfig
  <2>7. ASSUME NEW p \in Proc, ReadKnownHosts(p) PROVE Removed'
    BY <2>7 DEF ReadKnownHosts
  <2>8. ASSUME NEW p \in Proc, WriteKnownHosts(p) PROVE Removed'
    BY <2>8 DEF WriteKnownHosts
  <2>9. ASSUME NEW p \in Proc, NEW how \in {"ok", "error"}, Return(p, how)
        PROVE  Removed'
    BY <2>9 DEF Return
  <2>10. CASE Outside
    BY <2>10 DEF Outside, SshRecordsKey, DeveloperAdds, DeveloperDropsFirst
  <2>11. CASE UNCHANGED vars
    BY <2>11 DEF vars
  <2> QED
    BY <2>1, <2>2, <2>3, <2>4, <2>5, <2>6, <2>7, <2>8, <2>9, <2>10, <2>11
    DEF Next, Step, Unlock, Abandon
<1> QED
  BY <1>1, <1>2, Invariant, FreshInvariant, PTL DEF Spec

(* Without racing writers a Remove that returns nil has left neither host  *)
(* block nor host key, whatever ran beside it or failed before (Remove).   *)
THEOREM RemoveIsThorough ==
  ASSUME ~ Races
  PROVE  Spec => RemoveLeavesNothing
<1>1. Removed => \A p \in Proc :
         /\ pc[p] = "unlock"
         /\ call[p].kind = "remove"
         /\ result'[p] = "ok"
         => hosts[call[p].alias] = NoHost /\ call[p].alias \notin known
  BY DEF Removed
<1> QED
  BY <1>1, RemovedInvariant, PTL DEF RemoveLeavesNothing

(* Apply, Remove and ForgetHostKey carry out their effects atomically, in  *)
(* order and on the current files, and a call that returns nil has carried *)
(* out all of them, whoever else runs, fails or dies: SshConfig implements *)
(* AtomicSshConfig.                                                        *)
THEOREM ImplementsAtomic ==
  ASSUME ~ Races
  PROVE  Spec => AtomicSpec
<1> DEFINE todo == [p \in Proc |-> Todo(p)]
<1>1. Init => Atomic!Init
  BY DEF Init, Atomic!Init, NoHosts, NoCall, Atomic!NoCall, Todo
<1>2. /\ IInv /\ IInv' /\ FreshCopies /\ CallSteps /\ CallSteps'
      /\ [Next]_vars
      => [Atomic!Next]_(Atomic!vars)
  <2> SUFFICES ASSUME IInv, IInv', FreshCopies, CallSteps, CallSteps', [Next]_vars
               PROVE  [Atomic!Next]_(Atomic!vars)
    OBVIOUS
  <2> TypeOK /\ TypeOK' /\ FreshBlocks
    BY DEF IInv
  <2> USE DEF Goto
  <2> todo \in [Proc -> {Todo(p) : p \in Proc}]
    OBVIOUS
  <2>0. ASSUME NEW p \in Proc, call[p] \in Call
        PROVE  call[p].kind \in {"apply", "remove", "forget"}
    BY <2>0, CallFields
  <2>1. ASSUME NEW p \in Proc, Invoke(p) PROVE Atomic!Start(p)
    <3>1. PICK c \in Call : call' = [call EXCEPT ![p] = c]
      BY <2>1 DEF Invoke
    <3>2. pc[p] = "idle" /\ pc' = [pc EXCEPT ![p] = "locking"]
      BY <2>1 DEF Invoke
    <3>3. call'[p] = c /\ pc'[p] = "locking"
      BY <3>1, <3>2 DEF TypeOK
    <3>4. Todo(p)' = Atomic!Effects(c)
      BY <3>3, CallFields DEF Todo, Atomic!Effects
    <3>5. \A q \in Proc : q # p => Todo(q)' = Todo(q)
      BY <3>1, <3>2 DEF Todo, TypeOK
    <3>6. todo' = [todo EXCEPT ![p] = Atomic!Effects(c)]
      BY <3>4, <3>5
    <3>7. c \in Atomic!Call /\ call[p] = Atomic!NoCall
      BY <3>2 DEF CallSteps, Call, Atomic!Call, NoCall, Atomic!NoCall
    <3> QED
      BY <2>1, <3>1, <3>6, <3>7 DEF Invoke, Atomic!Start, files
  <2>2. ASSUME NEW p \in Proc, WithLock(p) PROVE UNCHANGED Atomic!vars
    <3>1. call[p] \in Call
      BY <2>2 DEF WithLock, TypeOK
    <3>2. \A q \in Proc : q # p => Todo(q)' = Todo(q)
      BY <2>2 DEF WithLock, Todo, TypeOK
    <3>3. Todo(p)' = Todo(p)
      BY <2>2, <2>0, <3>1 DEF WithLock, Todo, TypeOK
    <3> QED
      BY <2>2, <3>2, <3>3 DEF WithLock, Atomic!vars, files
  <2>3. ASSUME NEW p \in Proc, LoadBlocks(p) PROVE UNCHANGED Atomic!vars
    <3>1. \A q \in Proc : q # p => Todo(q)' = Todo(q)
      BY <2>3 DEF LoadBlocks, Todo, TypeOK
    <3>2. call'[p] = call[p] /\ pc[p] = "load" /\ pc'[p] = "writeConfig"
      BY <2>3 DEF LoadBlocks, TypeOK
    <3>3. Todo(p)' = Todo(p)
      BY <3>2 DEF Todo
    <3> QED
      BY <2>3, <3>1, <3>3 DEF LoadBlocks, Atomic!vars, files
  <2>4. ASSUME NEW p \in Proc, WriteConfig(p) PROVE Atomic!SetHost(p)
    <3>1. /\ call[p] \in Call
          /\ call[p].kind \in {"apply", "remove"}
          /\ pc[p] = "writeConfig"
          /\ seenHosts[p] = hosts
      BY <2>4, <2>0 DEF WriteConfig, TypeOK, CallSteps, FreshBlocks
    <3>2. hosts' = [hosts EXCEPT ![call[p].alias] = call[p].host]
      <4>1. CASE call[p].kind = "remove" /\ hosts[call[p].alias] = NoHost
        BY <2>4, <3>1, <4>1, CallFields DEF WriteConfig, TypeOK, Hosts
      <4>2. CASE ~ (call[p].kind = "remove" /\ hosts[call[p].alias] = NoHost)
        BY <2>4, <3>1, <4>2 DEF WriteConfig, Rendered
      <4> QED
        BY <4>1, <4>2
    <3>3. Todo(p) = IF call[p].kind = "apply" THEN <<"host", "include">>
                                              ELSE <<"host", "keys">>
      BY <3>1 DEF Todo
    <3>4. Todo(p)' = IF call[p].kind = "apply" THEN <<"include">> ELSE <<"keys">>
      BY <2>4, <3>1 DEF WriteConfig, Todo, TypeOK
    <3>5. \A q \in Proc : q # p => Todo(q)' = Todo(q)
      BY <2>4 DEF WriteConfig, Todo, TypeOK
    <3>6. /\ Todo(p) # << >>
          /\ Head(Todo(p)) = "host"
          /\ Todo(p)' = Tail(Todo(p))
      BY <3>3, <3>4
    <3>7. todo' = [todo EXCEPT ![p] = Tail(todo[p])]
      BY <3>5, <3>6
    <3>8. call[p] # Atomic!NoCall
      BY <3>1, CallFields DEF NoCall, Atomic!NoCall
    <3> QED
      BY <2>4, <3>2, <3>6, <3>7, <3>8
      DEF WriteConfig, Atomic!SetHost, Atomic!Next1
  <2>5. ASSUME NEW p \in Proc, ReadUserConfig(p)
        PROVE  Atomic!AddInclude(p) \/ UNCHANGED Atomic!vars
    <3>1. \A q \in Proc : q # p => Todo(q)' = Todo(q)
      BY <2>5 DEF ReadUserConfig, Todo, TypeOK
    <3>2. pc[p] = "readInclude" /\ Todo(p) = <<"include">>
      BY <2>5 DEF ReadUserConfig, Todo
    <3>3. CASE IsIncluded(userConfig)
      <4>1. Todo(p)' = << >>
        BY <2>5, <3>3 DEF ReadUserConfig, Todo, TypeOK
      <4>2. todo' = [todo EXCEPT ![p] = Tail(todo[p])]
        BY <3>1, <3>2, <4>1, LastEffect
      <4>3. call[p] # Atomic!NoCall
        BY <3>2, CallFields DEF TypeOK, NoCall, Atomic!NoCall
      <4>4. Atomic!Included
        BY <3>3 DEF IsIncluded, Atomic!Included
      <4>5. Atomic!Next1(p, "include")
        BY <2>5, <3>2, <4>2, <4>3, LastEffect DEF ReadUserConfig, Atomic!Next1
      <4> QED
        BY <2>5, <4>4, <4>5 DEF ReadUserConfig, Atomic!AddInclude, files
    <3>4. CASE ~ IsIncluded(userConfig)
      <4>1. Todo(p)' = Todo(p)
        BY <2>5, <3>2, <3>4 DEF ReadUserConfig, Todo, TypeOK
      <4> QED
        BY <2>5, <3>1, <4>1 DEF ReadUserConfig, Atomic!vars, files
    <3> QED
      BY <3>3, <3>4
  <2>6. ASSUME NEW p \in Proc, WriteUserConfig(p) PROVE Atomic!AddInclude(p)
    <3>1. /\ pc[p] = "writeInclude"
          /\ seenUser[p] = userConfig
          /\ ~ IsIncluded(userConfig)
      BY <2>6 DEF WriteUserConfig, FreshCopies, IInv, IncludeMissing
    <3>2. Todo(p) = <<"include">> /\ Todo(p)' = << >>
      BY <2>6, <3>1 DEF WriteUserConfig, Todo, TypeOK
    <3>3. \A q \in Proc : q # p => Todo(q)' = Todo(q)
      BY <2>6 DEF WriteUserConfig, Todo, TypeOK
    <3>4. todo' = [todo EXCEPT ![p] = Tail(todo[p])]
      BY <3>2, <3>3, LastEffect
    <3>5. call[p] # Atomic!NoCall
      BY <3>1, CallFields DEF TypeOK, NoCall, Atomic!NoCall
    <3>6. Atomic!Next1(p, "include")
      BY <2>6, <3>2, <3>4, <3>5, LastEffect DEF WriteUserConfig, Atomic!Next1
    <3> QED
      BY <2>6, <3>1, <3>6
      DEF WriteUserConfig, Atomic!AddInclude, IsIncluded, Atomic!Included
  <2>7. ASSUME NEW p \in Proc, ReadKnownHosts(p)
        PROVE  Atomic!ForgetKey(p) \/ UNCHANGED Atomic!vars
    <3>1. \A q \in Proc : q # p => Todo(q)' = Todo(q)
      BY <2>7 DEF ReadKnownHosts, Todo, TypeOK
    <3>2. pc[p] = "readKeys" /\ Todo(p) = <<"keys">>
      BY <2>7 DEF ReadKnownHosts, Todo
    <3>3. CASE call[p].alias \notin known
      <4>1. Todo(p)' = << >>
        BY <2>7, <3>3 DEF ReadKnownHosts, Todo, TypeOK
      <4>2. todo' = [todo EXCEPT ![p] = Tail(todo[p])]
        BY <3>1, <3>2, <4>1, LastEffect
      <4>3. call[p] # Atomic!NoCall
        BY <3>2, CallFields DEF TypeOK, NoCall, Atomic!NoCall
      <4>4. known = known \ {call[p].alias}
        BY <3>3
      <4>5. Atomic!Next1(p, "keys")
        BY <2>7, <3>2, <4>2, <4>3, LastEffect DEF ReadKnownHosts, Atomic!Next1
      <4> QED
        BY <2>7, <4>4, <4>5 DEF ReadKnownHosts, Atomic!ForgetKey, files
    <3>4. CASE call[p].alias \in known
      <4>1. Todo(p)' = Todo(p)
        BY <2>7, <3>2, <3>4 DEF ReadKnownHosts, Todo, TypeOK
      <4> QED
        BY <2>7, <3>1, <4>1 DEF ReadKnownHosts, Atomic!vars, files
    <3> QED
      BY <3>3, <3>4
  <2>8. ASSUME NEW p \in Proc, WriteKnownHosts(p) PROVE Atomic!ForgetKey(p)
    <3>1. pc[p] = "writeKeys" /\ seenKnown[p] = known
      BY <2>8 DEF WriteKnownHosts, FreshCopies
    <3>2. Todo(p) = <<"keys">> /\ Todo(p)' = << >>
      BY <2>8, <3>1 DEF WriteKnownHosts, Todo, TypeOK
    <3>3. \A q \in Proc : q # p => Todo(q)' = Todo(q)
      BY <2>8 DEF WriteKnownHosts, Todo, TypeOK
    <3>4. todo' = [todo EXCEPT ![p] = Tail(todo[p])]
      BY <3>2, <3>3, LastEffect
    <3>5. call[p] # Atomic!NoCall
      BY <3>1, CallFields DEF TypeOK, NoCall, Atomic!NoCall
    <3>6. Atomic!Next1(p, "keys")
      BY <2>8, <3>2, <3>4, <3>5, LastEffect DEF WriteKnownHosts, Atomic!Next1
    <3> QED
      BY <2>8, <3>1, <3>6 DEF WriteKnownHosts, Atomic!ForgetKey
  <2>9. ASSUME NEW p \in Proc, NEW how, Return(p, how), pc[p] # "idle",
               (how = "ok" /\ pc[p] = "unlock") \/ how = "error"
        PROVE  Atomic!Finish(p)
    <3>1. how = "ok" => Todo(p) = << >>
      BY <2>9 DEF Todo
    <3>2. Todo(p)' = << >>
      BY <2>9 DEF Return, Todo, TypeOK
    <3>3. \A q \in Proc : q # p => Todo(q)' = Todo(q)
      BY <2>9 DEF Return, Todo, TypeOK
    <3>4. todo' = [todo EXCEPT ![p] = << >>]
      BY <3>2, <3>3
    <3>5. call[p] # Atomic!NoCall
      BY <2>9, CallFields DEF TypeOK, NoCall, Atomic!NoCall
    <3> QED
      BY <2>9, <3>1, <3>4, <3>5
      DEF Return, Atomic!Finish, files, NoCall, Atomic!NoCall
  <2>10. CASE Outside
    <3>1. UNCHANGED <<pc, call, hosts, result>>
      BY <2>10 DEF Outside, SshRecordsKey, DeveloperAdds, DeveloperDropsFirst
    <3>2. todo' = todo
      BY <3>1 DEF Todo
    <3> QED
      BY <2>10, <3>1, <3>2
      DEF Outside, SshRecordsKey, DeveloperAdds, DeveloperDropsFirst,
          Atomic!Next, Atomic!Outside
  <2>11. CASE UNCHANGED vars
    BY <2>11 DEF vars, Todo, Atomic!vars
  <2> QED
    BY <2>1, <2>2, <2>3, <2>4, <2>5, <2>6, <2>7, <2>8, <2>9, <2>10, <2>11
    DEF Next, Step, Unlock, Abandon, Atomic!Next
<1> QED
  BY <1>1, <1>2, Invariant, FreshInvariant, PTL DEF Spec, AtomicSpec, Atomic!Spec
=============================================================================
