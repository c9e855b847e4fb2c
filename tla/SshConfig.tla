----------------------------- MODULE SshConfig -----------------------------
(***************************************************************************)
(* The managed SSH configuration (internal/sshconfig): several             *)
(* isolated-dev processes rewrite three files under ~/.ssh while ssh and   *)
(* the developer write two of them without the lock.                       *)
(*                                                                         *)
(* A file is only ever replaced by a rename, so a write is one step; what  *)
(* is not atomic is the read, the change and the write together, and the   *)
(* sequence of files one call rewrites.                                    *)
(***************************************************************************)
EXTENDS Sequences, Naturals

CONSTANTS
    Proc,       \* isolated-dev processes
    Alias,      \* derived machine names, the SSH host aliases
    HostName,   \* machine addresses
    UserLine,   \* lines of the developer in ~/.ssh/config
    Include,    \* the one directive the tool adds to that file
    NoHost,     \* an alias with no host block
    NoProc,     \* nobody holds the lock
    Races       \* whether ssh and the developer may write inside the window
                \* between a process's read and its write of the same file

ASSUME ConstantAssumption ==
    /\ NoHost \notin HostName
    /\ NoProc \notin Proc
    /\ Include \notin UserLine
    /\ Races \in BOOLEAN

VARIABLES
    hosts,      \* managed config file: the host block of each alias
    known,      \* managed known_hosts file: aliases with a recorded key
    userConfig, \* ~/.ssh/config, line by line
    lock,       \* holder of the advisory lock
    pc,         \* where each process is
    call,       \* the exported method it runs
    seenHosts,  \* what it read of the managed config
    seenKnown,  \* what it read of known_hosts
    seenUser,   \* what it read of ~/.ssh/config
    result      \* how its last call returned

files == <<hosts, known, userConfig>>
seen  == <<seenHosts, seenKnown, seenUser>>
vars  == <<hosts, known, userConfig, lock, pc, call,
           seenHosts, seenKnown, seenUser, result>>

-----------------------------------------------------------------------------

Hosts == [Alias -> HostName \cup {NoHost}]
NoHosts == [a \in Alias |-> NoHost]
UserConfig == Seq(UserLine \cup {Include})

Call ==
    [kind: {"apply"}, alias: Alias, host: HostName]
      \cup [kind: {"remove", "forget"}, alias: Alias, host: {NoHost}]
NoCall == [kind |-> "none"]

(* Steps that run with the lock held, and the places before it.            *)
Locked == {"load", "writeConfig", "readInclude", "writeInclude",
           "readKeys", "writeKeys", "unlock"}

(* Mutant of IsIncluded: include is only looked for on the last line.      *)
IsIncludedLast(content) ==
    content # << >> /\ content[Len(content)] = Include

IsIncluded(content) == \E i \in 1 .. Len(content) : content[i] = Include

TypeOK ==
    /\ hosts \in Hosts
    /\ known \in SUBSET Alias
    /\ userConfig \in UserConfig
    /\ lock \in Proc \cup {NoProc}
    /\ pc \in [Proc -> Locked \cup {"idle", "locking"}]
    /\ call \in [Proc -> Call \cup {NoCall}]
    /\ \A p \in Proc : pc[p] # "idle" => call[p] \in Call
    /\ seenHosts \in [Proc -> Hosts]
    /\ seenKnown \in [Proc -> SUBSET Alias]
    /\ seenUser \in [Proc -> UserConfig]
    /\ result \in [Proc -> {"none", "ok", "error"}]

Init ==
    /\ hosts = NoHosts
    /\ known = {}
    /\ userConfig = << >>
    /\ lock = NoProc
    /\ pc = [p \in Proc |-> "idle"]
    /\ call = [p \in Proc |-> NoCall]
    /\ seenHosts = [p \in Proc |-> NoHosts]
    /\ seenKnown = [p \in Proc |-> {}]
    /\ seenUser = [p \in Proc |-> << >>]
    /\ result = [p \in Proc |-> "none"]

-----------------------------------------------------------------------------

Goto(p, from, to) ==
    /\ pc[p] = from
    /\ pc' = [pc EXCEPT ![p] = to]

(* Apply, Remove or ForgetHostKey is called with valid arguments.          *)
Invoke(p) ==
    /\ Goto(p, "idle", "locking")
    /\ \E c \in Call : call' = [call EXCEPT ![p] = c]
    /\ result' = [result EXCEPT ![p] = "none"]
    /\ UNCHANGED <<files, lock, seen>>

(* Mutant of WithLock: no flock: every process is let in.                  *)
WithLockUnlocked(p) ==
    /\ lock' = p
    /\ Goto(p, "locking",
            IF call[p].kind = "forget" THEN "readKeys" ELSE "load")
    /\ UNCHANGED <<files, call, seen, result>>

(* flock returns: the process holds the lock until its descriptor closes.  *)
WithLock(p) ==
    /\ lock = NoProc
    /\ lock' = p
    /\ Goto(p, "locking",
            IF call[p].kind = "forget" THEN "readKeys" ELSE "load")
    /\ UNCHANGED <<files, call, seen, result>>

LoadBlocks(p) ==
    /\ Goto(p, "load", "writeConfig")
    /\ seenHosts' = [seenHosts EXCEPT ![p] = hosts]
    /\ UNCHANGED <<files, lock, call, seenKnown, seenUser, result>>

(* Mutant of Rendered: the file is written back with the one block of the  *)
(* call.                                                                   *)
RenderedAlone(p) == [a \in {call[p].alias} |-> call[p].host]

(* The whole file is rendered from the blocks that were read. For apply    *)
(* the alias's block is replaced or appended, for remove it is dropped; a  *)
(* remove that drops nothing writes back nothing.                          *)
Rendered(p) == [seenHosts[p] EXCEPT ![call[p].alias] = call[p].host]

(* Mutant of WriteConfig: remove that returns early when the alias has no  *)
(* host block.                                                             *)
WriteConfigEarly(p) ==
    LET absent == seenHosts[p][call[p].alias] = NoHost IN
    /\ Goto(p, "writeConfig",
            IF call[p].kind = "apply" THEN "readInclude"
            ELSE IF absent THEN "unlock" ELSE "readKeys")
    /\ hosts' = IF call[p].kind = "remove" /\ absent THEN hosts ELSE Rendered(p)
    /\ UNCHANGED <<known, userConfig, lock, call, seen, result>>

WriteConfig(p) ==
    /\ Goto(p, "writeConfig",
            IF call[p].kind = "apply" THEN "readInclude" ELSE "readKeys")
    /\ hosts' = IF call[p].kind = "remove"
                     /\ seenHosts[p][call[p].alias] = NoHost
                THEN hosts
                ELSE Rendered(p)
    /\ UNCHANGED <<known, userConfig, lock, call, seen, result>>

(* ensureInclude: nothing to do when the directive is already there.       *)
ReadUserConfig(p) ==
    /\ Goto(p, "readInclude",
            IF IsIncluded(userConfig) THEN "unlock" ELSE "writeInclude")
    /\ seenUser' = [seenUser EXCEPT ![p] = userConfig]
    /\ UNCHANGED <<files, lock, call, seenHosts, seenKnown, result>>

(* Mutant of WriteUserConfig: the managed directive replaces the file      *)
(* instead of preceding it.                                                *)
WriteUserConfigAlone(p) ==
    /\ Goto(p, "writeInclude", "unlock")
    /\ userConfig' = <<Include>>
    /\ UNCHANGED <<hosts, known, lock, call, seen, result>>

WriteUserConfig(p) ==
    /\ Goto(p, "writeInclude", "unlock")
    /\ userConfig' = <<Include>> \o seenUser[p]
    /\ UNCHANGED <<hosts, known, lock, call, seen, result>>

(* forgetHostKey: nothing to do when no line names the alias.              *)
ReadKnownHosts(p) ==
    /\ Goto(p, "readKeys",
            IF call[p].alias \in known THEN "writeKeys" ELSE "unlock")
    /\ seenKnown' = [seenKnown EXCEPT ![p] = known]
    /\ UNCHANGED <<files, lock, call, seenHosts, seenUser, result>>

WriteKnownHosts(p) ==
    /\ Goto(p, "writeKeys", "unlock")
    /\ known' = seenKnown[p] \ {call[p].alias}
    /\ UNCHANGED <<hosts, userConfig, lock, call, seen, result>>

(* Mutant of Return: the lock is a file that exists, so a dead process     *)
(* keeps it.                                                               *)
ReturnKeepsLock(p, how) ==
    /\ pc' = [pc EXCEPT ![p] = "idle"]
    /\ lock' = IF how = "ok" THEN NoProc ELSE lock
    /\ call' = [call EXCEPT ![p] = NoCall]
    /\ result' = [result EXCEPT ![p] = how]
    /\ seenHosts' = [seenHosts EXCEPT ![p] = NoHosts]
    /\ seenKnown' = [seenKnown EXCEPT ![p] = {}]
    /\ seenUser' = [seenUser EXCEPT ![p] = << >>]
    /\ UNCHANGED files

(* The call returns. The deferred Close gives up the lock, and what was     *)
(* read is gone with the call.                                             *)
Return(p, how) ==
    /\ pc' = [pc EXCEPT ![p] = "idle"]
    /\ lock' = IF lock = p THEN NoProc ELSE lock
    /\ call' = [call EXCEPT ![p] = NoCall]
    /\ result' = [result EXCEPT ![p] = how]
    /\ seenHosts' = [seenHosts EXCEPT ![p] = NoHosts]
    /\ seenKnown' = [seenKnown EXCEPT ![p] = {}]
    /\ seenUser' = [seenUser EXCEPT ![p] = << >>]
    /\ UNCHANGED files

Unlock(p) ==
    /\ pc[p] = "unlock"
    /\ Return(p, "ok")

(* A file operation fails and the call returns its error, or the process   *)
(* is killed: either way its descriptor closes and it wrote nothing more.  *)
Abandon(p) ==
    /\ pc[p] # "idle"
    /\ Return(p, "error")

Step(p) ==
    \/ WithLock(p) \/ LoadBlocks(p) \/ WriteConfig(p)
    \/ ReadUserConfig(p) \/ WriteUserConfig(p)
    \/ ReadKnownHosts(p) \/ WriteKnownHosts(p) \/ Unlock(p)

-----------------------------------------------------------------------------
(* Writers that do not take the lock.                                      *)

(* ssh connects through the alias for the first time and, by accept-new,   *)
(* appends the machine's key to the managed file. With Races it may have   *)
(* read its configuration long before it gets to record the key.           *)
SshRecordsKey(a) ==
    /\ Races \/ /\ hosts[a] # NoHost
                /\ IsIncluded(userConfig)
                /\ \A p \in Proc : pc[p] # "writeKeys"
    /\ a \notin known
    /\ known' = known \cup {a}
    /\ UNCHANGED <<hosts, userConfig, lock, pc, call, seen, result>>

(* The developer saves ~/.ssh/config with a line more, or without one.     *)
DeveloperAdds(l) ==
    /\ Races \/ \A p \in Proc : pc[p] # "writeInclude"
    /\ \A i \in 1 .. Len(userConfig) : userConfig[i] # l
    /\ userConfig' = Append(userConfig, l)
    /\ UNCHANGED <<hosts, known, lock, pc, call, seen, result>>

DeveloperDropsFirst ==
    /\ Races \/ \A p \in Proc : pc[p] # "writeInclude"
    /\ userConfig # << >>
    /\ userConfig' = Tail(userConfig)
    /\ UNCHANGED <<hosts, known, lock, pc, call, seen, result>>

Outside ==
    \/ \E a \in Alias : SshRecordsKey(a)
    \/ \E l \in UserLine : DeveloperAdds(l)
    \/ DeveloperDropsFirst

Next ==
    \/ \E p \in Proc : Invoke(p) \/ Step(p) \/ Abandon(p)
    \/ Outside

Spec == Init /\ [][Next]_vars

(* A process that holds the lock keeps running until it returns. A waiter  *)
(* is woken by the kernel's wait queue, so it is not passed over for ever. *)
Fairness ==
    \A p \in Proc : WF_vars(Step(p)) /\ SF_vars(WithLock(p))

FairSpec == Spec /\ Fairness
-----------------------------------------------------------------------------
(* Properties.                                                             *)

(* The developer's file receives at most one Include directive, however    *)
(* many processes find it missing (ensureInclude under withLock).          *)
OneInclude ==
    \A i, j \in 1 .. Len(userConfig) :
        userConfig[i] = Include /\ userConfig[j] = Include => i = j

(* A host block changes only by a call for that very alias: two runs for   *)
(* different projects never drop each other's block (withLock).            *)
OwnBlockStep ==
    \A a \in Alias : hosts'[a] # hosts[a] =>
        \E p \in Proc : pc[p] = "writeConfig" /\ call[p].alias = a
OnlyOwnBlockChanges == [][OwnBlockStep]_vars

(* When Remove returns nil the alias has neither a host block nor a host   *)
(* key left, whatever other processes did meanwhile and whatever an        *)
(* earlier interrupted Remove left behind.                                 *)
RemoveLeavesNothing ==
    [][\A p \in Proc :
         /\ pc[p] = "unlock"
         /\ call[p].kind = "remove"
         /\ result'[p] = "ok"
         => hosts[call[p].alias] = NoHost /\ call[p].alias \notin known]_vars

(* The steps of a call leave the developer's file as it is or put a line   *)
(* before all of it: every line that is there at that moment, also one     *)
(* saved since the call began, stays in its place (package comment of      *)
(* sshconfig: "never otherwise rewritten, reordered, or pruned").          *)
DeveloperLinesKept ==
    [][pc' # pc => userConfig' \in {userConfig, <<Include>> \o userConfig}]_vars

(* Every call returns: a holder that dies or fails never wedges the        *)
(* processes that wait for the lock.                                       *)
CallsReturn == \A p \in Proc : pc[p] # "idle" ~> pc[p] = "idle"

(* Every call carries out its effects atomically and in order: what it has *)
(* still to do follows from where it is.                                   *)
Todo(p) ==
    CASE pc[p] \in {"locking", "load", "writeConfig"} ->
           (CASE call[p].kind = "apply"  -> <<"host", "include">>
              [] call[p].kind = "remove" -> <<"host", "keys">>
              [] call[p].kind = "forget" -> <<"keys">>)
      [] pc[p] \in {"readInclude", "writeInclude"} -> <<"include">>
      [] pc[p] \in {"readKeys", "writeKeys"} -> <<"keys">>
      [] pc[p] \in {"idle", "unlock"} -> << >>

Atomic == INSTANCE AtomicSshConfig WITH todo <- [p \in Proc |-> Todo(p)]

AtomicSpec == Atomic!Spec
=============================================================================
