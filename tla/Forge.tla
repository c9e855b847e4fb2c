------------------------------- MODULE Forge --------------------------------
(***************************************************************************)
(* The acceptance and persistence runs of the Forge DEV stack              *)
(* (internal/forge). An acceptance run starts the project's declared       *)
(* command, waits for its services and reads the macOS ports through the   *)
(* managed tunnel. A persistence run proves a day's work: the ports, an    *)
(* edit from either side of the mount, stop, the ports closed, up, an      *)
(* acceptance run, and the volumes still what they were.                   *)
(*                                                                         *)
(* Both work on a developer's real project: they own nothing and remove    *)
(* nothing but the two marker files of the edit. Any call may fail and the *)
(* caller may give up at any moment.                                       *)
(***************************************************************************)
EXTENDS Naturals

CONSTANTS
    Endpoint,  \* macOS ports of the stack
    Entry,     \* top-level names in the volume
    Tries      \* attempts of every wait

ASSUME TriesAssumption == Tries \in Nat \ {0}

VARIABLES
    up,         \* the project machine runs
    tunnel,     \* its tunnel runs
    port,       \* who listens on each macOS port
    volume,     \* the named volume: how often it was made anew, and its data
    marker,     \* the file of the marker's name in the project
    copy,       \* the file of the copy's name in the project, seen from macOS
    guestCopy,  \* and from Linux, where the mount is not shared
    shared,     \* what Linux creates in the project appears on macOS
    cancelled,  \* the caller gave up
    run         \* the run itself

project == <<marker, copy, guestCopy>>
world == <<up, tunnel, port, volume>>
vars == <<world, project, shared, cancelled, run>>

-----------------------------------------------------------------------------

Steps == {"capture", "verify", "probe", "reserve", "mark", "cat", "cp",
          "look", "rmGuest", "rmHost", "stop", "inspect", "closed", "up",
          "start", "confirm", "await", "verifyAgain", "probeAgain", "compare",
          "diagnose"}

(* From the look at the copy's name to the last removal.                   *)
Edit == {"mark", "cat", "cp", "look", "rmGuest", "rmHost"}

Volumes == [made: 0 .. 1, holds: SUBSET Entry]
(* late: the developer's, but created during the edit.                     *)
Files == {"none", "developer", "late", "ours"}
(* Of the marker and of the copy on macOS, and of the copy in the guest.   *)
Removals == {"marker", "copy", "guest"}

(* left: endpoints not yet reached or seen to close; before: the volume as *)
(* captured; stuck: the removals that failed.                              *)
Run == [op: {"acceptance", "persistence"}, pc: Steps \cup {"passed", "failed"},
        attempt: 0 .. Tries - 1, left: SUBSET Endpoint, before: Volumes,
        bad: BOOLEAN, stuck: SUBSET Removals]

TypeOK ==
    /\ up \in BOOLEAN /\ tunnel \in BOOLEAN
    /\ port \in [Endpoint -> {"free", "tunnel", "other"}]
    /\ volume \in Volumes
    /\ marker \in Files \ {"late"} /\ copy \in Files
    /\ guestCopy \in {"none", "ours"}
    /\ shared \in BOOLEAN /\ cancelled \in BOOLEAN
    /\ run \in Run

Fresh == [made |-> 0, holds |-> Entry]

Init ==
    /\ up \in BOOLEAN
    /\ tunnel = up
    /\ port \in [Endpoint -> {"tunnel", "other"}]
    /\ up \/ \A e \in Endpoint : port[e] = "other"
    /\ volume = Fresh
    /\ marker \in {"none", "developer"} /\ copy \in {"none", "developer"}
    /\ guestCopy = "none"
    /\ shared \in BOOLEAN
    /\ cancelled = FALSE
    /\ \E op \in {"acceptance", "persistence"} :
         run = [op |-> op, pc |-> IF op = "acceptance" THEN "start" ELSE "capture",
                attempt |-> 0, left |-> Endpoint, before |-> Fresh,
                bad |-> FALSE, stuck |-> {}]

-----------------------------------------------------------------------------

At(step) == run.pc = step
Goto(step) == run' = [run EXCEPT !.pc = step, !.attempt = 0, !.left = Endpoint]
GiveUp == Goto("diagnose")

(* A command in the guest starts a machine that is stopped, and is not     *)
(* run for a caller who gave up.                                           *)
InGuest == up' = (up \/ ~ cancelled)

(* A step that reads passes or ends the run.                               *)
Look(step, next) ==
    /\ At(step)
    /\ (~ cancelled /\ Goto(next)) \/ GiveUp

(* Mutant of Again: the wait starts over after its last attempt.           *)
AgainForever ==
    /\ ~ cancelled
    /\ run' = [run EXCEPT !.attempt = (@ + 1) % Tries]

(* One more attempt of a wait: not after the last, nor for a caller who    *)
(* gave up during the pause.                                               *)
Again ==
    /\ ~ cancelled
    /\ run.attempt + 1 < Tries
    /\ run' = [run EXCEPT !.attempt = @ + 1]

(* Endpoint e is settled; the next one has its own attempts.               *)
Settle(e, next) ==
    IF run.left = {e} THEN Goto(next)
    ELSE run' = [run EXCEPT !.left = @ \ {e}, !.attempt = 0]

-----------------------------------------------------------------------------
(* Acceptance.                                                             *)

(* Lifecycle and Compose calls may replace the volume, or lose its data.   *)
VolumeMayChange ==
    volume' \in {volume} \cup
        {[made |-> m, holds |-> h] : m \in volume.made .. 1, h \in SUBSET Entry}

StartStack ==
    /\ At("start")
    /\ InGuest
    /\ IF cancelled THEN UNCHANGED volume ELSE VolumeMayChange
    /\ (~ cancelled /\ Goto("confirm")) \/ GiveUp
    /\ UNCHANGED <<tunnel, port, project, shared, cancelled>>

(* The Compose file's digest is read again.                                *)
ConfirmCompose ==
    /\ At("confirm")
    /\ Goto("await") \/ GiveUp
    /\ UNCHANGED <<world, project, shared, cancelled>>

(* A wrong image ends the wait at once, anything short of healthy does so  *)
(* with the last attempt.                                                  *)
AwaitServices ==
    /\ At("await")
    /\ InGuest
    /\ (~ cancelled /\ Goto("verifyAgain")) \/ GiveUp \/ Again
    /\ UNCHANGED <<tunnel, port, volume, project, shared, cancelled>>

VerifyTunnel(step, next) ==
    /\ At(step)
    /\ (tunnel /\ Goto(next)) \/ GiveUp
    /\ UNCHANGED <<world, project, shared, cancelled>>

(* Whoever listens may answer.                                             *)
ProbeEndpoints(step, next) ==
    /\ At(step)
    /\ \/ \E e \in run.left : ~ cancelled /\ port[e] # "free" /\ Settle(e, next)
       \/ Again
       \/ GiveUp
    /\ UNCHANGED <<world, project, shared, cancelled>>

Verify == VerifyTunnel("verify", "probe")
Probe == ProbeEndpoints("probe", "reserve")
VerifyAgain == VerifyTunnel("verifyAgain", "probeAgain")
ProbeAgain == ProbeEndpoints("probeAgain",
                 IF run.op = "acceptance" THEN "passed" ELSE "compare")

-----------------------------------------------------------------------------
(* Persistence: volumes.                                                   *)

CaptureVolumes ==
    /\ At("capture")
    /\ InGuest
    /\ \/ ~ cancelled /\ run' = [run EXCEPT !.pc = "verify", !.before = volume]
       \/ GiveUp
    /\ UNCHANGED <<tunnel, port, volume, project, shared, cancelled>>

(* Mutant of Preserved: only the data is compared.                         *)
PreservedData(before, after) == before.holds \subseteq after.holds

(* The same volume, with at least the data it had.                         *)
Preserved(before, after) ==
    before.made = after.made /\ before.holds \subseteq after.holds

CompareVolumes ==
    /\ At("compare")
    /\ InGuest
    /\ (~ cancelled /\ Preserved(run.before, volume) /\ Goto("passed")) \/ GiveUp
    /\ UNCHANGED <<tunnel, port, volume, project, shared, cancelled>>

-----------------------------------------------------------------------------
(* Persistence: the edit from both sides.                                  *)

(* Mutant of ReserveCopy: the copy's name is not looked at.                *)
ReserveCopyUnseen ==
    /\ At("reserve")
    /\ Goto("mark") \/ GiveUp
    /\ UNCHANGED <<world, project, shared, cancelled>>

ReserveCopy ==
    /\ At("reserve")
    /\ (copy = "none" /\ Goto("mark")) \/ GiveUp
    /\ UNCHANGED <<world, project, shared, cancelled>>

(* The marker is created only where nothing is (O_EXCL). One that cannot   *)
(* be written is removed again.                                            *)
WriteMarker ==
    /\ At("mark")
    /\ \/ /\ marker = "none"
          /\ marker' = "ours"
          /\ \/ Goto("cat")
             \/ run' = [run EXCEPT !.pc = "diagnose",
                                   !.stuck = @ \cup {"marker"}]
       \/ GiveUp /\ UNCHANGED marker
    /\ UNCHANGED <<world, copy, guestCopy, shared, cancelled>>

(* A check of the edit failed: the deferred removals run.                  *)
Unwind(step) == run' = [run EXCEPT !.pc = step, !.bad = TRUE]

ReadInGuest ==
    /\ At("cat")
    /\ InGuest
    /\ (~ cancelled /\ Goto("cp")) \/ Unwind("rmHost")
    /\ UNCHANGED <<tunnel, port, volume, project, shared, cancelled>>

(* What Linux sees and does at the copy's name.                            *)
InGuestCopy(file) ==
    IF shared THEN copy' = file /\ UNCHANGED guestCopy
              ELSE guestCopy' = file /\ UNCHANGED copy

(* cp overwrites; one that fails may have created its file.                *)
CopyInGuest ==
    /\ At("cp")
    /\ InGuest
    /\ \/ ~ cancelled /\ InGuestCopy("ours") /\ Goto("look")
       \/ /\ Unwind("rmGuest")
          /\ \/ UNCHANGED <<copy, guestCopy>>
             \/ ~ cancelled /\ InGuestCopy("ours")
    /\ UNCHANGED <<tunnel, port, volume, marker, shared, cancelled>>

(* Ownership in the guest, content and ownership on macOS.                 *)
LookAtCopy ==
    /\ At("look")
    /\ InGuest
    /\ (~ cancelled /\ copy = "ours" /\ Goto("rmGuest")) \/ Unwind("rmGuest")
    /\ UNCHANGED <<tunnel, port, volume, project, shared, cancelled>>

(* Mutant of RemoveGuestCopy: the removal ends with the caller's context.  *)
RemoveGuestCopyCancelled ==
    /\ At("rmGuest")
    /\ InGuest
    /\ IF cancelled
       THEN UNCHANGED <<copy, guestCopy>> /\ run' = [run EXCEPT !.pc = "rmHost"]
       ELSE InGuestCopy("none") /\ run' = [run EXCEPT !.pc = "rmHost"]
    /\ UNCHANGED <<tunnel, port, volume, marker, shared, cancelled>>

(* The removal in the guest does not depend on the caller, and its failure *)
(* is swallowed. Whatever has the copy's name goes.                        *)
RemoveGuestCopy ==
    /\ At("rmGuest")
    /\ up' = TRUE
    /\ \/ InGuestCopy("none") /\ run' = [run EXCEPT !.pc = "rmHost"]
       \/ /\ run' = [run EXCEPT !.pc = "rmHost",
                                !.stuck = @ \cup {"guest"}]
          /\ UNCHANGED <<copy, guestCopy>>
    /\ UNCHANGED <<tunnel, port, volume, marker, shared, cancelled>>

(* So are the failures of the removals on macOS.                           *)
RemoveHostFiles ==
    /\ At("rmHost")
    /\ \E failed \in SUBSET {"marker", "copy"} :
         /\ marker' = IF "marker" \in failed THEN marker ELSE "none"
         /\ copy' = IF "copy" \in failed THEN copy ELSE "none"
         /\ run' = [run EXCEPT !.pc = IF run.bad THEN "diagnose" ELSE "stop",
                               !.stuck = @ \cup failed]
    /\ UNCHANGED <<world, guestCopy, shared, cancelled>>

-----------------------------------------------------------------------------
(* Persistence: stop and up.                                               *)

(* app.Stop: the machine, then the tunnel, whose ports close some time     *)
(* after.                                                                  *)
StopMachine ==
    /\ At("stop")
    /\ \/ ~ cancelled /\ up' = FALSE /\ tunnel' = FALSE /\ Goto("inspect")
       \/ /\ GiveUp
          /\ up' \in {up, FALSE} /\ UNCHANGED tunnel
    /\ UNCHANGED <<port, volume, project, shared, cancelled>>

InspectStopped ==
    /\ At("inspect")
    /\ IF tunnel THEN GiveUp ELSE Goto("closed") \/ GiveUp
    /\ UNCHANGED <<world, project, shared, cancelled>>

(* Mutant of Refused: every probe that fails proves the port closed.       *)
RefusedOrFailed(e) == TRUE

Refused(e) == port[e] = "free"

(* Only a refused connection proves a port closed.                         *)
AwaitClosed ==
    /\ At("closed")
    /\ \/ \E e \in run.left : ~ cancelled /\ Refused(e) /\ Settle(e, "up")
       \/ (\E e \in run.left : port[e] # "free") /\ Again
       \/ (cancelled \/ \E e \in run.left : port[e] # "free") /\ GiveUp
    /\ UNCHANGED <<world, project, shared, cancelled>>

(* app.Up: the machine, then the tunnel with the ports that are free.      *)
UpMachine ==
    /\ At("up")
    /\ IF cancelled THEN GiveUp /\ UNCHANGED <<up, tunnel, port, volume>>
       ELSE /\ VolumeMayChange
            /\ \/ /\ up' = TRUE /\ tunnel' = TRUE
                  /\ port' = [e \in Endpoint |->
                                IF port[e] = "free" THEN "tunnel" ELSE port[e]]
                  /\ Goto("start")
               \/ /\ up' \in BOOLEAN
                  /\ GiveUp
                  /\ UNCHANGED <<tunnel, port>>
    /\ UNCHANGED <<project, shared, cancelled>>

(* diagnose looks into the guest, for a caller who gave up as well, if the *)
(* run was given somewhere to write to.                                    *)
Diagnose ==
    /\ At("diagnose")
    /\ up' \in {up, TRUE}
    /\ run' = [run EXCEPT !.pc = "failed"]
    /\ UNCHANGED <<tunnel, port, volume, project, shared, cancelled>>

Step ==
    \/ CaptureVolumes \/ Verify \/ Probe \/ ReserveCopy \/ WriteMarker
    \/ ReadInGuest \/ CopyInGuest \/ LookAtCopy \/ RemoveGuestCopy
    \/ RemoveHostFiles \/ StopMachine \/ InspectStopped \/ AwaitClosed
    \/ UpMachine \/ StartStack \/ ConfirmCompose \/ AwaitServices
    \/ VerifyAgain \/ ProbeAgain \/ CompareVolumes \/ Diagnose

-----------------------------------------------------------------------------
(* Around the run.                                                         *)

Cancel ==
    /\ ~ cancelled
    /\ cancelled' = TRUE
    /\ UNCHANGED <<world, project, shared, run>>

(* The tunnel ends, its ports close, another program takes or frees one.   *)
TunnelEnds ==
    /\ tunnel
    /\ tunnel' = FALSE
    /\ UNCHANGED <<up, port, volume, project, shared, cancelled, run>>

PortChanges ==
    /\ \E e \in Endpoint :
         \/ port[e] = "tunnel" /\ ~ tunnel /\ port' = [port EXCEPT ![e] = "free"]
         \/ port[e] = "free" /\ port' = [port EXCEPT ![e] = "other"]
         \/ port[e] = "other" /\ port' = [port EXCEPT ![e] = "free"]
    /\ UNCHANGED <<up, tunnel, volume, project, shared, cancelled, run>>

(* The developer creates a file of the marker's or the copy's name.        *)
DeveloperCreates ==
    /\ \/ marker = "none" /\ marker' = "developer" /\ UNCHANGED copy
       \/ /\ copy = "none"
          /\ copy' = IF run.pc \in Edit THEN "late" ELSE "developer"
          /\ UNCHANGED marker
    /\ UNCHANGED <<world, guestCopy, shared, cancelled, run>>

Next == Step \/ Cancel \/ TunnelEnds \/ PortChanges \/ DeveloperCreates

Spec == Init /\ [][Next]_vars
FairSpec == Spec /\ WF_vars(Step)

-----------------------------------------------------------------------------
(* Properties.                                                             *)

Over == run.pc \in {"passed", "failed"}

(* A file of the developer's own is never overwritten or removed: not one  *)
(* of the marker's name, at whichever moment it appears, and not one of    *)
(* the copy's name, unless it appears only during the edit (the comments   *)
(* of checkMountedEdits and reserveMarker).                                *)
DeveloperFilesKept ==
    [][/\ marker = "developer" => marker' = "developer"
       /\ copy = "developer" => copy' = "developer"]_vars

(* The same of a file that appears during the edit. It fails: cp, which    *)
(* overwrites, and the removals do not look at the name again.             *)
LateFilesKept == [][copy = "late" => copy' = "late"]_vars

(* The run "removes both [markers] from both sides of the mount on every   *)
(* path, including a failing one": a file of its own is left only where    *)
(* every removal that could reach it failed itself. The copy on a shared   *)
(* mount is removed twice, so one failed removal does not leave it.        *)
RepositoryLeftClean ==
    Over =>
        /\ marker = "ours" => "marker" \in run.stuck
        /\ copy = "ours" => {"copy", "guest"} \subseteq run.stuck
        /\ guestCopy = "ours" => "guest" \in run.stuck

(* A persistence run passes only if the volume outlived the restart with   *)
(* its data.                                                               *)
VolumesVouched ==
    run.op = "persistence" /\ run.pc = "passed" =>
        volume.made = 0 /\ volume.holds = Entry

(* up follows stop only once every port was seen with nobody listening:    *)
(* neither a caller who gave up nor a port that fails to answer counts.    *)
Settled == IF run'.pc = "closed" THEN run.left \ run'.left
           ELSE IF run'.pc = "up" THEN run.left ELSE {}
ClosedPortsWereFree ==
    [][At("closed") =>
         \A e \in Settled : ~ up /\ ~ cancelled /\ port[e] = "free"]_vars

(* Every run ends, as long as the calls it makes do: no wait outlasts its  *)
(* attempts.                                                               *)
RunEnds == <>Over

(* Diagnosis only reads: it leaves the machine as the failed run left it   *)
(* (comment of diagnose).                                                  *)
DiagnoseOnlyReads == [][At("diagnose") /\ Over' => up' = up]_vars
=============================================================================
