---------------------------- MODULE ForgeProofs -----------------------------
(***************************************************************************)
(* Proofs of the safety properties of Forge, for any endpoints, any volume *)
(* entries and any number of attempts.                                     *)
(***************************************************************************)
EXTENDS Forge, TLAPS

(* The steps at which the run's own marker is there.                       *)
Marked == {"cat", "cp", "look", "rmGuest", "rmHost"}

(* The run's files exist only during the edit, on either side of the mount,*)
(* but for those whose every removal failed; a file of the copy's name     *)
(* that was there before the edit keeps the run from it.                   *)
OwnFiles ==
    /\ run.pc \in Marked => marker = "ours"
    /\ marker = "ours" => run.pc \in Marked \/ "marker" \in run.stuck
    /\ run.pc \in Edit => copy # "developer"
    /\ copy = "ours" =>
         /\ shared
         /\ \/ run.pc \in {"look", "rmGuest"}
            \/ run.pc = "rmHost" /\ "guest" \in run.stuck
            \/ {"copy", "guest"} \subseteq run.stuck
    /\ guestCopy = "ours" =>
         ~ shared /\ ("guest" \in run.stuck \/ run.pc \in {"look", "rmGuest"})

(* What was captured is the volume the run found.                          *)
Captured ==
    /\ run.pc = "capture" => volume = Fresh
    /\ run.before = Fresh
    /\ run.op = "persistence" /\ run.pc = "passed" => Preserved(Fresh, volume)

(* Nothing starts the machine between its stop and the last closed port.   *)
Stopped == run.pc \in {"inspect", "closed"} => ~ up

IInv == TypeOK /\ OwnFiles /\ Captured /\ Stopped

-----------------------------------------------------------------------------
(* What the operators on run change of it, and what they leave.            *)

Ends == {"passed", "failed"}

Kept == /\ run'.op = run.op /\ run'.before = run.before
        /\ run'.stuck = run.stuck

LEMMA GotoEffect ==
    ASSUME TypeOK, NEW step \in Steps \cup Ends, Goto(step)
    PROVE  run' \in Run /\ run'.pc = step /\ Kept
<1>1. 0 \in 0 .. Tries - 1 /\ Endpoint \in SUBSET Endpoint
  BY TriesAssumption
<1>2. step \in Steps \cup {"passed", "failed"}
  BY DEF Ends
<1>3. run' \in Run
  BY <1>1, <1>2 DEF TypeOK, Run, Goto
<1>4. QED
  BY <1>3 DEF TypeOK, Run, Goto, Kept

LEMMA GiveUpEffect ==
    ASSUME TypeOK, GiveUp
    PROVE  run' \in Run /\ run'.pc = "diagnose" /\ Kept
<1>1. "diagnose" \in Steps \cup Ends
  BY DEF Steps
<1>2. QED
  BY <1>1, GotoEffect DEF GiveUp

LEMMA AgainEffect ==
    ASSUME TypeOK, Again
    PROVE  /\ run' \in Run /\ run'.pc = run.pc /\ Kept
           /\ run'.left = run.left
BY TriesAssumption DEF TypeOK, Run, Again, Kept

LEMMA SettleEffect ==
    ASSUME TypeOK, NEW e \in run.left, NEW step \in Steps \cup Ends,
           Settle(e, step)
    PROVE  /\ run' \in Run /\ Kept
           /\ \/ run'.pc = step /\ run.left = {e}
              \/ run'.pc = run.pc /\ run'.left = run.left \ {e}
<1>1. CASE run.left = {e}
  BY <1>1, GotoEffect DEF Settle
<1>2. CASE run.left # {e}
  <2>1. 0 \in 0 .. Tries - 1
    BY TriesAssumption
  <2>2. run' = [run EXCEPT !.left = @ \ {e}, !.attempt = 0]
    BY <1>2 DEF Settle
  <2>3. run.left \ {e} \in SUBSET Endpoint
    BY DEF TypeOK, Run
  <2>4. run' \in Run
    BY <2>1, <2>2, <2>3 DEF TypeOK, Run
  <2>5. QED
    BY <2>2, <2>4 DEF TypeOK, Run, Kept
<1>3. QED
  BY <1>1, <1>2

LEMMA UnwindEffect ==
    ASSUME TypeOK, NEW step \in Steps, Unwind(step)
    PROVE  run' \in Run /\ run'.pc = step /\ Kept
BY DEF TypeOK, Run, Unwind, Kept

LEMMA StepNames ==
    /\ {"capture", "verify", "probe", "reserve", "mark", "cat", "cp", "look",
        "rmGuest", "rmHost", "stop", "inspect", "closed", "up", "start",
        "confirm", "await", "verifyAgain", "probeAgain", "compare",
        "diagnose"} \subseteq Steps
    /\ Steps \subseteq Steps \cup Ends
    /\ {"passed", "failed"} \subseteq Steps \cup Ends
BY DEF Steps, Ends

(* What Lifecycle and Compose calls make of the volume is a volume.        *)
LEMMA VolumeType ==
    ASSUME TypeOK, VolumeMayChange
    PROVE  volume' \in Volumes
BY DEF TypeOK, Volumes, VolumeMayChange

-----------------------------------------------------------------------------
(* The actions.                                                            *)

LEMMA InitInv == Init => IInv
<1> SUFFICES ASSUME Init PROVE IInv
  OBVIOUS
<1>1. PICK op \in {"acceptance", "persistence"} :
        run = [op |-> op, pc |-> IF op = "acceptance" THEN "start" ELSE "capture",
               attempt |-> 0, left |-> Endpoint, before |-> Fresh,
               bad |-> FALSE, stuck |-> {}]
  BY DEF Init
<1>2. Fresh \in Volumes
  BY DEF Fresh, Volumes
<1>3. run \in Run
  BY <1>1, <1>2, TriesAssumption, StepNames DEF Run
<1>4. TypeOK
  BY <1>2, <1>3 DEF Init, TypeOK, Files
<1>5. OwnFiles /\ Captured /\ Stopped
  BY <1>1 DEF Init, OwnFiles, Captured, Stopped, Marked, Edit
<1>6. QED
  BY <1>4, <1>5 DEF IInv

(* A step that changes nothing but the run, up and, at start and up, the   *)
(* volume, the tunnel and the ports, and does not touch the edit.          *)
LEMMA ElsewhereInv ==
    ASSUME IInv, UNCHANGED <<project, shared, cancelled>>,
           run' \in Run, Kept, run.pc \notin Edit, run'.pc \notin Edit,
           up' \in BOOLEAN, tunnel' \in BOOLEAN, volume' \in Volumes,
           port' \in [Endpoint -> {"free", "tunnel", "other"}],
           run'.pc = "capture" => run.pc = "capture" /\ volume' = volume,
           run'.pc = "passed" =>
             run.op = "acceptance" \/ Preserved(Fresh, volume'),
           run'.pc \in {"inspect", "closed"} => ~ up'
    PROVE  IInv'
<1>1. TypeOK'
  BY DEF IInv, TypeOK, project
<1>2. OwnFiles'
  BY DEF IInv, OwnFiles, project, Kept, Edit, Marked
<1>3. Captured'
  <2>1. run'.op = "persistence" => run.op # "acceptance"
    BY DEF Kept
  <2>2. QED
    BY <2>1 DEF IInv, Captured, Kept
<1>4. Stopped'
  BY DEF Stopped
<1>5. QED
  BY <1>1, <1>2, <1>3, <1>4 DEF IInv

LEMMA GoOn ==
    ASSUME TypeOK, NEW step \in Steps \cup Ends, Goto(step) \/ GiveUp
    PROVE  run' \in Run /\ Kept /\ run'.pc \in {step, "diagnose"}
BY GotoEffect, GiveUpEffect

LEMMA CaptureInv == ASSUME IInv, CaptureVolumes PROVE IInv'
<1>1. TypeOK /\ run.pc = "capture" /\ volume = Fresh /\ run.before = Fresh
  BY DEF IInv, Captured, CaptureVolumes, At
<1>2. run' \in Run /\ Kept /\ run'.pc \in {"verify", "diagnose"}
  <2>1. CASE run' = [run EXCEPT !.pc = "verify", !.before = volume]
    <3>1. "verify" \in Steps /\ volume \in Volumes
      BY <1>1, StepNames DEF TypeOK
    <3>2. run' \in Run
      BY <1>1, <2>1, <3>1 DEF TypeOK, Run
    <3>3. QED
      BY <1>1, <2>1, <3>2 DEF TypeOK, Run, Kept
  <2>2. CASE GiveUp
    BY <1>1, <2>2, GiveUpEffect
  <2>3. QED
    BY <2>1, <2>2 DEF CaptureVolumes
<1>3. /\ UNCHANGED <<project, shared, cancelled, tunnel, port, volume>>
      /\ up' \in BOOLEAN
  BY <1>1 DEF CaptureVolumes, InGuest, TypeOK
<1>4. QED
  BY <1>1, <1>2, <1>3, ElsewhereInv DEF TypeOK, Edit, Marked

LEMMA VerifyInv ==
    ASSUME IInv, NEW step \in {"verify", "verifyAgain"},
           NEW next \in {"probe", "probeAgain"}, VerifyTunnel(step, next)
    PROVE  IInv'
<1>1. TypeOK /\ run.pc = step
  BY DEF IInv, VerifyTunnel, At
<1>2. run' \in Run /\ Kept /\ run'.pc \in {next, "diagnose"}
  BY <1>1, StepNames, GoOn DEF VerifyTunnel
<1>3. QED
  BY <1>1, <1>2, ElsewhereInv DEF VerifyTunnel, TypeOK, world, Edit, Marked

LEMMA ProbeInv ==
    ASSUME IInv, NEW step \in {"probe", "probeAgain"},
           NEW next \in {"compare", "passed"},
           next = "passed" => run.op = "acceptance",
           ProbeEndpoints(step, next)
    PROVE  IInv'
<1>1. TypeOK /\ run.pc = step
  BY DEF IInv, ProbeEndpoints, At
<1>2. run' \in Run /\ Kept /\ run'.pc \in {step, next, "diagnose"}
  <2>1. next \in Steps \cup Ends
    BY StepNames
  <2>2. CASE \E e \in run.left : Settle(e, next)
    BY <1>1, <2>1, <2>2, SettleEffect
  <2>3. CASE Again
    BY <1>1, <2>3, AgainEffect
  <2>4. CASE GiveUp
    BY <1>1, <2>4, GiveUpEffect
  <2>5. QED
    BY <2>2, <2>3, <2>4 DEF ProbeEndpoints
<1>3. QED
  BY <1>1, <1>2, ElsewhereInv DEF ProbeEndpoints, TypeOK, world, Edit, Marked

(* The first probe leads to the edit only where its successor looks.       *)
LEMMA FirstProbeInv == ASSUME IInv, Probe PROVE IInv'
<1>1. TypeOK /\ run.pc = "probe"
  BY DEF IInv, Probe, ProbeEndpoints, At
<1>2. run' \in Run /\ Kept /\ run'.pc \in {"probe", "reserve", "diagnose"}
  <2>1. CASE \E e \in run.left : Settle(e, "reserve")
    BY <1>1, <2>1, StepNames, SettleEffect
  <2>2. CASE Again
    BY <1>1, <2>2, AgainEffect
  <2>3. CASE GiveUp
    BY <1>1, <2>3, GiveUpEffect
  <2>4. QED
    BY <2>1, <2>2, <2>3 DEF Probe, ProbeEndpoints
<1>3. QED
  BY <1>1, <1>2, ElsewhereInv
     DEF Probe, ProbeEndpoints, TypeOK, world, Edit, Marked

LEMMA ProbeAgainInv == ASSUME IInv, ProbeAgain PROVE IInv'
<1>1. CASE run.op = "acceptance"
  <2>1. ProbeEndpoints("probeAgain", "passed")
    BY <1>1 DEF ProbeAgain
  <2>2. QED
    BY <1>1, <2>1, ProbeInv
<1>2. CASE run.op # "acceptance"
  <2>1. ProbeEndpoints("probeAgain", "compare")
    BY <1>2 DEF ProbeAgain
  <2>2. QED
    BY <2>1, ProbeInv
<1>3. QED
  BY <1>1, <1>2

LEMMA CompareInv == ASSUME IInv, CompareVolumes PROVE IInv'
<1>1. TypeOK /\ run.pc = "compare" /\ run.before = Fresh
  BY DEF IInv, Captured, CompareVolumes, At
<1>2. /\ run' \in Run /\ Kept /\ run'.pc \in {"passed", "diagnose"}
      /\ run'.pc = "passed" => Preserved(Fresh, volume)
  <2>1. CASE Preserved(run.before, volume) /\ Goto("passed")
    BY <1>1, <2>1, StepNames, GotoEffect
  <2>2. CASE GiveUp
    BY <1>1, <2>2, GiveUpEffect
  <2>3. QED
    BY <2>1, <2>2 DEF CompareVolumes
<1>3. /\ UNCHANGED <<project, shared, cancelled, tunnel, port, volume>>
      /\ up' \in BOOLEAN
  BY <1>1 DEF CompareVolumes, InGuest, TypeOK
<1>4. QED
  BY <1>1, <1>2, <1>3, ElsewhereInv DEF TypeOK, Edit, Marked

LEMMA StopInv == ASSUME IInv, StopMachine PROVE IInv'
<1>1. TypeOK /\ run.pc = "stop"
  BY DEF IInv, StopMachine, At
<1>2. /\ run' \in Run /\ Kept /\ run'.pc \in {"inspect", "diagnose"}
      /\ run'.pc = "inspect" => ~ up'
      /\ up' \in BOOLEAN /\ tunnel' \in BOOLEAN
  <2>1. CASE up' = FALSE /\ tunnel' = FALSE /\ Goto("inspect")
    BY <1>1, <2>1, StepNames, GotoEffect
  <2>2. CASE GiveUp /\ up' \in {up, FALSE} /\ UNCHANGED tunnel
    BY <1>1, <2>2, GiveUpEffect DEF TypeOK
  <2>3. QED
    BY <2>1, <2>2 DEF StopMachine
<1>3. UNCHANGED <<project, shared, cancelled, port, volume>>
  BY DEF StopMachine
<1>4. QED
  BY <1>1, <1>2, <1>3, ElsewhereInv DEF TypeOK, Edit, Marked

LEMMA InspectInv == ASSUME IInv, InspectStopped PROVE IInv'
<1>1. TypeOK /\ run.pc = "inspect" /\ ~ up
  BY DEF IInv, Stopped, InspectStopped, At
<1>2. run' \in Run /\ Kept /\ run'.pc \in {"closed", "diagnose"}
  BY <1>1, StepNames, GotoEffect, GiveUpEffect DEF InspectStopped
<1>3. QED
  BY <1>1, <1>2, ElsewhereInv DEF InspectStopped, TypeOK, world, Edit, Marked

LEMMA ClosedInv == ASSUME IInv, AwaitClosed PROVE IInv'
<1>1. TypeOK /\ run.pc = "closed" /\ ~ up
  BY DEF IInv, Stopped, AwaitClosed, At
<1>2. run' \in Run /\ Kept /\ run'.pc \in {"closed", "up", "diagnose"}
  <2>1. CASE \E e \in run.left : Settle(e, "up")
    BY <1>1, <2>1, StepNames, SettleEffect
  <2>2. CASE Again
    BY <1>1, <2>2, AgainEffect
  <2>3. CASE GiveUp
    BY <1>1, <2>3, GiveUpEffect
  <2>4. QED
    BY <2>1, <2>2, <2>3 DEF AwaitClosed
<1>3. QED
  BY <1>1, <1>2, ElsewhereInv DEF AwaitClosed, TypeOK, world, Edit, Marked

LEMMA UpInv == ASSUME IInv, UpMachine PROVE IInv'
<1>1. TypeOK /\ run.pc = "up"
  BY DEF IInv, UpMachine, At
<1>2. /\ UNCHANGED <<project, shared, cancelled>>
      /\ volume' \in Volumes
      /\ up' \in BOOLEAN /\ tunnel' \in BOOLEAN
      /\ port' \in [Endpoint -> {"free", "tunnel", "other"}]
  BY <1>1, VolumeType DEF UpMachine, TypeOK
<1>3. run' \in Run /\ Kept /\ run'.pc \in {"start", "diagnose"}
  BY <1>1, StepNames, GotoEffect, GiveUpEffect DEF UpMachine
<1>4. QED
  BY <1>1, <1>2, <1>3, ElsewhereInv DEF Edit, Marked

LEMMA StartInv == ASSUME IInv, StartStack PROVE IInv'
<1>1. TypeOK /\ run.pc = "start"
  BY DEF IInv, StartStack, At
<1>2. /\ UNCHANGED <<project, shared, cancelled, tunnel, port>>
      /\ volume' \in Volumes /\ up' \in BOOLEAN
  BY <1>1, VolumeType DEF StartStack, InGuest, TypeOK
<1>3. run' \in Run /\ Kept /\ run'.pc \in {"confirm", "diagnose"}
  BY <1>1, StepNames, GotoEffect, GiveUpEffect DEF StartStack
<1>4. QED
  BY <1>1, <1>2, <1>3, ElsewhereInv DEF TypeOK, Edit, Marked

LEMMA ServicesInv ==
    ASSUME IInv, ConfirmCompose \/ AwaitServices \/ Diagnose PROVE IInv'
<1>1. TypeOK /\ run.pc \in {"confirm", "await", "diagnose"}
  BY DEF IInv, ConfirmCompose, AwaitServices, Diagnose, At
<1>2. /\ UNCHANGED <<project, shared, cancelled, tunnel, port, volume>>
      /\ up' \in BOOLEAN
  BY <1>1 DEF ConfirmCompose, AwaitServices, Diagnose, InGuest, TypeOK, world
<1>3. /\ run' \in Run /\ Kept
      /\ run'.pc \in {"await", "verifyAgain", "diagnose", "failed"}
  <2>1. CASE ConfirmCompose
    BY <1>1, <2>1, StepNames, GoOn DEF ConfirmCompose
  <2>2. CASE AwaitServices
    BY <1>1, <2>2, StepNames, GoOn, AgainEffect DEF AwaitServices, At
  <2>3. CASE Diagnose
    BY <1>1, <2>3 DEF Diagnose, TypeOK, Run, Kept
  <2>4. QED
    BY <2>1, <2>2, <2>3
<1>4. QED
  BY <1>1, <1>2, <1>3, ElsewhereInv DEF TypeOK, Edit, Marked

-----------------------------------------------------------------------------
(* The edit. Only the files and up change, and no step of it is followed   *)
(* by the restart's.                                                       *)

LEMMA EditInv ==
    ASSUME IInv, UNCHANGED <<tunnel, port, volume, shared, cancelled>>,
           up' \in BOOLEAN, run' \in Run,
           run'.op = run.op, run'.before = run.before,
           run.pc \in Edit \cup {"reserve"},
           run'.pc \in Edit \cup {"stop", "diagnose"},
           marker' \in Files \ {"late"}, copy' \in Files,
           guestCopy' \in {"none", "ours"},
           OwnFiles'
    PROVE  IInv'
<1>1. TypeOK'
  BY DEF IInv, TypeOK
<1>2. Captured' /\ Stopped'
  BY DEF IInv, Captured, Stopped, Edit, Marked
<1>3. QED
  BY <1>1, <1>2 DEF IInv

LEMMA ReserveInv == ASSUME IInv, ReserveCopy PROVE IInv'
<1>1. TypeOK /\ run.pc = "reserve"
  BY DEF IInv, ReserveCopy, At
<1>2. /\ run' \in Run /\ Kept /\ run'.pc \in {"mark", "diagnose"}
      /\ run'.pc = "mark" => copy = "none"
  <2>1. CASE copy = "none" /\ Goto("mark")
    BY <1>1, <2>1, StepNames, GotoEffect
  <2>2. CASE GiveUp
    BY <1>1, <2>2, GiveUpEffect
  <2>3. QED
    BY <2>1, <2>2 DEF ReserveCopy
<1>3. UNCHANGED <<world, project, shared, cancelled>>
  BY DEF ReserveCopy
<1>4. OwnFiles'
  BY <1>1, <1>2, <1>3 DEF IInv, OwnFiles, project, Kept, Edit, Marked
<1>5. QED
  BY <1>1, <1>2, <1>3, <1>4, EditInv
     DEF TypeOK, world, project, Kept, Edit, Marked

LEMMA MarkInv == ASSUME IInv, WriteMarker PROVE IInv'
<1>1. TypeOK /\ OwnFiles /\ run.pc = "mark"
  BY DEF IInv, WriteMarker, At
<1>2. /\ run' \in Run /\ run'.op = run.op /\ run'.before = run.before
      /\ \/ run'.pc = "cat" /\ marker' = "ours" /\ Kept
         \/ /\ run'.pc = "diagnose" /\ marker' = "ours"
            /\ run'.stuck = run.stuck \cup {"marker"}
         \/ run'.pc = "diagnose" /\ marker' = marker /\ Kept
  <2>1. CASE marker' = "ours" /\ Goto("cat")
    BY <1>1, <2>1, StepNames, GotoEffect DEF Kept
  <2>2. CASE /\ marker' = "ours"
             /\ run' = [run EXCEPT !.pc = "diagnose",
                                   !.stuck = @ \cup {"marker"}]
    <3>1. run.stuck \cup {"marker"} \in SUBSET Removals
      BY <1>1 DEF TypeOK, Run, Removals
    <3>2. QED
      BY <1>1, <2>2, <3>1, StepNames DEF TypeOK, Run
  <2>3. CASE GiveUp /\ UNCHANGED marker
    BY <1>1, <2>3, GiveUpEffect DEF Kept
  <2>4. QED
    BY <2>1, <2>2, <2>3 DEF WriteMarker
<1>3. UNCHANGED <<world, copy, guestCopy, shared, cancelled>>
  BY DEF WriteMarker
<1>4. OwnFiles'
  BY <1>1, <1>2, <1>3 DEF OwnFiles, Kept, Edit, Marked
<1>5. marker' \in Files \ {"late"}
  BY <1>1, <1>2 DEF TypeOK, Files
<1>6. QED
  BY <1>1, <1>2, <1>3, <1>4, <1>5, EditInv
     DEF TypeOK, world, Edit, Marked

LEMMA ReadInv == ASSUME IInv, ReadInGuest PROVE IInv'
<1>1. TypeOK /\ OwnFiles /\ run.pc = "cat"
  BY DEF IInv, ReadInGuest, At
<1>2. run' \in Run /\ Kept /\ run'.pc \in {"cp", "rmHost"}
  BY <1>1, StepNames, GotoEffect, UnwindEffect DEF ReadInGuest
<1>3. /\ UNCHANGED <<tunnel, port, volume, project, shared, cancelled>>
      /\ up' \in BOOLEAN
  BY <1>1 DEF ReadInGuest, InGuest, TypeOK
<1>4. OwnFiles'
  BY <1>1, <1>2, <1>3 DEF OwnFiles, project, Kept, Edit, Marked
<1>5. QED
  BY <1>1, <1>2, <1>3, <1>4, EditInv DEF TypeOK, project, Kept, Edit, Marked

LEMMA CopyInv == ASSUME IInv, CopyInGuest PROVE IInv'
<1>1. TypeOK /\ OwnFiles /\ run.pc = "cp"
  BY DEF IInv, CopyInGuest, At
<1>2. run' \in Run /\ Kept /\ run'.pc \in {"look", "rmGuest"}
  BY <1>1, StepNames, GotoEffect, UnwindEffect DEF CopyInGuest
<1>3. /\ UNCHANGED <<tunnel, port, volume, marker, shared, cancelled>>
      /\ up' \in BOOLEAN
  BY <1>1 DEF CopyInGuest, InGuest, TypeOK
<1>4. \/ UNCHANGED <<copy, guestCopy>>
      \/ shared /\ copy' = "ours" /\ UNCHANGED guestCopy
      \/ ~ shared /\ guestCopy' = "ours" /\ UNCHANGED copy
  BY DEF CopyInGuest, InGuestCopy
<1>5. OwnFiles'
  BY <1>1, <1>2, <1>3, <1>4 DEF OwnFiles, Kept, Edit, Marked
<1>6. /\ copy' \in Files /\ guestCopy' \in {"none", "ours"}
      /\ marker' \in Files \ {"late"}
  BY <1>1, <1>3, <1>4 DEF TypeOK, Files
<1>7. QED
  BY <1>1, <1>2, <1>3, <1>5, <1>6, EditInv DEF Kept, Edit, Marked

LEMMA LookInv == ASSUME IInv, LookAtCopy PROVE IInv'
<1>1. TypeOK /\ OwnFiles /\ run.pc = "look"
  BY DEF IInv, LookAtCopy, At
<1>2. run' \in Run /\ Kept /\ run'.pc = "rmGuest"
  BY <1>1, StepNames, GotoEffect, UnwindEffect DEF LookAtCopy
<1>3. /\ UNCHANGED <<tunnel, port, volume, project, shared, cancelled>>
      /\ up' \in BOOLEAN
  BY <1>1 DEF LookAtCopy, InGuest, TypeOK
<1>4. OwnFiles'
  BY <1>1, <1>2, <1>3 DEF OwnFiles, project, Kept, Edit, Marked
<1>5. QED
  BY <1>1, <1>2, <1>3, <1>4, EditInv DEF TypeOK, project, Kept, Edit, Marked

LEMMA RemoveGuestInv == ASSUME IInv, RemoveGuestCopy PROVE IInv'
<1>1. TypeOK /\ OwnFiles /\ run.pc = "rmGuest"
  BY DEF IInv, RemoveGuestCopy, At
<1>2. /\ run' \in Run /\ run'.pc = "rmHost"
      /\ run'.op = run.op /\ run'.before = run.before
      /\ \/ run'.stuck = run.stuck /\ InGuestCopy("none")
         \/ /\ run'.stuck = run.stuck \cup {"guest"}
            /\ UNCHANGED <<copy, guestCopy>>
  <2>1. run.stuck \cup {"guest"} \in SUBSET Removals
    BY <1>1 DEF TypeOK, Run, Removals
  <2>2. QED
    BY <1>1, <2>1, StepNames DEF RemoveGuestCopy, TypeOK, Run
<1>3. /\ UNCHANGED <<tunnel, port, volume, marker, shared, cancelled>>
      /\ up' \in BOOLEAN
  BY DEF RemoveGuestCopy
<1>4. /\ shared' = shared /\ copy' \in {"none", copy}
      /\ guestCopy' \in {"none", guestCopy}
      /\ \/ "guest" \in run'.stuck
         \/ shared /\ copy' = "none"
         \/ ~ shared /\ copy' = copy /\ guestCopy' = "none"
      /\ run.stuck \subseteq run'.stuck
  BY <1>2, <1>3 DEF InGuestCopy
<1>5. OwnFiles'
  BY <1>1, <1>2, <1>3, <1>4 DEF OwnFiles, Edit, Marked
<1>6. /\ copy' \in Files /\ guestCopy' \in {"none", "ours"}
      /\ marker' \in Files \ {"late"}
  BY <1>1, <1>3, <1>4 DEF TypeOK, Files
<1>7. QED
  BY <1>1, <1>2, <1>3, <1>5, <1>6, EditInv DEF Edit, Marked

LEMMA RemoveHostInv == ASSUME IInv, RemoveHostFiles PROVE IInv'
<1>1. TypeOK /\ OwnFiles /\ run.pc = "rmHost"
  BY DEF IInv, RemoveHostFiles, At
<1>2. PICK failed \in SUBSET {"marker", "copy"} :
        /\ marker' = IF "marker" \in failed THEN marker ELSE "none"
        /\ copy' = IF "copy" \in failed THEN copy ELSE "none"
        /\ run' = [run EXCEPT !.pc = IF run.bad THEN "diagnose" ELSE "stop",
                              !.stuck = @ \cup failed]
  BY DEF RemoveHostFiles
<1>3. /\ run' \in Run /\ run'.pc \in {"stop", "diagnose"}
      /\ run'.op = run.op /\ run'.before = run.before
      /\ run'.stuck = run.stuck \cup failed
  <2>1. run.stuck \cup failed \in SUBSET Removals
    BY <1>1 DEF TypeOK, Run, Removals
  <2>2. QED
    BY <1>1, <1>2, <2>1, StepNames DEF TypeOK, Run
<1>4. /\ UNCHANGED <<world, guestCopy, shared, cancelled>>
      /\ marker' \in {marker, "none"} /\ copy' \in {copy, "none"}
  BY <1>2 DEF RemoveHostFiles
<1>5. OwnFiles'
  <2>1. marker' = "ours" => "marker" \in run'.stuck
    BY <1>2, <1>3
  <2>2. copy' = "ours" => shared /\ {"copy", "guest"} \subseteq run'.stuck
    BY <1>1, <1>2, <1>3 DEF OwnFiles
  <2>3. guestCopy' = "ours" => ~ shared /\ "guest" \in run'.stuck
    BY <1>1, <1>3, <1>4 DEF OwnFiles
  <2>4. QED
    BY <1>3, <1>4, <2>1, <2>2, <2>3 DEF OwnFiles, Edit, Marked
<1>6. QED
  BY <1>1, <1>3, <1>4, <1>5, EditInv DEF TypeOK, Files, world, Edit, Marked

-----------------------------------------------------------------------------
(* Everything around the run.                                              *)

LEMMA AroundInv ==
    ASSUME IInv, Cancel \/ TunnelEnds \/ PortChanges \/ DeveloperCreates
    PROVE  IInv'
<1>1. UNCHANGED <<run, up, volume, shared, guestCopy>>
  BY DEF Cancel, TunnelEnds, PortChanges, DeveloperCreates, world, project
<1>2. TypeOK'
  BY <1>1 DEF IInv, TypeOK, Files, Cancel, TunnelEnds, PortChanges,
              DeveloperCreates, world, project
<1>3. OwnFiles'
  <2>1. \/ UNCHANGED <<marker, copy>>
        \/ marker = "none" /\ marker' = "developer" /\ UNCHANGED copy
        \/ /\ copy' \in {"late", "developer"} /\ UNCHANGED marker
           /\ run.pc \in Edit => copy' = "late"
    BY DEF Cancel, TunnelEnds, PortChanges, DeveloperCreates, project
  <2>2. QED
    BY <1>1, <2>1 DEF IInv, OwnFiles, Edit, Marked
<1>4. Captured' /\ Stopped'
  BY <1>1 DEF IInv, Captured, Stopped
<1>5. QED
  BY <1>2, <1>3, <1>4 DEF IInv

(* The steps of a run keep the invariant.                                  *)
LEMMA StepInv == ASSUME IInv, Step PROVE IInv'
<1>1. CASE Verify \/ VerifyAgain
  BY <1>1, VerifyInv DEF Verify, VerifyAgain
<1>2. QED
  BY <1>1, CaptureInv, FirstProbeInv, ReserveInv, MarkInv, ReadInv, CopyInv,
     LookInv, RemoveGuestInv, RemoveHostInv, StopInv, InspectInv, ClosedInv,
     UpInv, StartInv, ServicesInv, ProbeAgainInv, CompareInv DEF Step

(* The invariant is inductive.                                             *)
THEOREM Invariant == Spec => []IInv
<1>1. IInv /\ [Next]_vars => IInv'
  <2> SUFFICES ASSUME IInv, [Next]_vars PROVE IInv'
    OBVIOUS
  <2>1. CASE Step
    BY <2>1, StepInv
  <2>2. CASE Cancel \/ TunnelEnds \/ PortChanges \/ DeveloperCreates
    BY <2>2, AroundInv
  <2>3. CASE UNCHANGED vars
    BY <2>3 DEF vars, world, project, IInv, TypeOK, OwnFiles, Captured, Stopped
  <2>4. QED
    BY <2>1, <2>2, <2>3 DEF Next
<1>2. QED
  BY <1>1, InitInv, PTL DEF Spec

(* The variables keep their types.                                         *)
THEOREM TypeCorrect == Spec => []TypeOK
<1>1. IInv => TypeOK
  BY DEF IInv
<1>2. QED
  BY <1>1, Invariant, PTL

(* However a run ends, a file of its own is left in the project only where *)
(* every removal that could reach it failed: on a shared mount the copy's  *)
(* two (the deferred removals of the edit).                                *)
THEOREM LeavesRepositoryClean == Spec => []RepositoryLeftClean
<1>1. IInv => RepositoryLeftClean
  BY DEF IInv, OwnFiles, RepositoryLeftClean, Over, Marked
<1>2. QED
  BY <1>1, Invariant, PTL

(* A persistence run passes only with the volume it found and all its data *)
(* (compareVolumes).                                                       *)
THEOREM VouchesTruly == Spec => []VolumesVouched
<1>1. IInv => VolumesVouched
  BY DEF IInv, TypeOK, Volumes, Captured, Preserved, Fresh, VolumesVouched
<1>2. QED
  BY <1>1, Invariant, PTL

(* No file of the developer's is overwritten or removed: none of the       *)
(* marker's name, at whichever moment it appears (O_EXCL), and none of the *)
(* copy's name that did not first appear during the edit (the look at it). *)
THEOREM SparesDevelopersFiles == Spec => DeveloperFilesKept
<1> DEFINE Kind ==
      /\ marker = "developer" => marker' = "developer"
      /\ copy = "developer" => copy' = "developer"
<1>1. IInv /\ [Next]_vars => [Kind]_vars
  <2> SUFFICES ASSUME IInv, [Next]_vars PROVE Kind
    OBVIOUS
  <2>1. CASE RemoveHostFiles
    BY <2>1 DEF RemoveHostFiles, At, IInv, OwnFiles, Edit, Marked
  <2>2. CASE CopyInGuest \/ RemoveGuestCopy
    BY <2>2 DEF CopyInGuest, RemoveGuestCopy, InGuestCopy, At, IInv, OwnFiles,
                Edit, Marked
  <2>3. CASE WriteMarker
    BY <2>3 DEF WriteMarker
  <2>4. CASE DeveloperCreates
    BY <2>4 DEF DeveloperCreates
  <2>5. CASE UNCHANGED project
    BY <2>5 DEF project
  <2>6. QED
    BY <2>1, <2>2, <2>3, <2>4, <2>5
       DEF Next, Step, vars, Cancel, TunnelEnds, PortChanges, CaptureVolumes,
           Verify, VerifyAgain, VerifyTunnel, Probe, ProbeAgain,
           ProbeEndpoints, ReserveCopy, ReadInGuest, LookAtCopy, StopMachine,
           InspectStopped, AwaitClosed, UpMachine, StartStack, ConfirmCompose,
           AwaitServices, CompareVolumes, Diagnose
<1>2. QED
  BY <1>1, Invariant, PTL DEF Spec, DeveloperFilesKept

(* up follows stop only after every port was found with nobody listening   *)
(* on it, while the machine was stopped (awaitClosed).                     *)
THEOREM RestartsOnClosedPorts == Spec => ClosedPortsWereFree
<1> DEFINE Closes ==
      At("closed") =>
        \A e \in Settled : ~ up /\ ~ cancelled /\ port[e] = "free"
<1>1. IInv /\ [Next]_vars => [Closes]_vars
  <2> SUFFICES ASSUME IInv, [Next]_vars, At("closed"), NEW e \in Settled
               PROVE  ~ up /\ ~ cancelled /\ port[e] = "free"
    OBVIOUS
  <2>1. TypeOK /\ ~ up /\ run.pc = "closed"
    BY DEF IInv, Stopped, At
  <2>2. CASE AwaitClosed
    <3>1. CASE \E f \in run.left : ~ cancelled /\ Refused(f) /\ Settle(f, "up")
      <4>1. PICK f \in run.left : ~ cancelled /\ Refused(f) /\ Settle(f, "up")
        BY <3>1
      <4>2. e = f
        BY <2>1, <4>1, StepNames, SettleEffect DEF Settled
      <4>3. QED
        BY <2>1, <4>1, <4>2 DEF Refused
    <3>2. CASE Again
      BY <2>1, <3>2, AgainEffect DEF Settled
    <3>3. CASE GiveUp
      BY <2>1, <3>3, GiveUpEffect DEF Settled
    <3>4. QED
      BY <2>2, <3>1, <3>2, <3>3 DEF AwaitClosed
  <2>3. CASE run' = run
    BY <2>1, <2>3 DEF Settled
  <2>4. QED
    BY <2>1, <2>2, <2>3
       DEF Next, Step, At, vars, Cancel, TunnelEnds, PortChanges,
           DeveloperCreates, CaptureVolumes, Verify, VerifyAgain, VerifyTunnel,
           Probe, ProbeAgain, ProbeEndpoints, ReserveCopy, WriteMarker,
           ReadInGuest, CopyInGuest, LookAtCopy, RemoveGuestCopy,
           RemoveHostFiles, StopMachine, InspectStopped, UpMachine, StartStack,
           ConfirmCompose, AwaitServices, CompareVolumes, Diagnose
<1>2. QED
  BY <1>1, Invariant, PTL DEF Spec, ClosedPortsWereFree
=============================================================================
