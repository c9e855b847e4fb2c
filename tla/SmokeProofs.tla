---------------------------- MODULE SmokeProofs -----------------------------
(***************************************************************************)
(* Proofs of the safety properties of Smoke, for any number of attempts of *)
(* the probes.                                                             *)
(***************************************************************************)
EXTENDS Smoke, TLAPS

(* The steps during which the run's machine is there, and those at which   *)
(* each part of teardown is behind.                                        *)
HasMachine == {"docker", "locate", "compose", "network", "services",
               "probeGuest", "address", "probeHost"}
AfterDown == {"destroy", "delete", "remove", "returned"}
AfterDestroy == {"delete", "remove", "returned"}
AfterDelete == {"remove", "returned"}

(* Teardown finds what it has to remove: the record leads to the machine,  *)
(* composeUp to the containers and imageBuilt to the image.                *)
Known ==
    /\ "machine" \in before => "machine" \in present /\ "record" \notin present
    /\ "machine" \in Leaked \/ "containers" \in present => "record" \in present
    /\ run.pc \in HasMachine => "record" \in present
    /\ "containers" \in present => run.composeUp
    /\ "image" \in Leaked => run.imageBuilt
    /\ run.pc \in {"write", "unwritten"} =>
         "record" \notin present /\ ~ run.imageBuilt

(* What is still there although its step is behind was reported by a call  *)
(* that failed by itself.                                                  *)
Accounted ==
    /\ late => trouble
    /\ run.pc = "unwritten" => "fixture" \in run.reported
    /\ run.pc \in AfterDown /\ "containers" \in present =>
         "containers" \in run.reported /\ trouble
    /\ run.pc \in AfterDestroy /\ "record" \in present =>
         "machine" \in run.reported /\ trouble
    /\ run.pc \in AfterDelete /\ "image" \in Leaked =>
         "image" \in run.reported /\ trouble
    /\ run.pc = "returned" /\ "fixture" \in Leaked =>
         "fixture" \in run.reported /\ trouble

IInv == TypeOK /\ Known /\ Accounted

-----------------------------------------------------------------------------

(* The attempts of a probe start at zero and stay below ProbeTries.        *)
LEMMA Attempts ==
    /\ 0 \in Attempt
    /\ \A a \in Attempt : a + 1 < ProbeTries => a + 1 \in Attempt
BY ProbeTriesAssumption DEF Attempt, ProbeTriesAssumption

(* The invariant holds at first.                                           *)
LEMMA InitInv == Init => IInv
<1> SUFFICES ASSUME Init PROVE IInv
  OBVIOUS
<1>1. TypeOK
  BY Attempts DEF Init, TypeOK, Run, Steps, Resource
<1>2. Known
  BY DEF Init, Known, Leaked, HasMachine
<1>3. Accounted
  BY DEF Init, Accounted, Leaked, AfterDown, AfterDestroy, AfterDelete
<1>4. QED
  BY <1>1, <1>2, <1>3 DEF IInv

(* What Goto leaves of the run.                                            *)
LEMMA GotoEffect ==
    ASSUME run \in Run, NEW step \in Steps, Goto(step)
    PROVE  /\ run' \in Run /\ run'.pc = step
           /\ run'.imageBuilt = run.imageBuilt
           /\ run'.composeUp = run.composeUp
           /\ run'.reported = run.reported
BY Attempts DEF Goto, Run

(* A step that keeps what is there keeps the invariant, if it stays in     *)
(* perform or begins teardown.                                             *)
LEMMA KeepInv ==
    ASSUME IInv, UNCHANGED <<present, quiet>>, run' \in Run,
           run'.pc \in HasMachine => run.pc \in HasMachine,
           run'.pc \in HasMachine \cup {"up", "down"},
           run'.imageBuilt = run.imageBuilt,
           run'.composeUp = run.composeUp
    PROVE  IInv'
<1>1. TypeOK'
  BY DEF IInv, TypeOK, quiet
<1>2. Known'
  BY DEF IInv, Known, quiet, Leaked, HasMachine
<1>3. Accounted'
  BY DEF IInv, Accounted, quiet, Leaked, HasMachine, AfterDown, AfterDestroy,
         AfterDelete
<1>4. QED
  BY <1>1, <1>2, <1>3 DEF IInv

(* A step that gives up keeps the invariant if it keeps what is there.     *)
LEMMA GiveUpInv ==
    ASSUME IInv, GiveUp, UNCHANGED <<present, quiet>>
    PROVE  IInv'
<1>1. run \in Run /\ "down" \in Steps
  BY DEF IInv, TypeOK, Steps
<1>2. Goto("down")
  BY DEF GiveUp
<1>3. /\ run' \in Run /\ run'.pc = "down"
      /\ run'.imageBuilt = run.imageBuilt
      /\ run'.composeUp = run.composeUp
  BY <1>1, <1>2, GotoEffect
<1>4. QED
  BY <1>3, KeepInv DEF HasMachine

(* The steps that only look keep the invariant.                            *)
LEMMA LookInv ==
    ASSUME IInv, NEW step \in HasMachine, NEW next \in HasMachine,
           Look(step, next)
    PROVE  IInv'
<1>1. CASE GiveUp
  BY <1>1, GiveUpInv DEF Look
<1>2. CASE Goto(next)
  <2>1. run \in Run /\ next \in Steps
    BY DEF IInv, TypeOK, Steps, HasMachine
  <2>2. /\ run' \in Run /\ run'.pc = next
        /\ run'.imageBuilt = run.imageBuilt
        /\ run'.composeUp = run.composeUp
    BY <1>2, <2>1, GotoEffect
  <2>3. run.pc \in HasMachine
    BY DEF Look, At
  <2>4. QED
    BY <2>2, <2>3, KeepInv DEF Look
<1>3. QED
  BY <1>1, <1>2 DEF Look

(* The attempts of a probe keep the invariant.                             *)
LEMMA ProbeInv ==
    ASSUME IInv, NEW step \in HasMachine, NEW next \in HasMachine \cup {"down"},
           Probe(step, next)
    PROVE  IInv'
<1> USE DEF Probe
<1>0. run \in Run /\ next \in Steps /\ run.pc = step
  BY DEF IInv, TypeOK, Steps, HasMachine, At
<1>1. CASE GiveUp
  BY <1>1, GiveUpInv
<1>2. CASE Goto(next)
  <2>1. /\ run' \in Run /\ run'.pc = next
        /\ run'.imageBuilt = run.imageBuilt
        /\ run'.composeUp = run.composeUp
    BY <1>0, <1>2, GotoEffect
  <2>2. QED
    BY <1>0, <2>1, KeepInv
<1>3. CASE /\ run.attempt + 1 < ProbeTries
           /\ run' = [run EXCEPT !.attempt = @ + 1]
  <2>1. run.attempt \in Attempt
    BY <1>0 DEF Run
  <2>2. run.attempt + 1 \in Attempt
    BY <1>3, <2>1, Attempts
  <2>3. /\ run' \in Run /\ run'.pc = step
        /\ run'.imageBuilt = run.imageBuilt
        /\ run'.composeUp = run.composeUp
    BY <1>0, <1>3, <2>2 DEF Run
  <2>4. QED
    BY <1>0, <2>3, KeepInv
<1>4. QED
  BY <1>1, <1>2, <1>3

(* Writing the fixture keeps the invariant.                                *)
LEMMA WriteFixtureInv == ASSUME IInv, WriteFixture PROVE IInv'
<1>1. /\ run \in Run /\ run.pc = "write" /\ "ensure" \in Steps
      /\ present \subseteq Resource
  BY DEF IInv, TypeOK, WriteFixture, At, Steps
<1>2. /\ run' \in Run
      /\ run'.imageBuilt = run.imageBuilt /\ run'.composeUp = run.composeUp
      /\ \/ run'.pc = "ensure"
         \/ run'.pc = "unwritten" /\ "fixture" \in run'.reported
  <2>1. CASE Goto("ensure")
    BY <1>1, <2>1, GotoEffect
  <2>2. CASE run' = [run EXCEPT !.pc = "unwritten", !.reported = {"fixture"}]
    BY <1>1, <2>2 DEF Run, Resource
  <2>3. QED
    BY <2>1, <2>2 DEF WriteFixture
<1>3. present' = present \/ present' = present \cup {"fixture"}
  BY DEF WriteFixture
<1>4. UNCHANGED quiet
  BY DEF WriteFixture
<1>5. TypeOK'
  BY <1>2, <1>3, <1>4 DEF IInv, TypeOK, quiet, Resource
<1>6. Known'
  BY <1>1, <1>2, <1>3, <1>4 DEF IInv, Known, quiet, Leaked, HasMachine
<1>7. Accounted'
  BY <1>2, <1>4 DEF IInv, Accounted, quiet, AfterDown, AfterDestroy, AfterDelete
<1>8. QED
  BY <1>5, <1>6, <1>7 DEF IInv

(* Ensuring the image keeps the invariant.                                 *)
LEMMA EnsureImageInv == ASSUME IInv, EnsureImage PROVE IInv'
<1>1. CASE GiveUp /\ UNCHANGED present
  BY <1>1, GiveUpInv DEF EnsureImage
<1>2. CASE /\ present' = present \cup {"image"}
           /\ run' = [run EXCEPT !.pc = "up", !.imageBuilt = TRUE]
  <2>1. /\ run' \in Run /\ run'.pc = "up"
        /\ run'.imageBuilt /\ run'.composeUp = run.composeUp
    BY <1>2 DEF IInv, TypeOK, Run, Steps
  <2>2. UNCHANGED quiet
    BY DEF EnsureImage
  <2>3. TypeOK'
    BY <1>2, <2>1, <2>2 DEF IInv, TypeOK, quiet, Resource
  <2>4. Known'
    BY <1>2, <2>1, <2>2 DEF IInv, Known, quiet, Leaked, HasMachine
  <2>5. Accounted'
    BY <2>1, <2>2 DEF IInv, Accounted, quiet, AfterDown, AfterDestroy, AfterDelete
  <2>6. QED
    BY <2>3, <2>4, <2>5 DEF IInv
<1>3. QED
  BY <1>1, <1>2 DEF EnsureImage

(* Creating the machine keeps the invariant.                               *)
LEMMA UpInv == ASSUME IInv, Up PROVE IInv'
<1>1. run \in Run /\ {"docker", "down"} \subseteq Steps
  BY DEF IInv, TypeOK, Steps
<1>2. CASE GiveUp /\ UNCHANGED present
  BY <1>2, GiveUpInv DEF Up
<1>3. CASE ~ (GiveUp /\ UNCHANGED present)
  <2>1. /\ run' \in Run
        /\ run'.imageBuilt = run.imageBuilt /\ run'.composeUp = run.composeUp
        /\ run'.pc \in {"docker", "down"}
        /\ run'.pc = "docker" => present' = present \cup {"record", "machine"}
    <3>1. CASE Goto("docker") /\ present' = present \cup {"record", "machine"}
      BY <1>1, <3>1, GotoEffect
    <3>2. CASE Goto("down")
      BY <1>1, <3>2, GotoEffect
    <3>3. QED
      BY <3>1, <3>2 DEF Up, GiveUp
  <2>2. /\ "machine" \notin present
        /\ \/ present' = present \cup {"record"}
           \/ present' = present \cup {"record", "machine"}
           \/ present' = present
    BY <1>3 DEF Up
  <2>3. UNCHANGED quiet
    BY DEF Up
  <2>4. TypeOK'
    BY <2>1, <2>2, <2>3 DEF IInv, TypeOK, quiet, Resource
  <2>5. Known'
    BY <2>1, <2>2, <2>3 DEF IInv, Known, quiet, Leaked, HasMachine
  <2>6. Accounted'
    BY <2>1, <2>3 DEF IInv, Accounted, quiet, AfterDown, AfterDestroy, AfterDelete
  <2>7. QED
    BY <2>4, <2>5, <2>6 DEF IInv
<1>4. QED
  BY <1>2, <1>3

(* Starting the workload keeps the invariant.                              *)
LEMMA ComposeUpInv == ASSUME IInv, ComposeUp PROVE IInv'
<1>1. run.pc = "compose" /\ UNCHANGED quiet
  BY DEF ComposeUp, At
<1>2. present' = present \/ present' = present \cup {"containers"}
  BY DEF ComposeUp
<1>3. /\ run' \in Run /\ run'.pc \in {"network", "down"}
      /\ run'.imageBuilt = run.imageBuilt /\ run'.composeUp
  BY DEF ComposeUp, IInv, TypeOK, Run, Steps
<1>4. TypeOK'
  BY <1>1, <1>2, <1>3 DEF IInv, TypeOK, quiet, Resource
<1>5. Known'
  BY <1>1, <1>2, <1>3 DEF IInv, Known, quiet, Leaked, HasMachine
<1>6. Accounted'
  BY <1>1, <1>3 DEF IInv, Accounted, quiet, AfterDown, AfterDestroy, AfterDelete
<1>7. QED
  BY <1>4, <1>5, <1>6 DEF IInv

(* What became of a removal: all parts are gone, or it was reported and    *)
(* there was trouble.                                                      *)
Removed(parts, name, next) ==
    /\ run' \in Run /\ run'.pc = next
    /\ run'.imageBuilt = run.imageBuilt /\ run'.composeUp = run.composeUp
    /\ run.reported \subseteq run'.reported
    /\ late' \in BOOLEAN /\ trouble' \in BOOLEAN
    /\ late' => trouble'
    /\ trouble => trouble'
    /\ \/ present' = present \ UNION parts
       \/ /\ name \in run'.reported /\ trouble'
          /\ present' = present \/ \E part \in parts : present' = present \ part

(* A step of teardown that goes right leaves only its mark in the run.     *)
LEMMA WorkedEffect ==
    ASSUME IInv, NEW next \in AfterDown, Worked(next)
    PROVE  /\ run' \in Run /\ run'.pc = next
           /\ run'.imageBuilt = run.imageBuilt /\ run'.composeUp = run.composeUp
           /\ run'.reported = run.reported
           /\ late' = late /\ trouble' = trouble
BY DEF IInv, TypeOK, Worked, Run, Steps, AfterDown

(* One that fails is reported and there is trouble.                        *)
LEMMA FailedEffect ==
    ASSUME IInv, NEW name \in Resource, NEW next \in AfterDown,
           Failed(name, next)
    PROVE  /\ run' \in Run /\ run'.pc = next
           /\ run'.imageBuilt = run.imageBuilt /\ run'.composeUp = run.composeUp
           /\ run'.reported = run.reported \cup {name}
           /\ late' \in BOOLEAN /\ trouble' = TRUE
<1>1. run \in Run /\ late \in BOOLEAN /\ trouble \in BOOLEAN /\ (late => trouble)
  BY DEF IInv, TypeOK, Accounted
<1>2. late' \in BOOLEAN /\ trouble' = TRUE
  BY <1>1 DEF Failed, Able
<1>3. run' = [run EXCEPT !.pc = next, !.reported = @ \cup {name}]
  BY DEF Failed
<1>4. QED
  BY <1>1, <1>2, <1>3 DEF Run, Steps, AfterDown

(* Every removal ends in one of these two ways.                            *)
LEMMA RemovesEffect ==
    ASSUME IInv, NEW parts, NEW name \in Resource, NEW next \in AfterDown,
           Removes(parts, name, next)
    PROVE  Removed(parts, name, next)
<1>1. late \in BOOLEAN /\ trouble \in BOOLEAN /\ (late => trouble)
  BY DEF IInv, TypeOK, Accounted
<1>2. CASE Worked(next) /\ present' = present \ UNION parts
  BY <1>1, <1>2, WorkedEffect DEF Removed
<1>3. CASE /\ Failed(name, next)
           /\ \E part \in parts : present' = present \ (IF Able THEN part ELSE {})
  <2>1. present' = present \/ \E part \in parts : present' = present \ part
    BY <1>3
  <2>2. QED
    BY <1>1, <1>3, <2>1, FailedEffect DEF Removed
<1>4. QED
  BY <1>2, <1>3 DEF Removes

(* Nothing to remove: the same holds of no parts.                          *)
LEMMA SkipEffect ==
    ASSUME IInv, NEW name, NEW next \in AfterDown, Skip(next)
    PROVE  Removed({{}}, name, next)
<1>1. late \in BOOLEAN /\ trouble \in BOOLEAN /\ (late => trouble)
  BY DEF IInv, TypeOK, Accounted
<1>2. present' = present \ UNION {{}}
  BY DEF Skip
<1>3. QED
  BY <1>1, <1>2, WorkedEffect DEF Removed, Skip

(* Taking the workload down keeps the invariant.                           *)
LEMMA ComposeDownInv == ASSUME IInv, ComposeDown PROVE IInv'
<1>1. "containers" \in Resource /\ "destroy" \in AfterDown
  BY DEF Resource, AfterDown
<1>2. /\ Removed({{}, {"containers"}}, "containers", "destroy")
      /\ "containers" \in present' =>
           "containers" \in run'.reported /\ trouble'
  <2>1. CASE run.composeUp
    <3>1. Removes({{}, {"containers"}}, "containers", "destroy")
      BY <2>1 DEF ComposeDown
    <3>2. Removed({{}, {"containers"}}, "containers", "destroy")
      BY <1>1, <3>1, RemovesEffect
    <3>3. UNION {{}, {"containers"}} = {"containers"}
      OBVIOUS
    <3>4. QED
      BY <3>2, <3>3 DEF Removed
  <2>2. CASE ~ run.composeUp
    <3>1. Skip("destroy") /\ "containers" \notin present
      BY <2>2 DEF ComposeDown, IInv, Known
    <3>2. Removed({{}}, "containers", "destroy") /\ present' = present
      BY <1>1, <3>1, SkipEffect DEF Skip
    <3>3. present \ UNION {{}, {"containers"}} = present
      BY <3>1
    <3>4. QED
      BY <3>1, <3>2, <3>3 DEF Removed
  <2>3. QED
    BY <2>1, <2>2
<1>3. present' = present \/ present' = present \ {"containers"}
  BY <1>2 DEF Removed
<1>4. UNCHANGED <<before, cancelled>> /\ run.pc = "down"
  BY DEF ComposeDown, At
<1>5. /\ run' \in Run /\ run'.pc = "destroy"
      /\ run'.imageBuilt = run.imageBuilt /\ run'.composeUp = run.composeUp
      /\ late' \in BOOLEAN /\ trouble' \in BOOLEAN /\ (late' => trouble')
  BY <1>2 DEF Removed
<1>6. TypeOK'
  BY <1>3, <1>4, <1>5 DEF IInv, TypeOK
<1>7. Known'
  BY <1>3, <1>4, <1>5 DEF IInv, Known, Leaked, HasMachine
<1>8. Accounted'
  BY <1>2, <1>5 DEF Accounted, AfterDown, AfterDestroy, AfterDelete
<1>9. QED
  BY <1>6, <1>7, <1>8 DEF IInv

(* Destroying the machine keeps the invariant.                             *)
LEMMA DestroyInv == ASSUME IInv, Destroy PROVE IInv'
<1> DEFINE parts == {{}, {"machine", "containers"},
                     {"machine", "containers", "record"}}
<1>1. "machine" \in Resource /\ "delete" \in AfterDown
  BY DEF Resource, AfterDown
<1>2. /\ run' \in Run /\ run'.pc = "delete"
      /\ run'.imageBuilt = run.imageBuilt /\ run'.composeUp = run.composeUp
      /\ run.reported \subseteq run'.reported
      /\ late' \in BOOLEAN /\ trouble' \in BOOLEAN
      /\ late' => trouble'
      /\ trouble => trouble'
      /\ \/ present' = present
         \/ present' = present \ {"machine", "containers"} /\ Owned
         \/ present' = present \ {"machine", "containers", "record"} /\ Owned
      /\ "record" \in present' => "machine" \in run'.reported /\ trouble'
  <2>1. CASE Owned
    <3>1. Removed(parts, "machine", "delete")
      <4>1. Removes(parts, "machine", "delete")
        BY <2>1 DEF Destroy
      <4>2. QED
        BY <1>1, <4>1, RemovesEffect
    <3>2. UNION parts = {"machine", "containers", "record"}
      OBVIOUS
    <3>3. \/ present' = present \ {"machine", "containers", "record"}
          \/ /\ "machine" \in run'.reported /\ trouble'
             /\ \/ present' = present
                \/ present' = present \ {"machine", "containers"}
                \/ present' = present \ {"machine", "containers", "record"}
      <4>1. \A part \in parts : \/ present \ part = present
                                \/ part = {"machine", "containers"}
                                \/ part = {"machine", "containers", "record"}
        OBVIOUS
      <4> HIDE DEF parts
      <4>2. QED
        BY <3>1, <3>2, <4>1 DEF Removed
    <3> HIDE DEF parts
    <3>4. QED
      BY <2>1, <3>1, <3>3 DEF Removed
  <2>2. CASE ~ Owned
    <3>1. "record" \notin present /\ present' = present
      BY <2>2 DEF Owned, Destroy, Skip
    <3>2. run \in Run /\ late \in BOOLEAN /\ trouble \in BOOLEAN
          /\ (late => trouble)
      BY DEF IInv, TypeOK, Accounted
    <3>3. CASE Worked("delete")
      BY <1>1, <3>1, <3>2, <3>3, WorkedEffect
    <3>4. CASE Failed("machine", "delete")
      BY <1>1, <3>1, <3>2, <3>4, FailedEffect
    <3>5. CASE /\ run' = [run EXCEPT !.pc = "delete",
                                     !.reported = @ \cup {"machine"}]
               /\ UNCHANGED <<late, trouble>>
      BY <3>1, <3>2, <3>5 DEF Run, Steps, Resource
    <3>6. QED
      BY <2>2, <3>3, <3>4, <3>5 DEF Destroy, Skip
  <2>3. QED
    BY <2>1, <2>2
<1>3. UNCHANGED <<before, cancelled>> /\ run.pc = "destroy"
  BY DEF Destroy, At
<1>4. TypeOK'
  BY <1>2, <1>3 DEF IInv, TypeOK
<1>5. Known'
  BY <1>2, <1>3 DEF IInv, Known, Leaked, HasMachine, Owned
<1>6. Accounted'
  BY <1>2, <1>3, <1>5 DEF IInv, Known, Accounted, AfterDown, AfterDestroy,
                          AfterDelete
<1>7. QED
  BY <1>4, <1>5, <1>6 DEF IInv

(* Deleting the image keeps the invariant.                                 *)
LEMMA DeleteImageInv == ASSUME IInv, DeleteImage PROVE IInv'
<1>1. "image" \in Resource /\ "remove" \in AfterDown
  BY DEF Resource, AfterDown
<1>2. UNCHANGED <<before, cancelled>> /\ run.pc = "delete"
  BY DEF DeleteImage, At
<1>3. /\ \/ Removed({{}, {"image"}}, "image", "remove")
         \/ Removed({{}}, "image", "remove") /\ present' = present
      /\ "image" \in Leaked' => "image" \in run'.reported /\ trouble'
  <2>1. CASE run.imageBuilt
    <3>1. Removed({{}, {"image"}}, "image", "remove")
      <4>1. Removes({{}, {"image"}}, "image", "remove")
        BY <2>1 DEF DeleteImage
      <4>2. QED
        BY <1>1, <4>1, RemovesEffect
    <3>2. UNION {{}, {"image"}} = {"image"}
      OBVIOUS
    <3>3. QED
      BY <3>1, <3>2 DEF Removed, Leaked
  <2>2. CASE ~ run.imageBuilt
    <3>1. Skip("remove") /\ "image" \notin Leaked
      BY <2>2 DEF DeleteImage, IInv, Known
    <3>2. Removed({{}}, "image", "remove") /\ present' = present
      BY <1>1, <3>1, SkipEffect DEF Skip
    <3>3. Leaked' = Leaked
      BY <1>2, <3>2 DEF Leaked
    <3>4. QED
      BY <3>1, <3>2, <3>3
  <2>3. QED
    BY <2>1, <2>2
<1>4. present' = present \/ present' = present \ {"image"}
  BY <1>3 DEF Removed
<1>5. /\ run' \in Run /\ run'.pc = "remove"
      /\ run'.imageBuilt = run.imageBuilt /\ run'.composeUp = run.composeUp
      /\ run.reported \subseteq run'.reported
      /\ late' \in BOOLEAN /\ trouble' \in BOOLEAN /\ (late' => trouble')
      /\ trouble => trouble'
  BY <1>3 DEF Removed
<1>6. TypeOK'
  BY <1>2, <1>4, <1>5 DEF IInv, TypeOK
<1>7. Known'
  BY <1>2, <1>4, <1>5 DEF IInv, Known, Leaked, HasMachine
<1>8. Accounted'
  BY <1>2, <1>3, <1>4, <1>5 DEF IInv, Accounted, AfterDown, AfterDestroy,
                                AfterDelete
<1>9. QED
  BY <1>6, <1>7, <1>8 DEF IInv

(* Removing the fixture keeps the invariant.                               *)
LEMMA RemoveFixtureInv == ASSUME IInv, RemoveFixture PROVE IInv'
<1>1. "fixture" \in Resource /\ "returned" \in AfterDown
  BY DEF Resource, AfterDown
<1>2. UNCHANGED <<before, cancelled>> /\ run.pc = "remove"
  BY DEF RemoveFixture, At
<1>3. /\ run' \in Run /\ run'.pc = "returned"
      /\ run'.imageBuilt = run.imageBuilt /\ run'.composeUp = run.composeUp
      /\ run.reported \subseteq run'.reported
      /\ late' \in BOOLEAN /\ trouble' \in BOOLEAN /\ (late' => trouble')
      /\ trouble => trouble'
      /\ \/ present' = present \ {"fixture"}
         \/ present' = present /\ "fixture" \in run'.reported /\ trouble'
  <2>1. late \in BOOLEAN /\ trouble \in BOOLEAN /\ (late => trouble)
    BY DEF IInv, TypeOK, Accounted
  <2>2. CASE present' = present \ {"fixture"} /\ Worked("returned")
    BY <1>1, <2>1, <2>2, WorkedEffect
  <2>3. CASE UNCHANGED present /\ Failed("fixture", "returned")
    BY <1>1, <2>1, <2>3, FailedEffect
  <2>4. QED
    BY <2>2, <2>3 DEF RemoveFixture
<1>4. TypeOK'
  BY <1>2, <1>3 DEF IInv, TypeOK
<1>5. Known'
  BY <1>2, <1>3 DEF IInv, Known, Leaked, HasMachine
<1>6. Accounted'
  BY <1>2, <1>3 DEF IInv, Accounted, Leaked, AfterDown, AfterDestroy, AfterDelete
<1>7. QED
  BY <1>4, <1>5, <1>6 DEF IInv

(* The steps of a run keep the invariant.                                  *)
LEMMA StepInv == ASSUME IInv, Step PROVE IInv'
<1>1. CASE WaitDocker \/ Locate \/ InspectNetwork \/ InspectServices
             \/ ResolveAddress
  BY <1>1, LookInv DEF WaitDocker, Locate, InspectNetwork, InspectServices,
                       ResolveAddress, HasMachine
<1>2. CASE ProbeGuest \/ ProbeHost
  BY <1>2, ProbeInv DEF ProbeGuest, ProbeHost, HasMachine
<1>3. QED
  BY <1>1, <1>2, WriteFixtureInv, EnsureImageInv, UpInv, ComposeUpInv,
     ComposeDownInv, DestroyInv, DeleteImageInv, RemoveFixtureInv DEF Step

(* The invariant is inductive.                                             *)
THEOREM Invariant == Spec => []IInv
<1>1. IInv /\ [Next]_vars => IInv'
  <2> SUFFICES ASSUME IInv, [Next]_vars PROVE IInv'
    OBVIOUS
  <2>1. CASE Step
    BY <2>1, StepInv
  <2>2. CASE Cancel
    BY <2>2 DEF Cancel, IInv, TypeOK, Known, Accounted, Leaked
  <2>3. CASE UNCHANGED vars
    BY <2>3 DEF vars, IInv, TypeOK, Known, Accounted, Leaked
  <2>4. QED
    BY <2>1, <2>2, <2>3 DEF Next
<1>2. QED
  BY <1>1, InitInv, PTL DEF Spec

(* Whatever a run leaves behind, its error names (Run, teardown).          *)
THEOREM EveryLeakReported == Spec => []LeaksReported
<1>1. IInv => LeaksReported
  BY DEF IInv, TypeOK, Known, Accounted, LeaksReported, Leaked, Resource,
         AfterDown, AfterDestroy, AfterDelete
<1>2. QED
  BY <1>1, Invariant, PTL

(* A run in whose teardown no call fails by itself leaves nothing behind,  *)
(* wherever it failed or was given up (teardown's detached context).       *)
THEOREM RunCleansUp == Spec => []CleansUp
<1>1. IInv => CleansUp
  BY DEF IInv, TypeOK, Known, Accounted, CleansUp, Leaked, Resource,
         AfterDown, AfterDestroy, AfterDelete
<1>2. QED
  BY <1>1, Invariant, PTL

(* A machine the run does not own outlives it (Manager.Destroy).           *)
THEOREM SparesForeignMachine == Spec => []ForeignMachineKept
<1>1. IInv => ForeignMachineKept
  BY DEF IInv, Known, ForeignMachineKept
<1>2. QED
  BY <1>1, Invariant, PTL

(* The variables keep their types.                                         *)
THEOREM TypeCorrect == Spec => []TypeOK
<1>1. IInv => TypeOK
  BY DEF IInv
<1>2. QED
  BY <1>1, Invariant, PTL
=============================================================================
