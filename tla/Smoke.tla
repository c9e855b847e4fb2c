------------------------------- MODULE Smoke --------------------------------
(***************************************************************************)
(* The baseline nested-Compose run (internal/smoke): it writes a fixture,  *)
(* builds an image, creates a machine through the machine manager, starts  *)
(* a Compose workload in it, reads the fixture's marker back from inside   *)
(* the guest and from macOS, and takes everything down again.              *)
(*                                                                         *)
(* Any call may fail and the caller may give up (cancel its context) at    *)
(* any moment; teardown runs on a context of its own with one time budget  *)
(* for all of its calls.                                                   *)
(***************************************************************************)
EXTENDS Naturals

CONSTANT ProbeTries  \* attempts of either probe

ASSUME ProbeTriesAssumption == ProbeTries \in Nat \ {0}

VARIABLES
    before,     \* what was there before the run: a directory, an image and
                \* a machine of the names the run uses
    present,    \* what is there now
    run,        \* the run itself
    cancelled,  \* the caller gave up
    late,       \* teardown's time budget is spent
    trouble     \* a teardown call failed by itself, not for the caller's sake

vars == <<before, present, run, cancelled, late, trouble>>

-----------------------------------------------------------------------------

(* record: the project state file by which the machine manager knows the   *)
(* machine as its own.                                                     *)
Resource == {"fixture", "image", "machine", "record", "containers"}

Steps == {"write", "ensure", "up", "docker", "locate", "compose", "network",
          "services", "probeGuest", "address", "probeHost",
          "down", "destroy", "delete", "remove"}

Attempt == 0 .. ProbeTries - 1

(* imageBuilt, composeUp: progress; attempt: of the probe under way;       *)
(* reported: what the returned error says could not be written or removed. *)
Run == [pc: Steps \cup {"returned", "unwritten"},
        imageBuilt: BOOLEAN, composeUp: BOOLEAN,
        attempt: Attempt, reported: SUBSET Resource]

TypeOK ==
    /\ before \subseteq {"fixture", "image", "machine"}
    /\ present \subseteq Resource
    /\ run \in Run
    /\ cancelled \in BOOLEAN /\ late \in BOOLEAN /\ trouble \in BOOLEAN

Init ==
    /\ before \in SUBSET {"fixture", "image", "machine"}
    /\ present = before
    /\ run = [pc |-> "write", imageBuilt |-> FALSE, composeUp |-> FALSE,
              attempt |-> 0, reported |-> {}]
    /\ cancelled = FALSE /\ late = FALSE /\ trouble = FALSE

-----------------------------------------------------------------------------
(* perform.                                                                *)

At(step) == run.pc = step
Goto(step) == run' = [run EXCEPT !.pc = step, !.attempt = 0]

(* A step of perform failed: diagnose only reads, and teardown begins.     *)
GiveUp == Goto("down")

quiet == <<before, cancelled, late, trouble>>

(* WriteFixture returns at the first file it cannot write.                 *)
WriteFixture ==
    /\ At("write")
    /\ \/ present' = present \cup {"fixture"} /\ Goto("ensure")
       \/ /\ present' \in {present, present \cup {"fixture"}}
          /\ run' = [run EXCEPT !.pc = "unwritten", !.reported = {"fixture"}]
    /\ UNCHANGED quiet

(* EnsureReference inspects the image and builds it only if it is missing; *)
(* a build that fails tags no image.                                       *)
EnsureImage ==
    /\ At("ensure")
    /\ \/ /\ ~ cancelled
          /\ present' = present \cup {"image"}
          /\ run' = [run EXCEPT !.pc = "up", !.imageBuilt = TRUE]
       \/ GiveUp /\ UNCHANGED present
    /\ UNCHANGED quiet

(* Manager.Up refuses a machine it has no record of. Otherwise it may fail *)
(* before the record, between the record and the machine, or after both.   *)
Up ==
    /\ At("up")
    /\ \/ /\ ~ cancelled /\ "machine" \notin present
          /\ present' = present \cup {"record", "machine"}
          /\ Goto("docker")
       \/ /\ GiveUp
          /\ IF cancelled \/ "machine" \in present THEN UNCHANGED present
             ELSE \E made \in {{}, {"record"}, {"record", "machine"}} :
                    present' = present \cup made
    /\ UNCHANGED quiet

(* A step that changes nothing passes or ends the run.                     *)
Look(step, next) ==
    /\ At(step)
    /\ (~ cancelled /\ Goto(next)) \/ GiveUp
    /\ UNCHANGED <<present, quiet>>

WaitDocker == Look("docker", "locate")
Locate == Look("locate", "compose")
InspectNetwork == Look("network", "services")
InspectServices == Look("services", "probeGuest")
ResolveAddress == Look("address", "probeHost")

(* Mutant of ComposeUp: the start is recorded once it has succeeded.       *)
ComposeUpRecordedLate ==
    /\ At("compose")
    /\ \/ /\ ~ cancelled
          /\ present' = present \cup {"containers"}
          /\ run' = [run EXCEPT !.pc = "network", !.composeUp = TRUE]
       \/ /\ GiveUp
          /\ present' \in {present, present \cup {"containers"}}
    /\ UNCHANGED quiet

(* compose up is recorded before the call: one that fails halfway has      *)
(* created containers.                                                     *)
ComposeUp ==
    /\ At("compose")
    /\ \/ /\ ~ cancelled
          /\ present' = present \cup {"containers"}
          /\ run' = [run EXCEPT !.pc = "network", !.composeUp = TRUE]
       \/ /\ present' \in (IF cancelled THEN {present}
                          ELSE {present, present \cup {"containers"}})
          /\ run' = [run EXCEPT !.pc = "down", !.composeUp = TRUE]
    /\ UNCHANGED quiet

(* Mutant of Probe: the attempts start over after the last.                *)
ProbeForever(step, next) ==
    /\ At(step)
    /\ \/ ~ cancelled /\ Goto(next)
       \/ GiveUp
       \/ ~ cancelled /\ run' = [run EXCEPT !.attempt = (@ + 1) % ProbeTries]
    /\ UNCHANGED <<present, quiet>>

(* Mutant of Probe: the attempts are counted from one.                     *)
ProbeOnceMore(step, next) ==
    /\ At(step)
    /\ \/ ~ cancelled /\ Goto(next)
       \/ GiveUp
       \/ /\ ~ cancelled /\ run.attempt < ProbeTries
          /\ run' = [run EXCEPT !.attempt = @ + 1]
    /\ UNCHANGED <<present, quiet>>

(* An attempt reads the marker, or something else, which ends the run at   *)
(* once, or fails and is repeated after a pause unless it was the last or  *)
(* the caller gave up.                                                     *)
Probe(step, next) ==
    /\ At(step)
    /\ \/ ~ cancelled /\ Goto(next)
       \/ GiveUp
       \/ /\ ~ cancelled /\ run.attempt + 1 < ProbeTries
          /\ run' = [run EXCEPT !.attempt = @ + 1]
    /\ UNCHANGED <<present, quiet>>

ProbeGuest == Probe("probeGuest", "address")
ProbeHost == Probe("probeHost", "down")

-----------------------------------------------------------------------------
(* teardown: every step runs whatever became of those before it.           *)

(* Mutant of Able: teardown's calls end with the caller's context.         *)
AbleUntilCancelled == ~ late /\ ~ cancelled

(* A call of teardown can succeed: its context is detached from the        *)
(* caller's.                                                               *)
Able == ~ late

Worked(next) ==
    /\ run' = [run EXCEPT !.pc = next]
    /\ UNCHANGED <<late, trouble>>

(* A failure is joined to the error, and may have used up the budget.      *)
Failed(name, next) ==
    /\ run' = [run EXCEPT !.pc = next, !.reported = @ \cup {name}]
    /\ late' \in {late, TRUE}
    /\ trouble' = (trouble \/ Able)

(* A call removes all of parts, or fails having removed one of them.       *)
Removes(parts, name, next) ==
    \/ /\ Able
       /\ present' = present \ UNION parts
       /\ Worked(next)
    \/ /\ \E part \in parts : present' = present \ (IF Able THEN part ELSE {})
       /\ Failed(name, next)

Skip(next) == Worked(next) /\ UNCHANGED present

ComposeDown ==
    /\ At("down")
    /\ IF run.composeUp
       THEN Removes({{}, {"containers"}}, "containers", "destroy")
       ELSE Skip("destroy")
    /\ UNCHANGED <<before, cancelled>>

(* Mutant of Owned: whatever goes by the machine's name is deleted.        *)
OwnedByName == {"record", "machine"} \cap present # {}

(* Manager.Destroy leaves alone a machine it has no record of.             *)
Owned == "record" \in present

(* The containers go with the machine, and then the record.                *)
Destroy ==
    /\ At("destroy")
    /\ IF Owned
       THEN Removes({{}, {"machine", "containers"},
                     {"machine", "containers", "record"}}, "machine", "delete")
       ELSE \/ Able /\ "machine" \notin present /\ Skip("delete")
            \/ /\ "machine" \in present
               /\ run' = [run EXCEPT !.pc = "delete", !.reported = @ \cup {"machine"}]
               /\ UNCHANGED <<present, late, trouble>>
            \/ Failed("machine", "delete") /\ UNCHANGED present
    /\ UNCHANGED <<before, cancelled>>

DeleteImage ==
    /\ At("delete")
    /\ IF run.imageBuilt
       THEN Removes({{}, {"image"}}, "image", "remove")
       ELSE Skip("remove")
    /\ UNCHANGED <<before, cancelled>>

(* Fixture.Remove is no call of a context.                                 *)
RemoveFixture ==
    /\ At("remove")
    /\ \/ present' = present \ {"fixture"} /\ Worked("returned")
       \/ UNCHANGED present /\ Failed("fixture", "returned")
    /\ UNCHANGED <<before, cancelled>>

-----------------------------------------------------------------------------

Cancel ==
    /\ ~ cancelled
    /\ cancelled' = TRUE
    /\ UNCHANGED <<before, present, run, late, trouble>>

Step ==
    \/ WriteFixture \/ EnsureImage \/ Up \/ WaitDocker \/ Locate \/ ComposeUp
    \/ InspectNetwork \/ InspectServices \/ ProbeGuest \/ ResolveAddress
    \/ ProbeHost \/ ComposeDown \/ Destroy \/ DeleteImage \/ RemoveFixture

Next == Step \/ Cancel

Spec == Init /\ [][Next]_vars
FairSpec == Spec /\ WF_vars(Step)

-----------------------------------------------------------------------------
(* Properties.                                                             *)

Leaked == present \ before

(* Whatever the run leaves behind, its error names: "a leaked machine or   *)
(* image has to be visible even when the baseline itself is what failed",  *)
(* and one leak cannot hide another. A record stands for its machine.      *)
LeaksReported ==
    run.pc \in {"returned", "unwritten"} =>
        {IF r = "record" THEN "machine" ELSE r : r \in Leaked} \subseteq run.reported

(* A run that got as far as its fixture leaves nothing behind, wherever    *)
(* perform failed or the caller gave up, unless a call of teardown itself  *)
(* went wrong.                                                             *)
CleansUp == run.pc = "returned" /\ ~ trouble => Leaked = {}

(* A machine that goes by the run's name but is not recorded as its own    *)
(* outlives it.                                                            *)
ForeignMachineKept == "machine" \in before => "machine" \in present

(* The run returns, and with it teardown, as long as the calls it makes    *)
(* do: also when no probe is ever answered and when the caller gave up.    *)
RunReturns == <>(run.pc \in {"returned", "unwritten"})

(* Teardown removes what the run created "and only those", on every path   *)
(* (comments of Run and teardown): a run in whose teardown nothing went    *)
(* wrong leaves the host as it found it.                                   *)
LeavesHostAsFound ==
    run.pc \in {"returned", "unwritten"} /\ ~ trouble => present = before

=============================================================================
