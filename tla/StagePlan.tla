------------------------------ MODULE StagePlan ------------------------------
(***************************************************************************)
(* What a tracked operation of zenraw promises its observer.               *)
(*                                                                         *)
(* A decode announces a fixed plan of child phases on the caller's pulse   *)
(* and then works through it in order (src/src/progress.rs).  The observer *)
(* may rely on the following, whatever the backend, the output mode and    *)
(* the image: phases are settled strictly in plan order, at most one phase *)
(* runs at a time, a settled phase never changes again, the operation      *)
(* succeeds only when the whole plan was settled by work or by a skip, and *)
(* an operation that ends early leaves every phase it did not reach        *)
(* "NotRun" and marks the phase it died in "Cancelled" exactly when the    *)
(* error is a stop request (tests/pulse_progress.rs).                      *)
(***************************************************************************)
EXTENDS Integers

CONSTANT PlanLength      \* the number of phases the operation announces

VARIABLES
  child,      \* the outcome the observer sees of each phase
  verdict     \* how the operation ended, "none" while it is under way

planVars == <<child, verdict>>

Phases   == 1 .. PlanLength
Settled  == {"Succeeded", "Skipped", "Failed", "Cancelled", "NotRun"}
Outcomes == {"Planned", "Running"} \cup Settled
Verdicts == {"none", "ok", "stopped", "failed"}

PlanTypeOK ==
  /\ child \in [Phases -> Outcomes]
  /\ verdict \in Verdicts

\* The phases before p are behind the operation, those after it untouched.
IsNext(p) ==
  /\ \A q \in Phases : q < p => child[q] \in {"Succeeded", "Skipped"}
  /\ \A q \in Phases : q >= p => child[q] = "Planned"

PlanInit ==
  /\ child = [p \in Phases |-> "Planned"]
  /\ verdict = "none"

Begin(p) ==
  /\ verdict = "none"
  /\ IsNext(p)
  /\ child' = [child EXCEPT ![p] = "Running"]
  /\ UNCHANGED verdict

PassOver(p) ==
  /\ verdict = "none"
  /\ IsNext(p)
  /\ child' = [child EXCEPT ![p] = "Skipped"]
  /\ UNCHANGED verdict

Finish(p) ==
  /\ verdict = "none"
  /\ child[p] = "Running"
  /\ child' = [child EXCEPT ![p] = "Succeeded"]
  /\ UNCHANGED verdict

\* The work of phase p fails, or hears a stop request: nothing can begin after.
Break(p, how) ==
  /\ verdict = "none"
  /\ child[p] = "Running"
  /\ child' = [child EXCEPT ![p] = IF how = "stopped" THEN "Cancelled" ELSE "Failed"]
  /\ UNCHANGED verdict

\* The operation returns an error; a broken phase decides which kind it is.
EndEarly(how) ==
  /\ verdict = "none"
  /\ \A p \in Phases :
       /\ child[p] # "Running"
       /\ child[p] = "Cancelled" => how = "stopped"
       /\ child[p] = "Failed" => how = "failed"
  /\ child' = [p \in Phases |-> IF child[p] = "Planned" THEN "NotRun" ELSE child[p]]
  /\ verdict' = how

Succeed ==
  /\ verdict = "none"
  /\ \A p \in Phases : child[p] \in {"Succeeded", "Skipped"}
  /\ verdict' = "ok"
  /\ UNCHANGED child

PlanNext ==
  \/ \E p \in Phases : Begin(p) \/ PassOver(p) \/ Finish(p)
  \/ \E p \in Phases, how \in {"stopped", "failed"} : Break(p, how)
  \/ \E how \in {"stopped", "failed"} : EndEarly(how)
  \/ Succeed

PlanSpec == PlanInit /\ [][PlanNext]_planVars
=============================================================================
