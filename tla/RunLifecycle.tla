---------------------------- MODULE RunLifecycle ----------------------------
(***************************************************************************)
(* What a person is promised about a workflow run (docs/workflow-engine.md,*)
(* Lifecycle and controls), without its tree, its driver or its builds:    *)
(* where the run is, whether the result of the node it stands on is saved, *)
(* and how many executions it has routed.  WorkflowRun implements it.      *)
(***************************************************************************)
EXTENDS Naturals

VARIABLES
  phase,   \* preparing, active, paused, failed, completed or cancelled
  saved,   \* the result of the node the run stands on is saved
  routed   \* executions completed so far

state == <<phase, saved, routed>>

Init == phase = "preparing" /\ saved = FALSE /\ routed = 0

\* Preparation ends in the root graph's entry node, or fails.
Prepared ==
  phase = "preparing" /\ phase' \in {"active", "failed"} /\ UNCHANGED <<saved, routed>>
\* A result is saved once, also while the run is paused.
Save ==
  /\ phase \in {"active", "paused"} /\ ~saved
  /\ saved' = TRUE /\ UNCHANGED <<phase, routed>>
\* Routing needs a saved result and an active run, and moves on for good.
Route ==
  /\ phase = "active" /\ saved
  /\ phase' \in {"active", "completed"} /\ saved' = FALSE /\ routed' > routed
\* A failure keeps what is saved; a paused run fails only in its node function.
Fail ==
  /\ phase = "active" \/ (phase = "paused" /\ ~saved)
  /\ phase' = "failed" /\ UNCHANGED <<saved, routed>>
Pause  == phase = "active" /\ phase' = "paused" /\ UNCHANGED <<saved, routed>>
Resume == phase = "paused" /\ phase' = "active" /\ UNCHANGED <<saved, routed>>
\* Retry keeps the saved result, or prepares again when nothing was started.
Retry   == phase = "failed" /\ phase' = "active" /\ UNCHANGED <<saved, routed>>
Prepare == /\ phase = "failed" /\ ~saved /\ routed = 0
           /\ phase' = "preparing" /\ UNCHANGED <<saved, routed>>
Cancel ==
  /\ phase \notin {"completed", "cancelled"}
  /\ phase' = "cancelled" /\ saved' = FALSE /\ UNCHANGED routed

Next == \/ Prepared \/ Save \/ Route \/ Fail \/ Pause \/ Resume
        \/ Retry \/ Prepare \/ Cancel
Spec == Init /\ [][Next]_state
=============================================================================
