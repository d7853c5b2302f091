-------------------------- MODULE MCWorkflowRun --------------------------
(* One run on a small instance: at most three executions and two invocations. *)
EXTENDS WorkflowRun
=============================================================================
