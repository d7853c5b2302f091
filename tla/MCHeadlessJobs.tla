-------------------------- MODULE MCHeadlessJobs --------------------------
(* The headless jobs of one run, two of them. *)
EXTENDS HeadlessJobs
=============================================================================
