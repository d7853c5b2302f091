--------------------------- MODULE MCPtyProcesses ---------------------------
(* One process, with a caller that may terminate it beside its launch, its   *)
(* cleanup and its observers.                                               *)
EXTENDS PtyProcesses
=============================================================================
