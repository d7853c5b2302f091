---------------------------- MODULE MCAgentTurns ----------------------------
(* One session with an execution and its successor, and two records of what they did. *)
EXTENDS AgentTurns
=============================================================================
