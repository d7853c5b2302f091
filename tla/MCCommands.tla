----------------------------- MODULE MCCommands -----------------------------
(* One command, with as many processes as a restart and a surviving one need. *)
EXTENDS Commands
=============================================================================
