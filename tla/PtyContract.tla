---------------------------- MODULE PtyContract ----------------------------
(***************************************************************************)
(* What the owners of a process may rely on: its row, as they read it      *)
(* (pty-processes/types.ts), and what the operating system has, with what  *)
(* may become of the two in a step.  PtyProcesses implements it; Commands  *)
(* is built on it.                                                         *)
(***************************************************************************)

Fates == {"ended", "killed", "missing", "launch_failed"}

\* row: `open` until it has a fate. proc: `asked`, while a backend may still start it;
\* `stray`, if it started after its launch was given up.
Alive  == {"live", "stray"}
States == [row : {"none", "open"} \union Fates, proc : {"none", "asked", "dead"} \union Alive]
Fresh  == [row |-> "none", proc |-> "none"]

When(condition, becomes) == IF condition THEN becomes ELSE {}

Allocated(p) == When(p = Fresh, {[p EXCEPT !.row = "open"]})
Asked(p)     == When(p.row = "open" /\ p.proc = "none", {[p EXCEPT !.proc = "asked"]})
Started(p)   == When(p.proc = "asked", {[p EXCEPT !.proc = a] : a \in Alive})
Forgotten(p) == When(p.proc = "asked", {[p EXCEPT !.proc = "none"]})
Ended(p)     == When(p.proc \in Alive, {[p EXCEPT !.proc = "dead"]})

\* The row gets its fate, once and truly; but who asked before a stray started may still
\* call it missing.
Concluded(p) ==
  When(p.row = "open",
    When(p.proc = "dead", {[p EXCEPT !.row = fate] : fate \in {"ended", "killed"}})
    \union When(p.proc # "live", {[p EXCEPT !.row = "missing"]})
    \union When(p.proc \in {"none", "asked"}, {[row |-> "launch_failed", proc |-> "none"]}))

\* The runtime goes, and what it had spawned itself goes with it.
GoneWithRuntime(p) ==
  [row  |-> IF p.row = "open" THEN "missing" ELSE p.row,
   proc |-> CASE p.proc = "asked" -> "none" [] p.proc \in Alive -> "dead" [] OTHER -> p.proc]

Step(p, q) ==
  q \in UNION {Allocated(p), Asked(p), Started(p), Forgotten(p), Ended(p), Concluded(p),
               {GoneWithRuntime(p)}}
=============================================================================
