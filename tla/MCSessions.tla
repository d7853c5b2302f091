------------------------------ MODULE MCSessions ------------------------------
(* One session: two panes that may hold it, or two clients that may stream it. *)
EXTENDS Sessions, TLC

Symmetry == Permutations(Clients) \union Permutations(Panes)
=============================================================================
