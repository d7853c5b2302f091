-------------------------------- MODULE MCRail --------------------------------
(* Two lists of the rail, of three rows and of two, that share the workspace read. *)
EXTENDS Rail, TLC

CONSTANTS projects, surfaces, a, b, c, p, q

MCScopes == {projects, surfaces}
MCRows   == projects :> {a, b, c} @@ surfaces :> {p, q}
Symmetry == Permutations({a, b, c}) \union Permutations({p, q})
=============================================================================
