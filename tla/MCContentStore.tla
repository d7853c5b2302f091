-------------------------- MODULE MCContentStore --------------------------
(* The content store with two captures of the same content. *)
EXTENDS ContentStore, TLC

\* Sound although AHash is chosen: no action reads the hash of a capture that has no
\* put under way, and a put sets it first.
Symmetry == Permutations(Hashes) \union Permutations(Captures)
=============================================================================
