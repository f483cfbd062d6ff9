---------------------------- MODULE MCBundles ----------------------------
(* Bundles with interchangeable callers and workers. *)
EXTENDS Bundles, TLC

Symmetry == Permutations(Callers) \union Permutations(Workers)
=============================================================================
