----------------------------- MODULE MCFlowHitl -----------------------------
(* FlowHitl with interchangeable deciders and workers, to check safety. *)
EXTENDS FlowHitl, TLC

Symmetry == Permutations(Deciders) \union Permutations(Workers)
=============================================================================
