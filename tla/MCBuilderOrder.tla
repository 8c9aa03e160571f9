--------------------------- MODULE MCBuilderOrder ---------------------------
(* Model values and symmetry of the BuilderOrder instances.                *)
EXTENDS BuilderOrder, TLC

CONSTANTS b1, t1, s1, x1, x2, x3

MCParent == [r \in Exits |-> b1]
MCSymmetry == Permutations(ExIds)
=============================================================================
