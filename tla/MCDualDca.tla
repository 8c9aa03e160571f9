----------------------------- MODULE MCDualDca -----------------------------
(* Instances of DualDca for TLC.                                           *)
EXTENDS DualDca, TLC

CONSTANTS m1, m2, yes, no, e1, e2, e3

Symmetry == Permutations(Markets) \cup Permutations(ExIds)
=============================================================================
