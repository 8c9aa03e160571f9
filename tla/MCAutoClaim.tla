----------------------------- MODULE MCAutoClaim -----------------------------
(* Two users; both rows belong to the first, whose safe holds them.        *)
EXTENDS AutoClaim, TLC

CONSTANTS j1, j2, s1, s2, t1, t2

FirstsSafe == s1 :> {j1, j2} @@ s2 :> {}
OneEach == s1 :> {j1} @@ s2 :> {j2}
NoRows == [s \in Services |-> {}]
Two == [s \in Services |-> 2]

Symmetry == Permutations(TxIds)
=============================================================================
