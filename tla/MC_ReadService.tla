--------------------------- MODULE MC_ReadService ---------------------------
(* One run beside one reader.                                              *)
EXTENDS ReadService, TLC

CONSTANTS r1, p1, p2, v1, c1

OneRun == {r1}
TwoPlans == {p1, p2}
OneVersion == {v1}
Same == v1 :> v1
NoVersion == {}
OneContent == {Bare, Mixed, c1}

Symmetry == Permutations(TwoPlans)
=============================================================================
