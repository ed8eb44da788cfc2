------------------------- MODULE MC_DecisionPortal --------------------------
(* Two pages over two plans and a store of one token.  One plan expires    *)
(* while the clock runs, the other does not.                               *)
EXTENDS DecisionPortal, TLC

CONSTANTS plan1, plan2, k1, k2

MCPlans == {plan1, plan2}
MCExpiresAt == (plan1 :> 2) @@ (plan2 :> 3)
MCPages == {k1, k2}

Symmetry == Permutations(MCPages)

=============================================================================
