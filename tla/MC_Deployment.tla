--------------------------- MODULE MC_Deployment ---------------------------
(* Small instances of Deployment; each configuration picks its bounds.     *)
EXTENDS Deployment, TLC

CONSTANTS r1, r2, p1, p2, p3, v1, v2, bad, c1, c2

MCVersions == {v1, v2}
MCChangesOf == (v1 :> v1) @@ (v2 :> v2)
NoVersion == {}

\* A registry that is edited into one with a malformed selector, and back.
OneMalformed == {v1, bad}
OneMalformedChanges == (v1 :> v1) @@ (bad :> bad)
TheMalformed == {bad}
MCContents == {Bare, Mixed, c1, c2}
OneContent == {Bare, Mixed, c1}

OneRun == {r1}
TwoRuns == {r1, r2}
OnePlan == {p1}
TwoPlans == {p1, p2}
ThreePlans == {p1, p2, p3}

Symmetry ==
    Permutations(Runs) \cup Permutations(PlanIds)
        \cup Permutations(Versions \ Malformed) \cup Permutations(Contents \ {Bare, Mixed})

=============================================================================
