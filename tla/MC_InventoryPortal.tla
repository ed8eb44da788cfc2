------------------------ MODULE MC_InventoryPortal --------------------------
(* Portals over one state directory, and the pages they serve.             *)
EXTENDS InventoryPortal, TLC

CONSTANTS portal1, portal2, k1, k2

OnePortal == {portal1}
TwoPortals == {portal1, portal2}
TwoPages == {k1, k2}
OnePage == {k1}

Symmetry == Permutations(TwoPortals) \cup Permutations(TwoPages)

=============================================================================
