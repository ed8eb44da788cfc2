----------------------------- MODULE MC_Sources -----------------------------
(***************************************************************************)
(* The four parts of Sources. They share nothing, so a behaviour is one of *)
(* one of them, and the others stay as they were at first.                 *)
(***************************************************************************)
EXTENDS Sources, TLC

CONSTANTS f1, f2, a1, p1, v1, v2, t1, t2, q1, q2

VARIABLE part

----------------------------------------------------------------------------
(* Two files; one asset in two revisions and one profile; two places in    *)
(* the source and two targets, with directories of up to two files; two    *)
(* Portals.                                                                *)

TwoFiles == {f1, f2}
OneAsset == {a1}
OneProfile == {p1}
TwoRevisions == {v1, v2}
TwoPortals == {q1, q2}

x == [size |-> 1, content |-> "x", kind |-> "file"]
y == [size |-> 1, content |-> "y", kind |-> "file"]
big == [size |-> 2, content |-> "x", kind |-> "file"]
locked == [size |-> 1, content |-> "x", kind |-> "unreadable"]
link == [size |-> 0, content |-> "", kind |-> "link"]

Plain(files) == [files |-> files, front |-> TRUE, listed |-> TRUE]
SomeDirectories ==
    {Plain(files) : files \in {<<x>>, <<x, x>>, <<x, y>>, <<big>>, <<x, big>>,
                               <<x, link>>, <<locked>>}}
    \cup {[files |-> <<x>>, front |-> FALSE, listed |-> TRUE],
          [files |-> <<x>>, front |-> TRUE, listed |-> FALSE]}

SomeFilters ==
    {[include |-> ie[1], exclude |-> ie[2]] : ie \in
        {<<"no pattern", FALSE>>, <<"other", FALSE>>, <<"matches", TRUE>>}}

TwoPlaces == {1, 2}
TwoTargets == {t1, t2}
SmallLimits == [files : 1..2, file : 1..2, total : 1..3]

----------------------------------------------------------------------------

sourcesVars == <<part, edits, storeVars, registryVars, portalVars, inventoryVars>>

\* A registry that asks for nothing.
NoAssets ==
    [assets |-> <<>>, targets |-> {"target"}, profiles |-> <<>>, memberships |-> {},
     bindings |-> {}, observations |-> <<>>]

SourcesInit ==
    /\ part \in {"store", "registry", "portal", "inventory"}
    /\ part # "store" => runtime = Empty
    /\ part # "registry" => docs = NoAssets
    /\ Init /\ Registry!Init /\ Portal!Init
    /\ IF part = "inventory" THEN Inventory!Init
       ELSE shared = None /\ target = None /\ filter = None /\ limits = None /\ status = None

SourcesNext ==
    \/ part = "store" /\ Next /\ UNCHANGED <<part, registryVars, portalVars, inventoryVars>>
    \/ /\ part = "registry" /\ Registry!Next
       /\ UNCHANGED <<part, storeVars, portalVars, inventoryVars>>
    \/ /\ part = "portal" /\ Portal!Next
       /\ UNCHANGED <<part, edits, storeVars, registryVars, inventoryVars>>
    \/ /\ part = "inventory" /\ Inventory!Next
       /\ UNCHANGED <<part, edits, storeVars, registryVars, portalVars>>

SourcesSpec == SourcesInit /\ [][SourcesNext]_sourcesVars

Symmetry == Permutations(TwoFiles) \cup Permutations(TwoTargets) \cup Permutations(TwoRevisions)

=============================================================================
