----------------------------- MODULE MC_Evidence -----------------------------
(***************************************************************************)
(* The three parts of Evidence. They share nothing, so a behaviour is one  *)
(* of one of them, and the others stay as they were at first.              *)
(***************************************************************************)
EXTENDS Evidence, TLC

CONSTANTS r1, r2, r3

VARIABLE part

ThreeRuns == {r1, r2, r3}

\* Of the names in the artifact the second is that of a link.
OneLink == {2}

evidenceVars == <<part, vars, digestVars, gatesVars>>

EvidenceInit ==
    /\ part \in {"recording", "digest", "gates"}
    /\ Init /\ Digest!Init
    /\ part # "digest" => names = {}
    /\ IF part = "gates"
       THEN Gates!Init /\ document = [gate \in {2, 3} |-> IF gate = 2 THEN Gates!Quoting
                                                                    ELSE Gates!Complete]
       ELSE document = [gate \in {2, 3} |-> None] /\ report = <<>> /\ edits = 0

EvidenceNext ==
    \/ part = "recording" /\ Next /\ UNCHANGED <<part, digestVars, gatesVars>>
    \/ part = "digest" /\ Digest!Next /\ UNCHANGED <<part, vars, gatesVars>>
    \/ part = "gates" /\ Gates!Next /\ UNCHANGED <<part, vars, digestVars>>

EvidenceSpec == EvidenceInit /\ [][EvidenceNext]_evidenceVars

Symmetry == Permutations(ThreeRuns)

=============================================================================
