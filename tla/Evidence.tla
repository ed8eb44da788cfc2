------------------------------ MODULE Evidence -------------------------------
(***************************************************************************)
(* What the code does about evidence: the recorder, which this module      *)
(* extends, the digest of an artifact that is being changed, and what the  *)
(* gates' documents are taken to say. The three share nothing.             *)
(***************************************************************************)
EXTENDS EvidenceRecorder

CONSTANTS MaxNames, Links, MaxChanges, MaxEdits

VARIABLES
    names, content, signature, listing, changes, walk, had,
    document, report, edits

Digest == INSTANCE ArtifactDigest
Gates == INSTANCE Readiness

ASSUME DigestAssumption == Digest!BoundsAssumption /\ Digest!LinksAssumption
ASSUME GatesAssumption == Gates!NoneAssumption

digestVars == <<names, content, signature, listing, changes, walk, had>>
gatesVars == <<document, report, edits>>

(* A digest is of the names that are there, and of contents that each of   *)
(* the files had as a whole.                                               *)
DigestIsOfTheTree == Digest!DigestIsOfTheTree

(* The gates are judged as a reader would judge the documents.             *)
ReadAsWritten == Gates!ReadAsWritten

=============================================================================
