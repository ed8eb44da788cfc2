----------------------------- MODULE PortalStart -----------------------------
(***************************************************************************)
(* portal.prepare_local_portal: several Portals are started on one state   *)
(* directory, while the owner of the governance documents writes them. A   *)
(* start looks whether a document exists and, if not, opens it, which      *)
(* truncates it, and writes the empty one. Then it writes the control      *)
(* plane's configuration and reads it back. Directories are taken as made. *)
(***************************************************************************)
EXTENDS Naturals

CONSTANTS
    Portals,
    None,           \* no file
    Nothing,        \* a file without text
    NoItems,        \* the empty document
    MaxDocuments, MaxWrites

TextsAssumption ==
    /\ None # Nothing /\ NoItems \notin {None, Nothing}
    /\ {None, Nothing, NoItems} \cap (Nat \cup Portals) = {}
BoundsAssumption == {MaxDocuments, MaxWrites} \subseteq Nat

VARIABLES
    text,       \* per document: None, Nothing, NoItems, or the number of a version of the owner's
    config,     \* None, Nothing, or the Portal whose configuration it is
    start,      \* per Portal, its step and the document it is at
    writes,
    owned,      \* history: per document, the owner's last version or None
    raced,      \* history: documents the owner wrote while a start had missed them
    cut         \* history: documents whose writing was cut short

vars == <<text, config, start, writes, owned, raced, cut>>

Documents == 1..MaxDocuments
Fixed == UNCHANGED <<writes, owned, raced, cut>>

Init ==
    /\ text = [d \in Documents |-> None] /\ config = None
    /\ start = [p \in Portals |-> [pc |-> "idle", at |-> 1]]
    /\ writes = 0
    /\ owned = [d \in Documents |-> None] /\ raced = {} /\ cut = {}

Step(p, pc) == start' = [start EXCEPT ![p].pc = pc]
At(p, pc) == start[p].pc = pc

\* On to the next document, or to the configuration after the last one.
Onward(p) ==
    start' = [start EXCEPT ![p] =
        IF @.at < MaxDocuments THEN [pc |-> "look", at |-> @.at + 1] ELSE [pc |-> "config", at |-> 1]]

Begin(p) ==
    /\ start[p].pc \in {"idle", "ended"}
    /\ start' = [start EXCEPT ![p] = [pc |-> "look", at |-> 1]]
    /\ UNCHANGED <<text, config>> /\ Fixed

----------------------------------------------------------------------------
(* _write_empty_document                                                   *)

\* Mutant: the document is not looked for.
LookAway(p) ==
    /\ At(p, "look")
    /\ Step(p, "open")
    /\ UNCHANGED <<text, config>> /\ Fixed

Look(p) ==
    /\ At(p, "look")
    /\ IF text[start[p].at] = None THEN Step(p, "open") ELSE Onward(p)
    /\ UNCHANGED <<text, config>> /\ Fixed

OpenDocument(p) ==
    /\ At(p, "open")
    /\ text' = [text EXCEPT ![start[p].at] = Nothing]
    /\ Step(p, "fill")
    /\ UNCHANGED config /\ Fixed

FillDocument(p) ==
    /\ At(p, "fill")
    /\ text' = [text EXCEPT ![start[p].at] = NoItems]
    /\ Onward(p)
    /\ UNCHANGED config /\ Fixed

----------------------------------------------------------------------------
(* The configuration, and build_runtime, which reads it                    *)

OpenConfig(p) ==
    /\ At(p, "config")
    /\ config' = Nothing
    /\ Step(p, "fill config")
    /\ UNCHANGED text /\ Fixed

FillConfig(p) ==
    /\ At(p, "fill config")
    /\ config' = p
    /\ Step(p, "load")
    /\ UNCHANGED text /\ Fixed

\* An empty configuration is not valid; that of another start is.
LoadConfig(p) ==
    /\ At(p, "load")
    /\ Step(p, IF config = Nothing THEN "ended" ELSE "serving")
    /\ UNCHANGED <<text, config>> /\ Fixed

\* A call fails, the Portal is stopped, or it is killed.
EndStart(p) ==
    /\ start[p].pc \notin {"idle", "ended"}
    /\ Step(p, "ended")
    /\ cut' = cut \cup (IF At(p, "fill") THEN {start[p].at} ELSE {})
    /\ UNCHANGED <<text, config, writes, owned, raced>>

----------------------------------------------------------------------------
(* The owner                                                               *)

Missed == {start[p].at : p \in {q \in Portals : start[q].pc \in {"open", "fill"}}}

\* The owner puts a version of a document in place at once.
OwnerWrites(d) ==
    /\ writes < MaxWrites
    /\ writes' = writes + 1
    /\ text' = [text EXCEPT ![d] = writes'] /\ owned' = [owned EXCEPT ![d] = writes']
    /\ raced' = IF d \in Missed THEN raced \cup {d} ELSE raced \ {d}
    /\ UNCHANGED <<config, start, cut>>

Next ==
    \/ \E p \in Portals :
          \/ Begin(p) \/ Look(p) \/ OpenDocument(p) \/ FillDocument(p)
          \/ OpenConfig(p) \/ FillConfig(p) \/ LoadConfig(p) \/ EndStart(p)
    \/ \E d \in Documents : OwnerWrites(d)

Spec == Init /\ [][Next]_vars

----------------------------------------------------------------------------
(* Properties                                                              *)

(* However often and however many Portals are started: a document that its *)
(* owner wrote stays, unless a start had found none when it was written,   *)
(* and a document is without text only while it is being written, or for   *)
(* ever if that was cut short: then no start ever mends it.                *)
StartsKeepDocuments ==
    \A d \in Documents :
        /\ owned[d] # None /\ d \notin raced => text[d] = owned[d]
        /\ text[d] = Nothing =>
              d \in cut \/ \E p \in Portals : At(p, "fill") /\ start[p].at = d

=============================================================================
