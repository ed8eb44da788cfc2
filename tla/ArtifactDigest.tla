--------------------------- MODULE ArtifactDigest ---------------------------
(***************************************************************************)
(* evidence.artifact_digest of a directory, while its files are written,   *)
(* made and removed. Nothing is locked: the walk compares what stat says   *)
(* before and after each read. A file's content is two chunks, which are   *)
(* read, and written, one at a time. A directory within the directory is   *)
(* walked in the same way and is left out.                                 *)
(***************************************************************************)
EXTENDS Naturals

CONSTANTS
    MaxNames,    \* files are named by numbers, in the order of their names
    Links,       \* names that are symbolic links when they are made
    MaxChanges

BoundsAssumption == {MaxNames, MaxChanges} \subseteq Nat
LinksAssumption == Links \subseteq 1..MaxNames

VARIABLES
    names,      \* the names in the directory
    content,    \* per name, its chunks; a link has one, its target
    signature,  \* per name, the change that st_ctime is the time of
    listing,    \* the change that the directory's st_ctime is the time of
    changes,    \* how many changes there have been
    walk,       \* the digest in progress
    had         \* history: contents that a name has had since the walk began

tree == <<names, content, signature, listing, changes>>
vars == <<tree, walk, had>>

Names == 1..MaxNames
NewWalk == [pc |-> "start", listing |-> 0, todo |-> {}, file |-> 0, signature |-> 0,
            chunks |-> <<0, 0>>, entries |-> <<>>]

Init ==
    /\ names \in SUBSET Names
    /\ content = [f \in Names |-> <<0, 0>>] /\ signature = [f \in Names |-> 0]
    /\ listing = 0 /\ changes = 0
    /\ walk = NewWalk /\ had = [f \in Names |-> {}]

----------------------------------------------------------------------------
(* artifact_digest, _walk_artifact_directory, _read_regular_artifact       *)

\* stat, open and fstat of the directory
OpenDirectory ==
    /\ walk.pc = "start"
    /\ walk' = [walk EXCEPT !.pc = "list", !.listing = listing]
    /\ had' = [f \in Names |-> {content[f]}]
    /\ UNCHANGED tree

ListNames ==
    /\ walk.pc = "list"
    /\ walk' = [walk EXCEPT !.pc = "next", !.todo = names]
    /\ UNCHANGED <<tree, had>>

\* The walk raises ArtifactChangedError, or that a name is not there.
GiveUp == walk' = [walk EXCEPT !.pc = "changed"]

StatNext ==
    /\ walk.pc = "next"
    /\ \E f \in walk.todo :
          /\ \A g \in walk.todo : f <= g
          /\ IF f \in names
             THEN walk' = [walk EXCEPT !.pc = "open", !.todo = @ \ {f}, !.file = f,
                                       !.signature = signature[f]]
             ELSE GiveUp
    /\ UNCHANGED <<tree, had>>

Unchanged == walk.file \in names /\ signature[walk.file] = walk.signature

\* open and fstat; a link is not opened
OpenFile ==
    /\ walk.pc = "open"
    /\ IF Unchanged THEN walk' = [walk EXCEPT !.pc = "read"] ELSE GiveUp
    /\ UNCHANGED <<tree, had>>

ReadChunk ==
    /\ walk.pc = "read"
    /\ walk' = IF walk.file \in Links
               THEN [walk EXCEPT !.pc = "compare", !.chunks = content[walk.file]]
               ELSE [walk EXCEPT !.pc = "read more", !.chunks[1] = content[walk.file][1]]
    /\ UNCHANGED <<tree, had>>

ReadLastChunk ==
    /\ walk.pc = "read more"
    /\ walk' = [walk EXCEPT !.pc = "compare", !.chunks[2] = content[walk.file][2]]
    /\ UNCHANGED <<tree, had>>

Entered == [walk EXCEPT !.pc = "next",
                        !.entries = [f \in DOMAIN @ \cup {walk.file} |->
                                        IF f = walk.file THEN walk.chunks ELSE @[f]]]

\* Mutant: the file is not compared once it has been read.
EnterUncompared ==
    /\ walk.pc = "compare"
    /\ walk' = Entered
    /\ UNCHANGED <<tree, had>>

\* fstat, and stat of the name: what changed before the first has changed
\* for the second too
CompareFile ==
    /\ walk.pc = "compare"
    /\ IF Unchanged THEN walk' = Entered ELSE GiveUp
    /\ UNCHANGED <<tree, had>>

\* fstat of the directory against the one before the listing
CompareDirectory ==
    /\ walk.pc = "next" /\ walk.todo = {}
    /\ IF listing = walk.listing THEN walk' = [walk EXCEPT !.pc = "done"] ELSE GiveUp
    /\ UNCHANGED <<tree, had>>

----------------------------------------------------------------------------
(* Others                                                                  *)

Change == changes < MaxChanges /\ changes' = changes + 1

\* A chunk of a file is overwritten in place.
WriteChunk(f, i) ==
    /\ Change /\ f \in names \ Links
    /\ content' = [content EXCEPT ![f][i] = changes']
    /\ signature' = [signature EXCEPT ![f] = changes']
    /\ had' = [had EXCEPT ![f] = @ \cup {content'[f]}]
    /\ UNCHANGED <<names, listing, walk>>

\* A new file takes the name, whether it was in use or not.
Put(f) ==
    /\ Change
    /\ names' = names \cup {f}
    /\ content' = [content EXCEPT ![f] = <<changes', changes'>>]
    /\ signature' = [signature EXCEPT ![f] = changes']
    /\ listing' = changes'
    /\ had' = [had EXCEPT ![f] = @ \cup {content'[f]}]
    /\ UNCHANGED walk

Remove(f) ==
    /\ Change /\ f \in names
    /\ names' = names \ {f}
    /\ listing' = changes'
    /\ UNCHANGED <<content, signature, walk, had>>

Next ==
    \/ OpenDirectory \/ ListNames \/ StatNext \/ OpenFile \/ ReadChunk \/ ReadLastChunk
    \/ CompareFile \/ CompareDirectory
    \/ \E f \in Names : WriteChunk(f, 1) \/ WriteChunk(f, 2) \/ Put(f) \/ Remove(f)

Spec == Init /\ [][Next]_vars

----------------------------------------------------------------------------
(* Properties                                                              *)

(* A digest that is returned has an entry for exactly the names that are   *)
(* in the directory at that moment, and each entry is a content that its   *)
(* file had as a whole at some moment of the walk. It does not say that    *)
(* the files had those contents at one moment.                             *)
DigestIsOfTheTree ==
    [][walk.pc # "done" /\ walk'.pc = "done" =>
          /\ DOMAIN walk.entries = names
          /\ \A f \in names : walk.entries[f] \in had[f]]_vars

=============================================================================
