-------------------------- MODULE Evidence_proofs ---------------------------
(***************************************************************************)
(* Proofs about EvidenceRecorder, for any number of runs, directories,     *)
(* removals, kills and power failures: a record stays, whole and read-only *)
(* (RecordsAreKept), and a run that failed leaves no file but one that a   *)
(* power failure brings back (FailedLeavesNothing). About ArtifactDigest,  *)
(* for any number of files, links and changes: a digest is of the names    *)
(* that are there and of contents that the files had (DigestIsOfTheTree).  *)
(* And about Readiness, for documents of any length: the gates are judged  *)
(* as a reader would judge the documents (ReadAsWritten).                  *)
(***************************************************************************)
EXTENDS Evidence, Sequences, FiniteSets, FiniteSetTheorems, WellFoundedInduction, TLAPS

----------------------------------------------------------------------------
(* The inductive invariant of the recorder                                 *)

Creating == {"start", "mkdir", "reopen", "create"}

\* The run's file was made, and no failure has been noticed.
Standing == Recording \cup {"close", "recorded", "unreported"}

\* A run that goes on has made its file in the directory that it holds open.
MadeOK(r) ==
    /\ job[r].pc = "create" => job[r].dir # None
    /\ job[r].pc \in Creating =>
          file[r].inode = None /\ file[r].bytes = "none" /\ ~file[r].final
    /\ job[r].pc \in Standing \cup {"clean", "check", "unlink"} =>
          file[r].inode # None /\ job[r].dir # None

\* What the steps of the recording have done to the file.
ProgressOK(r) ==
    /\ job[r].pc = "chmod" => file[r].bytes = "whole"
    /\ job[r].pc = "fsync" => file[r].bytes = "whole" /\ file[r].final
    /\ job[r].pc \in {"name", "parent", "close", "recorded", "unreported"} =>
          file[r].bytes = "synced" /\ file[r].final

\* A name is that of a file that was made, in the directory of its run.
EntryOK(d) ==
    entry[d] # None =>
        /\ job[entry[d]].dir = d /\ file[entry[d]].inode # None
        /\ job[entry[d]].pc \notin Creating

\* So is a name that may come back.
UnsettledOK(d) ==
    \A s \in unsettled[d] :
        /\ job[s].dir = d /\ file[s].inode # None
        /\ job[s].pc \notin Creating

Named(r) == \E d \in Dirs : entry[d] = r
Live(r) == job[r].pc \in Opened \/ Named(r)

\* Files that are open or have a name have inodes of their own.
InodesApart ==
    \A r, s \in Runs : Live(r) /\ Live(s) /\ file[r].inode = file[s].inode => r = s

\* What the clean-up of s may take for its own is marked as raced.
MistakesOK(s) ==
    \A r \in Runs : r # s /\ job[s].dir \in Dirs /\ entry[job[s].dir] = r =>
        /\ job[s].pc = "unlink" => r \in raced
        /\ job[s].pc = "check" /\ file[r].inode = file[s].inode => r \in raced

\* The file of a run that notices no failure has the name.
InPlace(r) ==
    job[r].pc \in Standing /\ r \notin removed \cup raced => Found(r) = r

\* A run that failed has no name left, if none came back.
Gone(r) == job[r].pc = "failed" /\ Named(r) => r \in returned

RunOK(r) == MadeOK(r) /\ ProgressOK(r) /\ MistakesOK(r) /\ InPlace(r) /\ Gone(r)

IInv ==
    /\ TypeOK /\ InodesApart
    /\ \A r \in Runs : RunOK(r)
    /\ \A d \in Dirs : EntryOK(d) /\ UnsettledOK(d)

----------------------------------------------------------------------------
(* Types                                                                   *)

LEMMA InitTypeOK == Init => TypeOK
BY BoundsAssumption DEF Init, TypeOK, Files, Pcs, Dirs

LEMMA GotoTyped ==
    ASSUME TypeOK, NEW r \in Runs, NEW pc \in Pcs, Goto(r, pc)
    PROVE  job' \in [Runs -> [pc : Pcs, dir : Dirs \cup {None}]]
BY DEF TypeOK, Goto

LEMMA HoldTyped ==
    ASSUME TypeOK, NEW r \in Runs, where # None, Hold(r, where)
    PROVE  job' \in [Runs -> [pc : Pcs, dir : Dirs \cup {None}]]
<1>1. where \in Dirs
  BY BoundsAssumption DEF TypeOK, Dirs
<1> QED BY <1>1 DEF TypeOK, Hold, Pcs

LEMMA StoppedTyped ==
    ASSUME TypeOK, NEW r \in Runs
    PROVE  Stopped(r) \in [pc : Pcs, dir : Dirs \cup {None}]
BY DEF TypeOK, Stopped, Pcs, Ended

LEMMA RemoveTyped ==
    ASSUME TypeOK, NEW d, Remove(d)
    PROVE  entry' \in [Dirs -> Runs \cup {None}] /\ unsettled' \in [Dirs -> SUBSET Runs]
<1>1. d \in Dirs => {entry[d]} \ {None} \subseteq Runs
  BY DEF TypeOK
<1> QED BY <1>1 DEF Remove, TypeOK

LEMMA FilesChange ==
    ASSUME NEW f \in Files
    PROVE  /\ \A i \in Runs : [f EXCEPT !.inode = i] \in Files
           /\ \A b \in {"partial", "whole", "synced"} : [f EXCEPT !.bytes = b] \in Files
           /\ [f EXCEPT !.final = TRUE] \in Files
BY DEF Files

LEMMA NextTypeOK == ASSUME TypeOK, [Next]_vars PROVE TypeOK'
<1> USE DEF disk, bounds, history
<1>0. \A pc \in Pcs, r \in Runs : Goto(r, pc) =>
          job' \in [Runs -> [pc : Pcs, dir : Dirs \cup {None}]]
  BY GotoTyped
<1>1. ASSUME NEW r \in Runs, OpenParent(r) PROVE TypeOK'
  BY <1>1, <1>0, HoldTyped DEF OpenParent, TypeOK, Pcs
<1>2. ASSUME NEW r \in Runs, MakeParent(r) PROVE TypeOK'
  BY <1>2, <1>0, BoundsAssumption DEF MakeParent, TypeOK, Pcs, Ended
<1>3. ASSUME NEW r \in Runs, ReopenParent(r) PROVE TypeOK'
  BY <1>3, <1>0, HoldTyped DEF ReopenParent, TypeOK, Pcs, Ended
<1>4. ASSUME NEW r \in Runs, CreateOutput(r) PROVE TypeOK'
  <2>1. PICK i \in ({r} \cup {file[s].inode : s \in Runs}) \ {None} :
            file' = [file EXCEPT ![r].inode = i]
    BY <1>4 DEF CreateOutput
  <2>2. i \in Runs
    BY <2>1 DEF TypeOK, Files
  <2>3. file' \in [Runs -> Files]
    BY <2>1, <2>2, FilesChange DEF TypeOK
  <2>4. raced' \subseteq Runs /\ entry' \in [Dirs -> Runs \cup {None}]
    BY <1>4 DEF CreateOutput, TypeOK
  <2> QED BY <1>4, <1>0, <2>3, <2>4 DEF CreateOutput, TypeOK, Pcs, Recording
<1>5. ASSUME NEW r \in Runs,
             OutputExists(r) \/ NoOutput(r) \/ Identify(r) \/ IdentifyFails(r)
             \/ RunChild(r) \/ CheckName(r) \/ VerifyParent(r) \/ Return(r)
             \/ RecordingFails(r) \/ CloseOutput(r) \/ RequireOwned(r) \/ CleanUpFails(r)
      PROVE  TypeOK'
  <2>1. /\ \E pc \in Pcs : Goto(r, pc)
        /\ UNCHANGED <<disk, file, bounds, history>>
    BY <1>5 DEF OutputExists, NoOutput, Identify, IdentifyFails, RunChild, CheckName,
            VerifyParent, Return, RecordingFails, CloseOutput, RequireOwned, CleanUpFails,
            Pcs, Recording, Ended
  <2> QED BY <2>1, <1>0 DEF TypeOK
<1>6. ASSUME NEW r \in Runs, WriteRecord(r) \/ MakeReadOnly(r) \/ SyncRecord(r)
      PROVE  TypeOK'
  <2>1. file' \in [Runs -> Files]
    <3>1. CASE WriteRecord(r)
      <4>1. PICK b \in {"partial", "whole"} : file' = [file EXCEPT ![r].bytes = b]
        BY <3>1 DEF WriteRecord
      <4> QED BY <4>1, FilesChange DEF TypeOK
    <3>2. CASE MakeReadOnly(r)
      BY <3>2, FilesChange DEF MakeReadOnly, TypeOK
    <3>3. CASE SyncRecord(r)
      BY <3>3, FilesChange DEF SyncRecord, TypeOK
    <3> QED BY <1>6, <3>1, <3>2, <3>3
  <2>2. UNCHANGED job \/ \E pc \in Pcs : Goto(r, pc)
    BY <1>6 DEF WriteRecord, MakeReadOnly, SyncRecord, Pcs, Recording
  <2>3. UNCHANGED <<where, made, entry, bounds, history>>
    BY <1>6 DEF WriteRecord, MakeReadOnly, SyncRecord
  <2>4. unsettled' \in [Dirs -> SUBSET Runs]
    BY <1>6 DEF WriteRecord, MakeReadOnly, SyncRecord, TypeOK
  <2> QED BY <2>1, <2>2, <2>3, <2>4, <1>0 DEF TypeOK
<1>7. ASSUME NEW r \in Runs, Unlink(r) PROVE TypeOK'
  BY <1>7, <1>0, RemoveTyped DEF Unlink, TypeOK, Pcs, Ended
<1>8. ASSUME NEW r \in Runs, Kill(r) PROVE TypeOK'
  BY <1>8, StoppedTyped, BoundsAssumption DEF Kill, TypeOK
<1>9. ASSUME NEW d \in Dirs, OwnerRemoves(d) PROVE TypeOK'
  BY <1>9, BoundsAssumption, RemoveTyped DEF OwnerRemoves, TypeOK
<1>10. ASSUME OwnerMovesDirectory PROVE TypeOK'
  BY <1>10 DEF OwnerMovesDirectory, TypeOK
<1>11. ASSUME PowerFailure PROVE TypeOK'
  <2>1. job' \in [Runs -> [pc : Pcs, dir : Dirs \cup {None}]]
    BY <1>11, StoppedTyped DEF PowerFailure
  <2>2. file' \in [Runs -> Files]
    <3>1. file' = [q \in Runs |-> IF file[q].bytes = "whole"
                                 THEN [file[q] EXCEPT !.bytes = "partial"] ELSE file[q]]
      BY <1>11 DEF PowerFailure
    <3> QED BY <3>1, FilesChange DEF TypeOK
  <2>3. entry' \in [Dirs -> Runs \cup {None}]
    BY <1>11 DEF PowerFailure, TypeOK
  <2>4. kills' \in 0..MaxKills
    BY <1>11, BoundsAssumption DEF PowerFailure, TypeOK
  <2>5. returned' \subseteq Runs
    <3>1. PICK after \in [Dirs -> Runs \cup {None}] :
              returned' = returned \cup {after[d] : d \in {e \in Dirs : after[e] \in unsettled[e]}}
      BY <1>11 DEF PowerFailure
    <3> QED BY <3>1 DEF TypeOK
  <2>6. unsettled' \in [Dirs -> SUBSET Runs]
    BY <1>11 DEF PowerFailure
  <2> QED BY <1>11, <2>1, <2>2, <2>3, <2>4, <2>5, <2>6 DEF PowerFailure, TypeOK
<1>12. CASE UNCHANGED vars
  BY <1>12 DEF vars, TypeOK
<1> QED
  BY <1>1, <1>2, <1>3, <1>4, <1>5, <1>6, <1>7, <1>8, <1>9, <1>10, <1>11, <1>12 DEF Next

----------------------------------------------------------------------------
(* A step of one run that leaves the names and the inodes                  *)

LEMMA OwnStep ==
    ASSUME IInv, TypeOK', NEW r \in Runs,
           \A q \in Runs \ {r} : job'[q] = job[q] /\ file'[q] = file[q],
           file'[r].inode = file[r].inode,
           job'[r].dir # job[r].dir => job[r].pc \in Creating,
           UNCHANGED <<entry, removed, raced, returned>>,
           \A d \in Dirs : unsettled'[d] \subseteq unsettled[d],
           job'[r].pc \in Opened => job[r].pc \in Opened,
           job'[r].pc \in Creating => job[r].pc \in Creating,
           job'[r].pc \in Standing => job[r].pc \in Standing,
           MadeOK(r)', ProgressOK(r)', MistakesOK(r)', Gone(r)'
    PROVE  IInv'
<1>0. TypeOK /\ NoneIsNoRun
  BY NoneIsNoRun DEF IInv
<1>1. \A q \in Runs : file'[q].inode = file[q].inode
  OBVIOUS
<1>2. \A q \in Runs : Named(q)' <=> Named(q)
  BY DEF Named
<1>3. InodesApart'
  BY <1>1, <1>2 DEF IInv, InodesApart, Live
<1>4. ASSUME NEW q \in Runs, q # r PROVE RunOK(q)'
  <2>1. job'[q] = job[q] /\ file'[q] = file[q] /\ RunOK(q)
    BY <1>4 DEF IInv
  <2>2. MadeOK(q)' /\ ProgressOK(q)' /\ InPlace(q)' /\ Gone(q)'
    BY <2>1, <1>2 DEF RunOK, MadeOK, ProgressOK, InPlace, Found, Gone
  <2>3. MistakesOK(q)'
    BY <2>1, <1>1 DEF RunOK, MistakesOK
  <2> QED BY <2>2, <2>3 DEF RunOK
<1>5. InPlace(r)'
  <2>1. job'[r].pc \in Standing => job'[r].dir = job[r].dir
    BY DEF Standing, Creating, Recording
  <2> QED BY <2>1 DEF IInv, RunOK, InPlace, Found
<1>6. ASSUME NEW d \in Dirs PROVE EntryOK(d)'
  <2>1. EntryOK(d)
    BY DEF IInv
  <2>2. CASE entry[d] = None
    BY <2>2 DEF EntryOK
  <2>3. CASE entry[d] # None
    <3>1. entry[d] \in Runs
      BY <2>3, <1>0 DEF TypeOK
    <3>2. job[entry[d]].pc \notin Creating /\ job[entry[d]].dir = d
      BY <2>1, <2>3 DEF EntryOK
    <3> QED BY <2>1, <2>3, <3>1, <3>2, <1>1 DEF EntryOK
  <2> QED BY <2>2, <2>3
<1>7. ASSUME NEW d \in Dirs PROVE UnsettledOK(d)'
  <2>1. UnsettledOK(d) /\ unsettled[d] \subseteq Runs
    BY <1>0 DEF IInv, TypeOK
  <2> QED BY <2>1, <1>1 DEF UnsettledOK
<1> QED BY <1>3, <1>4, <1>5, <1>6, <1>7 DEF IInv, RunOK

----------------------------------------------------------------------------
(* The steps of the invariant                                              *)

LEMMA InitIInv == Init => IInv
<1> SUFFICES ASSUME Init PROVE IInv
  OBVIOUS
<1>1. TypeOK
  BY InitTypeOK
<1>2. /\ entry = [d \in Dirs |-> None] /\ unsettled = [d \in Dirs |-> {}]
      /\ file = [r \in Runs |-> [inode |-> None, bytes |-> "none", final |-> FALSE]]
      /\ job = [r \in Runs |-> [pc |-> "start", dir |-> None]]
  BY Zenon DEF Init
<1>3. \A d \in Dirs : entry[d] = None
  BY <1>2, Zenon
<1>4. \A d \in Dirs : unsettled[d] = {}
  BY <1>2, Zenon
<1>5. ASSUME NEW r \in Runs
      PROVE  /\ job[r].pc = "start" /\ job[r].dir = None
             /\ file[r].inode = None /\ file[r].bytes = "none" /\ ~file[r].final
  <2>1. /\ job = [q \in Runs |-> [pc |-> "start", dir |-> None]]
        /\ file = [q \in Runs |-> [inode |-> None, bytes |-> "none", final |-> FALSE]]
    BY <1>2
  <2> QED BY <2>1
<1>6. \A r \in Runs : ~Live(r) /\ ~Named(r)
  BY <1>3, <1>5, NoneIsNoRun DEF Live, Named, Opened, Recording
<1>7. \A r \in Runs : RunOK(r)
  BY <1>5, <1>6, NoneIsNoRun
  DEF RunOK, MadeOK, ProgressOK, MistakesOK, InPlace, Gone, Creating, Standing,
      Recording, Dirs
<1>8. \A d \in Dirs : EntryOK(d) /\ UnsettledOK(d)
  BY <1>3, <1>4 DEF EntryOK, UnsettledOK
<1> QED BY <1>1, <1>6, <1>7, <1>8 DEF IInv, InodesApart

\* The run goes on, and nothing but its program counter changes.
LEMMA GotoKeeps ==
    ASSUME IInv, TypeOK', NEW r \in Runs, NEW pc \in Pcs,
           Goto(r, pc), UNCHANGED <<entry, unsettled, file, removed, raced, returned>>,
           pc \in Opened => job[r].pc \in Opened,
           pc \in Creating => job[r].pc \in Creating /\ pc # "create",
           pc \in Standing => job[r].pc \in Standing,
           pc \in {"clean", "check", "unlink"} => job[r].pc \in Standing \cup {"clean", "check"},
           ProgressOK(r)', MistakesOK(r)', pc = "failed" => ~Named(r)
    PROVE  IInv'
<1>1. TypeOK /\ RunOK(r)
  BY DEF IInv
<1>2. /\ job'[r].pc = pc /\ job'[r].dir = job[r].dir
      /\ \A q \in Runs \ {r} : job'[q] = job[q]
  BY <1>1 DEF TypeOK, Goto
<1>3. MadeOK(r)'
  BY <1>1, <1>2 DEF RunOK, MadeOK, Creating, Standing, Recording
<1>4. Gone(r)'
  BY <1>2 DEF Gone, Named
<1> QED BY <1>2, <1>3, <1>4, OwnStep

\* The directory that was found is held open.
LEMMA HoldKeeps ==
    ASSUME IInv, TypeOK', NEW r \in Runs, job[r].pc \in Creating,
           where # None, Hold(r, where),
           UNCHANGED <<entry, unsettled, file, removed, raced, returned>>
    PROVE  IInv'
<1>1. TypeOK /\ RunOK(r)
  BY DEF IInv
<1>2. /\ job'[r].pc = "create" /\ job'[r].dir = where
      /\ \A q \in Runs \ {r} : job'[q] = job[q]
  BY <1>1 DEF TypeOK, Hold
<1>3. MadeOK(r)' /\ ProgressOK(r)' /\ MistakesOK(r)' /\ Gone(r)'
  BY <1>1, <1>2
  DEF RunOK, MadeOK, ProgressOK, MistakesOK, Gone, Creating, Standing, Recording
<1> QED BY <1>2, <1>3, OwnStep DEF Creating, Opened, Standing, Recording

\* A run that has not made its file has no name.
LEMMA NamesAreMade ==
    ASSUME IInv, NEW r \in Runs, job[r].pc \in Creating \/ file[r].inode = None
    PROVE  ~Named(r)
<1>1. r # None
  BY NoneIsNoRun
<1> QED BY <1>1 DEF Named, IInv, EntryOK

LEMMA CreateKeeps ==
    ASSUME IInv, TypeOK', NEW r \in Runs, CreateOutput(r)
    PROVE  IInv'
<1> DEFINE d == job[r].dir
<1>0. /\ TypeOK /\ RunOK(r) /\ r # None
      /\ d \in Dirs /\ entry[d] = None /\ job[r].pc = "create"
  BY NoneIsNoRun DEF IInv, RunOK, MadeOK, CreateOutput, Found, TypeOK
<1>1. PICK i \in ({r} \cup {file[s].inode : s \in Runs}) \ {None} :
          /\ Free(i)
          /\ file' = [file EXCEPT ![r].inode = i]
          /\ raced' = IF \E s \in Runs : Mistakes(s, d, i) THEN raced \cup {r} ELSE raced
  BY DEF CreateOutput
<1>2. /\ file'[r].inode = i /\ i # None
      /\ file'[r].bytes = file[r].bytes /\ file'[r].final = file[r].final
      /\ \A q \in Runs \ {r} : file'[q] = file[q]
  BY <1>0, <1>1 DEF TypeOK, Files
<1>3. /\ job'[r].pc = "identify" /\ job'[r].dir = d
      /\ \A q \in Runs \ {r} : job'[q] = job[q]
  BY <1>0 DEF CreateOutput, Goto, TypeOK
<1>4. entry'[d] = r /\ (\A e \in Dirs \ {d} : entry'[e] = entry[e])
      /\ UNCHANGED <<unsettled, removed, returned>>
  BY <1>0 DEF CreateOutput, TypeOK
<1>5. ~Named(r) /\ raced \subseteq raced'
  BY <1>0, <1>1, NamesAreMade DEF Creating
<1>6. \A q \in Runs \ {r} : Live(q)' => Live(q) /\ file[q].inode # i
  BY <1>0, <1>1, <1>3, <1>4 DEF Live, Named, Free
<1>7. InodesApart'
  BY <1>2, <1>6 DEF IInv, InodesApart
<1>8. RunOK(r)'
  <2>1. MadeOK(r)' /\ ProgressOK(r)' /\ MistakesOK(r)' /\ Gone(r)'
    BY <1>0, <1>2, <1>3
    DEF RunOK, MadeOK, ProgressOK, MistakesOK, Gone, Creating, Standing, Recording
  <2>2. InPlace(r)'
    BY <1>3, <1>4 DEF InPlace, Found
  <2> QED BY <2>1, <2>2 DEF RunOK
<1>9. ASSUME NEW q \in Runs, q # r PROVE RunOK(q)'
  <2>1. RunOK(q) /\ job'[q] = job[q] /\ file'[q] = file[q]
    BY <1>9, <1>2, <1>3 DEF IInv
  <2>2. Named(q)' <=> Named(q)
    BY <1>0, <1>4, <1>9, NoneIsNoRun DEF Named
  <2>3. MadeOK(q)' /\ ProgressOK(q)' /\ Gone(q)'
    BY <1>4, <2>1, <2>2 DEF RunOK, MadeOK, ProgressOK, Gone
  <2>4. InPlace(q)'
    <3> SUFFICES ASSUME job[q].pc \in Standing, q \notin removed \cup raced
                 PROVE  entry'[job[q].dir] = q
      BY <2>1, <1>4, <1>5 DEF InPlace, Found
    <3>1. entry[job[q].dir] = q /\ job[q].dir \in Dirs
      BY <2>1, <1>0 DEF RunOK, InPlace, Found, MadeOK, TypeOK
    <3> QED BY <3>1, <1>0, <1>4, NoneIsNoRun
  <2>5. MistakesOK(q)'
    <3> SUFFICES ASSUME NEW t \in Runs, t # q, job[q].dir \in Dirs, entry'[job[q].dir] = t
                 PROVE  /\ job[q].pc = "unlink" => t \in raced'
                        /\ job[q].pc = "check" /\ file'[t].inode = file[q].inode
                              => t \in raced'
      BY <2>1 DEF MistakesOK
    <3>1. CASE job[q].dir = d
      BY <3>1, <1>1, <1>2, <1>4 DEF Mistakes
    <3>2. CASE job[q].dir # d
      <4>1. entry[job[q].dir] = t /\ t # r
        BY <3>2, <1>4, <1>5 DEF Named
      <4> QED BY <4>1, <2>1, <1>2, <1>5 DEF RunOK, MistakesOK
    <3> QED BY <3>1, <3>2
  <2> QED BY <2>3, <2>4, <2>5 DEF RunOK
<1>10. ASSUME NEW e \in Dirs PROVE EntryOK(e)'
  <2>1. CASE e = d
    BY <2>1, <1>0, <1>2, <1>3, <1>4 DEF EntryOK, Creating
  <2>2. CASE e # d /\ entry[e] # None
    <3>1. entry[e] \in Runs \ {r} /\ EntryOK(e)
      BY <2>2, <1>0, <1>5 DEF TypeOK, Named, IInv
    <3> QED BY <3>1, <2>2, <1>2, <1>3, <1>4 DEF EntryOK
  <2>3. CASE e # d /\ entry[e] = None
    BY <2>3, <1>4 DEF EntryOK
  <2> QED BY <2>1, <2>2, <2>3
<1>11. ASSUME NEW e \in Dirs PROVE UnsettledOK(e)'
  <2>1. UnsettledOK(e) /\ unsettled[e] \subseteq Runs \ {r}
    BY <1>0 DEF IInv, TypeOK, UnsettledOK, Creating
  <2> QED BY <2>1, <1>2, <1>3, <1>4 DEF UnsettledOK
<1> QED BY <1>7, <1>8, <1>9, <1>10, <1>11 DEF IInv

\* A name goes: it was that of a file that was removed or raced, or one whose
\* run knows of a failure.
LEMMA NamesGo ==
    ASSUME IInv, TypeOK',
           \A d \in Dirs : entry'[d] # entry[d] => entry'[d] = None,
           \A q \in Runs : file'[q].inode = file[q].inode,
           \A q \in Runs : job'[q].dir = job[q].dir,
           \A q \in Runs : job'[q].pc = job[q].pc \/ job'[q].pc \in {"failed", "abandoned"},
           \A q \in Runs : job'[q].pc = "failed" => job[q].pc = "failed" \/ ~Named(q)',
           \A d \in Dirs : unsettled'[d] \subseteq unsettled[d] \cup ({entry[d]} \ {None}),
           \A q \in Runs : job'[q].pc \in Standing \ {"recorded", "unreported"} => file'[q] = file[q],
           \A q \in Runs : file[q].bytes \in {"none", "synced"} => file'[q] = file[q],
           removed \subseteq removed', raced' = raced, returned \subseteq returned',
           \A q \in Runs : job'[q].pc \in Standing /\ Found(q) = q /\ entry'[job[q].dir] # q
              => q \in removed' \cup raced
    PROVE  IInv'
<1>0. TypeOK /\ NoneIsNoRun
  BY NoneIsNoRun DEF IInv
<1>1. \A q \in Runs : (Live(q)' => Live(q)) /\ (Named(q)' => Named(q))
  <2> SUFFICES ASSUME NEW q \in Runs PROVE (Live(q)' => Live(q)) /\ (Named(q)' => Named(q))
    OBVIOUS
  <2>1. Named(q)' => Named(q)
    BY <1>0 DEF Named
  <2> QED BY <2>1 DEF Live, Opened, Recording
<1>2. InodesApart'
  BY <1>1 DEF IInv, InodesApart
<1>3. ASSUME NEW q \in Runs PROVE RunOK(q)'
  <2>1. RunOK(q)
    BY DEF IInv
  <2>2. MadeOK(q)' /\ ProgressOK(q)'
    BY <2>1, <1>0 DEF RunOK, MadeOK, ProgressOK, Creating, Standing, Recording
  <2>3. Gone(q)'
    BY <2>1, <1>1 DEF RunOK, Gone
  <2>4. InPlace(q)'
    BY <2>1 DEF RunOK, InPlace, Found, Standing, Recording
  <2>5. MistakesOK(q)'
    <3> SUFFICES ASSUME NEW t \in Runs, t # q, job[q].dir \in Dirs, entry'[job[q].dir] = t,
                        job'[q].pc = job[q].pc
                 PROVE  /\ job[q].pc = "unlink" => t \in raced
                        /\ job[q].pc = "check" /\ file[t].inode = file[q].inode => t \in raced
      BY DEF MistakesOK
    <3>1. entry[job[q].dir] = t
      BY <1>0
    <3> QED BY <3>1, <2>1 DEF RunOK, MistakesOK
  <2> QED BY <2>2, <2>3, <2>4, <2>5 DEF RunOK
<1>4. ASSUME NEW e \in Dirs PROVE EntryOK(e)'
  <2>1. CASE entry'[e] = None
    BY <2>1 DEF EntryOK
  <2>2. CASE entry'[e] # None
    <3>1. entry'[e] = entry[e] /\ entry[e] \in Runs /\ EntryOK(e)
      BY <2>2, <1>0 DEF TypeOK, IInv
    <3> QED BY <3>1, <2>2 DEF EntryOK, Creating
  <2> QED BY <2>1, <2>2
<1>5. ASSUME NEW e \in Dirs PROVE UnsettledOK(e)'
  <2>1. \A q \in unsettled[e] \cup ({entry[e]} \ {None}) :
            q \in Runs /\ job[q].dir = e /\ file[q].inode # None /\ job[q].pc \notin Creating
    BY <1>0 DEF TypeOK, IInv, EntryOK, UnsettledOK
  <2> QED BY <2>1 DEF UnsettledOK, Creating
<1> QED BY <1>2, <1>3, <1>4, <1>5 DEF IInv

----------------------------------------------------------------------------
(* One lemma per group of actions                                          *)

LEMMA CreationIInv ==
    ASSUME IInv, TypeOK', NEW r \in Runs,
           OpenParent(r) \/ MakeParent(r) \/ ReopenParent(r) \/ OutputExists(r) \/ NoOutput(r)
    PROVE  IInv'
<1> USE DEF disk, history
<1>1. /\ job[r].pc \in Creating /\ ~Named(r)
      /\ UNCHANGED <<entry, unsettled, file, removed, raced, returned>>
      /\ ProgressOK(r) /\ file[r].bytes = "none"
  <2>1. job[r].pc \in Creating
        /\ UNCHANGED <<entry, unsettled, file, removed, raced, returned>>
    BY DEF OpenParent, MakeParent, ReopenParent, OutputExists, NoOutput, Creating
  <2> QED BY <2>1, NamesAreMade DEF IInv, RunOK, MadeOK
<1>2. CASE where # None /\ Hold(r, where)
  BY <1>1, <1>2, HoldKeeps
<1>3. CASE \E pc \in {"mkdir", "reopen", "failed"} : Goto(r, pc)
  <2>1. PICK pc \in {"mkdir", "reopen", "failed"} : Goto(r, pc)
    BY <1>3
  <2>2. job'[r].pc = pc
    BY <2>1 DEF Goto, IInv, TypeOK
  <2>3. ProgressOK(r)' /\ MistakesOK(r)'
    BY <2>2 DEF ProgressOK, MistakesOK
  <2>4. pc \in Pcs /\ pc \notin Opened /\ pc \notin Standing
        /\ pc \notin {"clean", "check", "unlink", "create"}
    BY DEF Pcs, Ended, Opened, Standing, Recording
  <2> QED BY <1>1, <2>1, <2>3, <2>4, GotoKeeps
<1> QED
  BY <1>2, <1>3 DEF OpenParent, MakeParent, ReopenParent, OutputExists, NoOutput

LEMMA RecordingIInv ==
    ASSUME IInv, TypeOK', NEW r \in Runs,
           Identify(r) \/ IdentifyFails(r) \/ RunChild(r) \/ CheckName(r) \/ VerifyParent(r)
           \/ Return(r) \/ RecordingFails(r) \/ CloseOutput(r)
    PROVE  IInv'
<1> USE DEF disk, history
<1>1. PICK pc \in {"child", "write", "parent", "close", "recorded", "unreported",
                   "clean", "check", "abandoned"} :
          /\ Goto(r, pc) /\ UNCHANGED <<entry, unsettled, file, removed, raced, returned>>
          /\ job[r].pc \in Opened
          /\ pc # "check" => job[r].pc \in Standing
          /\ pc = "check" => job[r].pc = "clean"
          /\ pc \in {"parent", "close", "recorded", "unreported"} =>
                job[r].pc \in {"name", "parent", "close"}
  BY DEF Identify, IdentifyFails, RunChild, CheckName, VerifyParent, Return, RecordingFails,
         CloseOutput, Opened, Standing, Recording
<1>2. /\ job'[r].pc = pc /\ job'[r].dir = job[r].dir
      /\ \A q \in Runs \ {r} : job'[q] = job[q]
  BY <1>1 DEF Goto, IInv, TypeOK
<1>3. ProgressOK(r)'
  BY <1>1, <1>2 DEF IInv, RunOK, ProgressOK
<1>4. MistakesOK(r)'
  <2>1. ASSUME NEW t \in Runs, t # r, entry[job[r].dir] = t, job[r].dir \in Dirs
        PROVE  file[t].inode # file[r].inode
    BY <2>1, <1>1 DEF IInv, InodesApart, Live, Named
  <2> QED BY <2>1, <1>1, <1>2 DEF MistakesOK
<1>5. /\ pc \in Pcs /\ pc \notin Creating /\ pc # "failed"
      /\ pc \in Standing \/ pc = "clean" => job[r].pc \in Standing
      /\ pc \in Opened => job[r].pc \in Opened
      /\ pc \in {"clean", "check", "unlink"} => job[r].pc \in Standing \cup {"clean", "check"}
  BY <1>1 DEF Pcs, Ended, Creating, Standing, Opened, Recording
<1> QED BY <1>1, <1>3, <1>4, <1>5, GotoKeeps

LEMMA BytesIInv ==
    ASSUME IInv, TypeOK', NEW r \in Runs,
           WriteRecord(r) \/ MakeReadOnly(r) \/ SyncRecord(r)
    PROVE  IInv'
<1> USE DEF disk, history
<1>0. TypeOK /\ RunOK(r)
  BY DEF IInv
<1>1. /\ job'[r].pc \in {"write", "chmod", "fsync", "name"} /\ job'[r].dir = job[r].dir
      /\ job[r].pc \in {"write", "chmod", "fsync"}
      /\ \A q \in Runs \ {r} : job'[q] = job[q]
      /\ UNCHANGED <<entry, removed, raced, returned>>
      /\ \A d \in Dirs : unsettled'[d] \subseteq unsettled[d]
  BY <1>0 DEF WriteRecord, MakeReadOnly, SyncRecord, Goto, TypeOK
<1>2. /\ file'[r].inode = file[r].inode
      /\ \A q \in Runs \ {r} : file'[q] = file[q]
      /\ ProgressOK(r)'
  <2>1. CASE WriteRecord(r)
    <3>1. PICK b \in {"partial", "whole"} :
              /\ file' = [file EXCEPT ![r].bytes = b]
              /\ job' = [job EXCEPT ![r].pc = IF b = "partial" THEN job[r].pc ELSE "chmod"]
              /\ job[r].pc = "write"
      BY <2>1, <1>0 DEF WriteRecord, Goto, TypeOK
    <3> QED BY <3>1, <1>0 DEF TypeOK, Files, ProgressOK
  <2>2. CASE MakeReadOnly(r)
    BY <2>2, <1>0 DEF MakeReadOnly, Goto, TypeOK, Files, RunOK, ProgressOK
  <2>3. CASE SyncRecord(r)
    BY <2>3, <1>0 DEF SyncRecord, Goto, TypeOK, Files, RunOK, ProgressOK
  <2> QED BY <2>1, <2>2, <2>3
<1>3. MadeOK(r)' /\ MistakesOK(r)' /\ Gone(r)'
  BY <1>0, <1>1, <1>2
  DEF RunOK, MadeOK, MistakesOK, Gone, Creating, Standing, Recording
<1>4. /\ job[r].pc \in Opened /\ job[r].pc \in Standing
      /\ job'[r].pc \notin Creating
  BY <1>1 DEF Creating, Standing, Opened, Recording
<1> QED BY <1>1, <1>2, <1>3, <1>4, OwnStep

LEMMA CleaningIInv ==
    ASSUME IInv, TypeOK', NEW r \in Runs, RequireOwned(r) \/ CleanUpFails(r)
    PROVE  IInv'
<1> USE DEF disk, history
<1>0. TypeOK /\ RunOK(r) /\ r # None
  BY NoneIsNoRun DEF IInv
<1>1. PICK pc \in {"unlink", "failed", "abandoned"} :
          /\ Goto(r, pc) /\ UNCHANGED <<entry, unsettled, file, removed, raced, returned>>
          /\ job[r].pc \in {"check", "unlink"}
          /\ pc # "abandoned" => job[r].pc = "check"
          /\ pc = "unlink" => file[Found(r)].inode = file[r].inode
          /\ pc = "failed" => Found(r) # r
  BY <1>0 DEF RequireOwned, CleanUpFails
<1>2. job'[r].pc = pc /\ job'[r].dir = job[r].dir
  BY <1>0, <1>1 DEF Goto, TypeOK
<1>3. ProgressOK(r)' /\ MistakesOK(r)'
  BY <1>0, <1>1, <1>2 DEF ProgressOK, MistakesOK, RunOK, Found
<1>4. pc = "failed" => ~Named(r)
  BY <1>0, <1>1 DEF IInv, Named, EntryOK, Found
<1>5. /\ pc \in Pcs /\ pc \notin Opened /\ pc \notin Creating /\ pc \notin Standing
      /\ pc \in {"clean", "check", "unlink"} => job[r].pc \in Standing \cup {"clean", "check"}
  BY <1>1 DEF Pcs, Ended, Opened, Creating, Standing, Recording
<1> QED BY <1>1, <1>3, <1>4, <1>5, GotoKeeps

LEMMA UnlinkIInv == ASSUME IInv, TypeOK', NEW r \in Runs, Unlink(r) PROVE IInv'
<1> USE DEF disk, history
<1>0. TypeOK /\ RunOK(r) /\ NoneIsNoRun
  BY NoneIsNoRun DEF IInv
<1>1. /\ job[r].pc = "unlink" /\ job[r].dir \in Dirs
      /\ job'[r].pc = "failed" /\ job'[r].dir = job[r].dir
      /\ \A q \in Runs \ {r} : job'[q] = job[q]
      /\ entry' = [entry EXCEPT ![job[r].dir] = None]
      /\ \A d \in Dirs : unsettled'[d] \subseteq unsettled[d] \cup ({entry[d]} \ {None})
      /\ UNCHANGED <<file, removed, raced, returned>>
  BY <1>0 DEF Unlink, Remove, Goto, TypeOK, RunOK, MadeOK
<1>2. ~Named(r)'
  BY <1>0, <1>1 DEF TypeOK, IInv, Named, EntryOK
<1>3. ASSUME NEW q \in Runs, job'[q].pc \in Standing, Found(q) = q, entry'[job[q].dir] # q
      PROVE  q \in removed' \cup raced
  <2>1. q # r
    BY <1>1, <1>3 DEF Standing, Recording
  <2>2. job[q].dir = job[r].dir
    BY <1>0, <1>1, <1>3, <2>1 DEF Found, TypeOK, IInv, RunOK, MadeOK
  <2> QED BY <1>0, <1>1, <1>3, <2>1, <2>2 DEF RunOK, MistakesOK, Found
<1> QED BY <1>0, <1>1, <1>2, <1>3, NamesGo DEF TypeOK

LEMMA KillIInv == ASSUME IInv, TypeOK', NEW r \in Runs, Kill(r) PROVE IInv'
<1> USE DEF disk, history
<1>1. /\ job'[r].pc = "abandoned" /\ job'[r].dir = job[r].dir
      /\ \A q \in Runs \ {r} : job'[q] = job[q]
      /\ UNCHANGED <<file, entry, unsettled, removed, raced, returned>>
  BY DEF Kill, Stopped, IInv, TypeOK
<1>2. MadeOK(r)' /\ ProgressOK(r)' /\ MistakesOK(r)' /\ Gone(r)'
  BY <1>1 DEF MadeOK, ProgressOK, MistakesOK, Gone, Creating, Standing, Recording
<1> QED BY <1>1, <1>2, OwnStep DEF Opened, Creating, Standing, Recording

LEMMA OwnerIInv == ASSUME IInv, TypeOK', NEW d \in Dirs, OwnerRemoves(d) PROVE IInv'
<1> USE DEF history
<1>1. /\ entry' = [entry EXCEPT ![d] = None] /\ removed' = removed \cup {entry[d]}
      /\ \A e \in Dirs : unsettled'[e] \subseteq unsettled[e] \cup ({entry[e]} \ {None})
      /\ UNCHANGED <<file, job, raced, returned>> /\ TypeOK
  BY DEF OwnerRemoves, Remove, IInv, TypeOK
<1>2. ASSUME NEW q \in Runs, Found(q) = q, entry'[job[q].dir] # q, job[q].pc \in Standing
      PROVE  q \in removed' \cup raced
  BY <1>1, <1>2 DEF Found, TypeOK, IInv, RunOK, MadeOK
<1>3. \A e \in Dirs : entry'[e] # entry[e] => entry'[e] = None
  BY <1>1 DEF TypeOK
<1> QED BY <1>1, <1>2, <1>3, NamesGo

LEMMA PowerIInv == ASSUME IInv, TypeOK', PowerFailure PROVE IInv'
<1> USE DEF history
<1>0. TypeOK /\ NoneIsNoRun
  BY NoneIsNoRun DEF IInv
<1>1. /\ \A d \in Dirs : entry'[d] \in
            IF entry[d] # None /\ file[entry[d]].bytes = "synced" THEN {entry[d]}
            ELSE {entry[d], None} \cup unsettled[d]
      /\ \A d, e \in Dirs : d # e /\ entry'[d] # None /\ entry'[e] # None =>
            file[entry'[d]].inode # file[entry'[e]].inode
      /\ returned' = returned \cup {entry'[d] : d \in {e \in Dirs : entry'[e] \in unsettled[e]}}
      /\ UNCHANGED <<removed, raced>> /\ unsettled' = [d \in Dirs |-> {}]
  BY DEF PowerFailure
<1>2. /\ \A q \in Runs : job'[q] = Stopped(q)
      /\ \A q \in Runs : file'[q] = IF file[q].bytes = "whole"
                                    THEN [file[q] EXCEPT !.bytes = "partial"] ELSE file[q]
  BY DEF PowerFailure
<1>3. \A q \in Runs : /\ file'[q].inode = file[q].inode
                      /\ file[q].bytes \in {"none", "synced"} => file'[q] = file[q]
  BY <1>0, <1>2 DEF TypeOK, Files
<1>4. \A q \in Runs : /\ job'[q].dir = job[q].dir /\ job'[q].pc \in Ended
                      /\ job'[q].pc = IF job[q].pc \in Ended THEN job[q].pc ELSE "abandoned"
  BY <1>0, <1>2 DEF TypeOK, Stopped, Ended
<1>5. ASSUME NEW d \in Dirs, entry'[d] # None
      PROVE  /\ entry'[d] \in Runs /\ job[entry'[d]].dir = d
             /\ file[entry'[d]].inode # None /\ job[entry'[d]].pc \notin Creating
  <2>1. entry'[d] = entry[d] \/ entry'[d] \in unsettled[d]
    BY <1>1, <1>5
  <2> QED BY <2>1, <1>0, <1>5 DEF TypeOK, IInv, EntryOK, UnsettledOK
<1>6. \A d \in Dirs : EntryOK(d)' /\ UnsettledOK(d)'
  BY <1>1, <1>3, <1>4, <1>5 DEF EntryOK, UnsettledOK, Creating, Ended
<1>7. InodesApart'
  <2>1. ASSUME NEW q \in Runs, Live(q)' PROVE \E d \in Dirs : entry'[d] = q
    BY <2>1, <1>4 DEF Live, Named, Opened, Recording, Ended
  <2>2. ASSUME NEW q \in Runs, NEW t \in Runs, Live(q)', Live(t)', q # t
        PROVE  file'[q].inode # file'[t].inode
    <3>1. PICK d \in Dirs, e \in Dirs : entry'[d] = q /\ entry'[e] = t
      BY <2>1, <2>2
    <3> QED BY <3>1, <2>2, <1>0, <1>1, <1>3
  <2> QED BY <2>2 DEF InodesApart
<1>8. ASSUME NEW q \in Runs PROVE RunOK(q)'
  <2>1. RunOK(q)
    BY DEF IInv
  <2>2. MadeOK(q)' /\ ProgressOK(q)'
    BY <2>1, <1>3, <1>4
    DEF RunOK, MadeOK, ProgressOK, Creating, Standing, Recording, Ended
  <2>3. MistakesOK(q)'
    BY <1>4 DEF MistakesOK, Ended
  <2>4. InPlace(q)'
    <3> SUFFICES ASSUME job'[q].pc \in Standing, q \notin removed \cup raced
                 PROVE  entry'[job[q].dir] = q
      BY <1>1, <1>4 DEF InPlace, Found
    <3>1. job[q].pc \in {"recorded", "unreported"}
      BY <1>4 DEF Ended, Standing, Recording
    <3>2. /\ job[q].dir \in Dirs /\ entry[job[q].dir] = q
          /\ file[q].bytes = "synced"
      BY <2>1, <3>1, <1>0 DEF RunOK, MadeOK, ProgressOK, InPlace, Found, Standing, TypeOK
    <3> QED BY <3>2, <1>0, <1>1
  <2>5. Gone(q)'
    <3> SUFFICES ASSUME job[q].pc = "failed", NEW d \in Dirs, entry'[d] = q PROVE q \in returned'
      BY <1>4 DEF Gone, Named
    <3>1. CASE entry[d] = q
      BY <3>1, <2>1, <1>1 DEF RunOK, Gone, Named
    <3>2. CASE q \in unsettled[d]
      BY <3>2, <1>1
    <3> QED BY <3>1, <3>2, <1>0, <1>1
  <2> QED BY <2>2, <2>3, <2>4, <2>5 DEF RunOK
<1> QED BY <1>6, <1>7, <1>8 DEF IInv

LEMMA NextIInv == ASSUME IInv, [Next]_vars PROVE IInv'
<1>0. TypeOK'
  BY NextTypeOK DEF IInv
<1>1. ASSUME NEW r \in Runs,
             OpenParent(r) \/ MakeParent(r) \/ ReopenParent(r)
             \/ OutputExists(r) \/ NoOutput(r)
      PROVE  IInv'
  BY <1>0, <1>1, CreationIInv
<1>2. ASSUME NEW r \in Runs, CreateOutput(r) PROVE IInv'
  BY <1>0, <1>2, CreateKeeps
<1>3. ASSUME NEW r \in Runs,
             Identify(r) \/ IdentifyFails(r) \/ RunChild(r) \/ CheckName(r)
             \/ VerifyParent(r) \/ Return(r) \/ RecordingFails(r) \/ CloseOutput(r)
      PROVE  IInv'
  BY <1>0, <1>3, RecordingIInv
<1>4. ASSUME NEW r \in Runs, WriteRecord(r) \/ MakeReadOnly(r) \/ SyncRecord(r) PROVE IInv'
  BY <1>0, <1>4, BytesIInv
<1>5. ASSUME NEW r \in Runs, RequireOwned(r) \/ CleanUpFails(r) PROVE IInv'
  BY <1>0, <1>5, CleaningIInv
<1>6. ASSUME NEW r \in Runs, Unlink(r) PROVE IInv'
  BY <1>0, <1>6, UnlinkIInv
<1>7. ASSUME NEW r \in Runs, Kill(r) PROVE IInv'
  BY <1>0, <1>7, KillIInv
<1>8. ASSUME NEW d \in Dirs, OwnerRemoves(d) PROVE IInv'
  BY <1>0, <1>8, OwnerIInv
<1>9. CASE PowerFailure
  BY <1>0, <1>9, PowerIInv
<1>10. CASE OwnerMovesDirectory \/ UNCHANGED vars
  BY <1>0, <1>10
  DEF OwnerMovesDirectory, vars, disk, history, IInv, InodesApart, Live, Named, RunOK, MadeOK,
      ProgressOK, MistakesOK, InPlace, Found, Gone, EntryOK, UnsettledOK
<1> QED
  BY <1>1, <1>2, <1>3, <1>4, <1>5, <1>6, <1>7, <1>8, <1>9, <1>10 DEF Next

LEMMA Invariance == Spec => []IInv
BY InitIInv, NextIInv, PTL DEF Spec

----------------------------------------------------------------------------
(* The theorems                                                            *)

(* The variables of the recorder keep their types.                         *)
THEOREM TypeCorrect == Spec => []TypeOK
<1>1. IInv => TypeOK
  BY DEF IInv
<1> QED BY <1>1, Invariance, PTL

(* A record whose run ended well is whole, read-only and in place: the     *)
(* clean-up of another run takes it only in the two ways that "raced"      *)
(* stands for.                                                             *)
THEOREM RecordsStay == Spec => []RecordsAreKept
<1>1. IInv => RecordsAreKept
  BY DEF IInv, RunOK, ProgressOK, InPlace, Standing, RecordsAreKept
<1> QED BY <1>1, Invariance, PTL

(* A run that failed has no file under the path, unless a power failure    *)
(* undid the removal before a later record under the path was synced.      *)
THEOREM FailuresLeaveNothing == Spec => []FailedLeavesNothing
<1>1. IInv => FailedLeavesNothing
  BY DEF IInv, RunOK, Gone, Named, FailedLeavesNothing
<1> QED BY <1>1, Invariance, PTL

----------------------------------------------------------------------------
(* The digest of an artifact                                               *)

Chunks == [1..2 -> Nat]
Opening == {"open", "read", "read more", "compare"}

DigestTyped ==
    /\ changes \in Nat /\ names \subseteq Digest!Names
    /\ content \in [Digest!Names -> Chunks]
    /\ signature \in [Digest!Names -> 0..changes] /\ listing \in 0..changes
    /\ had \in [Digest!Names -> SUBSET Chunks]
    /\ walk.todo \subseteq Digest!Names /\ walk.listing \in 0..changes
    /\ walk.chunks \in Chunks /\ walk.signature \in 0..changes
    /\ walk.pc \in Opening => walk.file \in Digest!Names
    /\ DOMAIN walk.entries \subseteq Digest!Names
    /\ walk.pc \in {"start", "list"} => DOMAIN walk.entries = {}

\* Since the walk began no content is missed, and no entry is of another.
HadOK ==
    /\ walk.pc # "start" => \A f \in Digest!Names : content[f] \in had[f]
    /\ \A f \in DOMAIN walk.entries : walk.entries[f] \in had[f]

\* As long as the directory is the one that was opened, the walk has every name.
NamesOK ==
    walk.pc \in {"next"} \cup Opening /\ listing = walk.listing =>
        names = DOMAIN walk.entries \cup walk.todo
                \cup (IF walk.pc \in Opening THEN {walk.file} ELSE {})

\* As long as the file is the one that was opened, what was read is there.
ChunksOK ==
    walk.pc \in Opening /\ signature[walk.file] = walk.signature =>
        /\ walk.pc = "read more" => walk.chunks[1] = content[walk.file][1]
        /\ walk.pc = "compare" => walk.chunks = content[walk.file]

\* The walk is one record.
WalkIs ==
    walk = [pc |-> walk.pc, listing |-> walk.listing, todo |-> walk.todo, file |-> walk.file,
            signature |-> walk.signature, chunks |-> walk.chunks, entries |-> walk.entries]

DInv == DigestTyped /\ HadOK /\ NamesOK /\ ChunksOK /\ WalkIs

LEMMA ChunksFacts ==
    /\ \A m, n \in Nat : <<m, n>> \in Chunks /\ <<m, n>>[1] = m /\ <<m, n>>[2] = n
    /\ \A c \in Chunks, i \in 1..2, n \in Nat : [c EXCEPT ![i] = n] \in Chunks
    /\ \A c, d \in Chunks : c[1] = d[1] /\ c[2] = d[2] => c = d
BY DEF Chunks

LEMMA InitDInv == Digest!Init => DInv
<1> SUFFICES ASSUME Digest!Init PROVE DInv
  OBVIOUS
<1>1. /\ walk.pc = "start" /\ walk.todo = {} /\ walk.listing = 0 /\ walk.signature = 0
      /\ walk.chunks = <<0, 0>> /\ walk.entries = <<>> /\ WalkIs
  BY DEF Digest!Init, Digest!NewWalk, WalkIs
<1>2. DOMAIN walk.entries = {}
  BY <1>1
<1> QED
  BY <1>1, <1>2, ChunksFacts
  DEF Digest!Init, DInv, DigestTyped, HadOK, NamesOK, ChunksOK, Opening

\* The walk gives up.
LEMMA GiveUpDInv ==
    ASSUME DInv, walk.pc # "start", Digest!GiveUp, UNCHANGED <<Digest!tree, had>>
    PROVE  DInv'
<1>1. /\ walk' = [walk EXCEPT !.pc = "changed"] /\ WalkIs
      /\ UNCHANGED <<names, content, signature, listing, changes, had>>
  BY DEF Digest!GiveUp, Digest!tree, DInv
<1> QED
  BY <1>1 DEF DInv, DigestTyped, HadOK, NamesOK, ChunksOK, WalkIs, Opening

LEMMA OpenDirectoryDInv == ASSUME DInv, Digest!OpenDirectory PROVE DInv'
<1>1. /\ walk.pc = "start" /\ walk' = [walk EXCEPT !.pc = "list", !.listing = listing] /\ WalkIs
      /\ had' = [f \in Digest!Names |-> {content[f]}]
      /\ UNCHANGED <<names, content, signature, listing, changes>>
  BY DEF Digest!OpenDirectory, Digest!tree, DInv
<1> QED
  BY <1>1 DEF DInv, DigestTyped, HadOK, NamesOK, ChunksOK, WalkIs, Opening

LEMMA ListNamesDInv == ASSUME DInv, Digest!ListNames PROVE DInv'
<1>1. /\ walk.pc = "list" /\ walk' = [walk EXCEPT !.pc = "next", !.todo = names] /\ WalkIs
      /\ UNCHANGED <<names, content, signature, listing, changes, had>>
  BY DEF Digest!ListNames, Digest!tree, DInv
<1> QED
  BY <1>1 DEF DInv, DigestTyped, HadOK, NamesOK, ChunksOK, WalkIs, Opening

LEMMA StatNextDInv == ASSUME DInv, Digest!StatNext PROVE DInv'
<1>1. PICK f \in walk.todo :
          IF f \in names
          THEN walk' = [walk EXCEPT !.pc = "open", !.todo = @ \ {f}, !.file = f,
                                    !.signature = signature[f]]
          ELSE Digest!GiveUp
  BY DEF Digest!StatNext
<1>2. /\ walk.pc = "next" /\ WalkIs
      /\ UNCHANGED <<names, content, signature, listing, changes, had>>
  BY DEF Digest!StatNext, Digest!tree, DInv
<1>3. CASE f \in names
  <2>1. /\ walk'.pc = "open" /\ walk'.todo = walk.todo \ {f} /\ walk'.file = f
        /\ walk'.signature = signature[f] /\ walk'.listing = walk.listing
        /\ walk'.chunks = walk.chunks /\ walk'.entries = walk.entries /\ WalkIs'
    BY <1>1, <1>2, <1>3 DEF WalkIs
  <2> QED
    BY <1>2, <1>3, <2>1 DEF DInv, DigestTyped, HadOK, NamesOK, ChunksOK, Opening
<1>4. CASE f \notin names
  BY <1>1, <1>2, <1>4, GiveUpDInv DEF Digest!tree
<1> QED BY <1>3, <1>4

\* What a read does to the walk, and nothing else.
Reads(pc, chunks) ==
    /\ walk.pc \in Opening /\ pc \in Opening
    /\ walk' = [walk EXCEPT !.pc = pc, !.chunks = chunks]
    /\ UNCHANGED <<names, content, signature, listing, changes, had>>

LEMMA ReadsDInv ==
    ASSUME DInv, NEW pc, NEW chunks \in Chunks, Reads(pc, chunks),
           signature[walk.file] = walk.signature =>
              /\ pc = "read more" => chunks[1] = content[walk.file][1]
              /\ pc = "compare" => chunks = content[walk.file]
    PROVE  DInv'
<1>1. /\ walk'.pc = pc /\ walk'.todo = walk.todo /\ walk'.file = walk.file
      /\ walk'.signature = walk.signature /\ walk'.listing = walk.listing
      /\ walk'.chunks = chunks /\ walk'.entries = walk.entries /\ WalkIs'
  BY DEF Reads, DInv, WalkIs
<1> QED
  BY <1>1 DEF Reads, DInv, DigestTyped, HadOK, NamesOK, ChunksOK, Opening

LEMMA ReadingDInv ==
    ASSUME DInv, Digest!OpenFile \/ Digest!ReadChunk \/ Digest!ReadLastChunk
    PROVE  DInv'
<1> USE DEF Digest!tree
<1>0. /\ UNCHANGED <<names, content, signature, listing, changes, had>>
      /\ walk.pc \in Opening /\ walk.file \in Digest!Names /\ WalkIs
      /\ content[walk.file] \in Chunks /\ walk.chunks \in Chunks
  BY DEF Digest!OpenFile, Digest!ReadChunk, Digest!ReadLastChunk, Opening, DInv, DigestTyped
<1> DEFINE c == content[walk.file]
<1>1. CASE Digest!OpenFile
  <2>1. CASE walk' = [walk EXCEPT !.pc = "read"]
    <3>1. Reads("read", walk.chunks)
      BY <1>0, <2>1 DEF Reads, Opening, WalkIs
    <3> QED BY <1>0, <3>1, ReadsDInv
  <2>2. CASE Digest!GiveUp
    BY <1>0, <2>2, GiveUpDInv DEF Opening
  <2> QED BY <1>1, <2>1, <2>2 DEF Digest!OpenFile
<1>2. CASE Digest!ReadChunk /\ walk.file \in Links
  <2>1. Reads("compare", c)
    BY <1>0, <1>2 DEF Digest!ReadChunk, Reads, Opening
  <2> QED BY <1>0, <2>1, ReadsDInv
<1>3. CASE Digest!ReadChunk /\ walk.file \notin Links
  <2>1. [walk.chunks EXCEPT ![1] = c[1]] \in Chunks
        /\ [walk.chunks EXCEPT ![1] = c[1]][1] = c[1]
    BY <1>0 DEF Chunks
  <2>2. Reads("read more", [walk.chunks EXCEPT ![1] = c[1]])
    BY <1>0, <1>3 DEF Digest!ReadChunk, Reads, Opening, WalkIs
  <2> QED BY <2>1, <2>2, ReadsDInv
<1>4. CASE Digest!ReadLastChunk
  <2>1. /\ [walk.chunks EXCEPT ![2] = c[2]] \in Chunks
        /\ walk.chunks[1] = c[1] => [walk.chunks EXCEPT ![2] = c[2]] = c
    BY <1>0 DEF Chunks
  <2>2. Reads("compare", [walk.chunks EXCEPT ![2] = c[2]]) /\ walk.pc = "read more"
    BY <1>0, <1>4 DEF Digest!ReadLastChunk, Reads, Opening, WalkIs
  <2> QED BY <2>1, <2>2, ReadsDInv DEF DInv, ChunksOK, Opening
<1> QED BY <1>1, <1>2, <1>3, <1>4

LEMMA CompareDInv ==
    ASSUME DInv, Digest!CompareFile \/ Digest!CompareDirectory
    PROVE  DInv'
<1> USE DEF Digest!tree
<1>0. /\ UNCHANGED <<names, content, signature, listing, changes, had>> /\ WalkIs
      /\ walk.pc # "start"
  BY DEF Digest!CompareFile, Digest!CompareDirectory, DInv
<1>1. CASE Digest!CompareFile /\ Digest!Unchanged
  <2> DEFINE new == [f \in DOMAIN walk.entries \cup {walk.file} |->
                        IF f = walk.file THEN walk.chunks ELSE walk.entries[f]]
  <2>1. /\ walk.pc = "compare" /\ walk' = [walk EXCEPT !.pc = "next", !.entries = new]
        /\ walk.file \in Digest!Names /\ walk.chunks = content[walk.file]
    BY <1>1
    DEF Digest!CompareFile, Digest!Unchanged, Digest!Entered, DInv, DigestTyped, ChunksOK, Opening
  <2> HIDE DEF new
  <2>2. /\ walk'.pc = "next" /\ walk'.todo = walk.todo /\ walk'.file = walk.file
        /\ walk'.signature = walk.signature /\ walk'.listing = walk.listing
        /\ walk'.chunks = walk.chunks /\ walk'.entries = new /\ WalkIs'
    BY <1>0, <2>1 DEF WalkIs
  <2>3. /\ DOMAIN new = DOMAIN walk.entries \cup {walk.file}
        /\ \A f \in DOMAIN new :
              new[f] = IF f = walk.file THEN walk.chunks ELSE walk.entries[f]
    BY DEF new
  <2>4. \A f \in DOMAIN new : new[f] \in had[f]
    BY <2>1, <2>3 DEF DInv, HadOK
  <2>5. DigestTyped' /\ HadOK'
    BY <1>0, <2>1, <2>2, <2>3, <2>4 DEF DInv, DigestTyped, HadOK, Opening
  <2>6. NamesOK' /\ ChunksOK'
    BY <1>0, <2>1, <2>2, <2>3 DEF DInv, NamesOK, ChunksOK, Opening
  <2> QED BY <2>2, <2>5, <2>6 DEF DInv
<1>2. CASE walk' = [walk EXCEPT !.pc = "done"]
  BY <1>0, <1>2 DEF DInv, DigestTyped, HadOK, NamesOK, ChunksOK, WalkIs, Opening
<1>3. CASE Digest!GiveUp
  BY <1>0, <1>3, GiveUpDInv
<1> QED BY <1>1, <1>2, <1>3 DEF Digest!CompareFile, Digest!CompareDirectory

\* Who changes a file gives it a signature that no walk has seen.
LEMMA ChangeDInv ==
    ASSUME DInv, changes' = changes + 1, UNCHANGED walk,
           content' \in [Digest!Names -> Chunks], signature' \in [Digest!Names -> 0..changes'],
           names' \subseteq Digest!Names, listing' \in {listing, changes'},
           names' # names => listing' = changes',
           \A g \in Digest!Names : content'[g] # content[g] => signature'[g] = changes',
           \A g \in Digest!Names : signature'[g] \in {signature[g], changes'},
           had' \in [Digest!Names -> SUBSET Chunks],
           \A g \in Digest!Names :
              had[g] \subseteq had'[g] /\ (content'[g] # content[g] => content'[g] \in had'[g])
    PROVE  DInv'
<1>1. DigestTyped'
  BY DEF DInv, DigestTyped
<1>2. HadOK'
  BY DEF DInv, DigestTyped, HadOK
<1>3. NamesOK'
  <2>1. walk.listing \in 0..changes /\ changes \in Nat
    BY DEF DInv, DigestTyped
  <2>2. listing' = walk.listing => listing' = listing /\ names' = names
    BY <2>1
  <2> QED BY <2>2 DEF DInv, NamesOK
<1>4. ChunksOK'
  <2> SUFFICES ASSUME walk.pc \in Opening, signature'[walk.file] = walk.signature
               PROVE  content'[walk.file] = content[walk.file]
                      /\ signature[walk.file] = walk.signature
    BY DEF DInv, ChunksOK
  <2>1. walk.file \in Digest!Names /\ walk.signature \in 0..changes /\ changes \in Nat
    BY DEF DInv, DigestTyped
  <2> QED BY <2>1
<1> QED BY <1>1, <1>2, <1>3, <1>4 DEF DInv, WalkIs

LEMMA OthersDInv ==
    ASSUME DInv, NEW f \in Digest!Names,
           Digest!WriteChunk(f, 1) \/ Digest!WriteChunk(f, 2) \/ Digest!Put(f) \/ Digest!Remove(f)
    PROVE  DInv'
<1>0. DigestTyped /\ changes' = changes + 1 /\ changes' \in Nat /\ changes \in Nat
  BY DEF DInv, DigestTyped, Digest!WriteChunk, Digest!Put, Digest!Remove, Digest!Change
<1>1. ASSUME NEW i \in 1..2, Digest!WriteChunk(f, i) PROVE DInv'
  <2> DEFINE c == [content[f] EXCEPT ![i] = changes']
  <2>1. c \in Chunks
    BY <1>0 DEF DigestTyped, Chunks
  <2> HIDE DEF c
  <2>2. /\ content' = [content EXCEPT ![f] = c] /\ signature' = [signature EXCEPT ![f] = changes']
        /\ had' = [had EXCEPT ![f] = @ \cup {content'[f]}] /\ UNCHANGED <<names, listing, walk>>
    BY <1>0, <1>1 DEF DigestTyped, Digest!WriteChunk, c
  <2> QED BY <1>0, <2>1, <2>2, ChangeDInv DEF DigestTyped
<1>2. CASE Digest!Put(f)
  <2>1. <<changes', changes'>> \in Chunks
    BY <1>0, ChunksFacts
  <2>2. /\ names' = names \cup {f} /\ listing' = changes'
        /\ content' = [content EXCEPT ![f] = <<changes', changes'>>]
        /\ signature' = [signature EXCEPT ![f] = changes']
        /\ had' = [had EXCEPT ![f] = @ \cup {content'[f]}] /\ UNCHANGED walk
    BY <1>2 DEF Digest!Put
  <2> QED BY <1>0, <2>1, <2>2, ChangeDInv DEF DigestTyped
<1>3. CASE Digest!Remove(f)
  BY <1>0, <1>3, ChangeDInv DEF DigestTyped, Digest!Remove
<1> QED BY <1>1, <1>2, <1>3

LEMMA DigestNextDInv == ASSUME DInv, [Digest!Next]_(Digest!vars) PROVE DInv'
<1>1. CASE UNCHANGED Digest!vars
  BY <1>1
  DEF Digest!vars, Digest!tree, DInv, DigestTyped, HadOK, NamesOK, ChunksOK, WalkIs
<1> QED
  BY <1>1, OpenDirectoryDInv, ListNamesDInv, StatNextDInv, ReadingDInv, CompareDInv, OthersDInv
  DEF Digest!Next

(* A digest has exactly the names that are there when it is returned, and  *)
(* for each a content that the file had as a whole during the walk: the    *)
(* comparisons of what stat says before and after are enough.              *)
THEOREM DigestsAreOfTheTree == Digest!Spec => DigestIsOfTheTree
<1>1. ASSUME DInv, [Digest!Next]_(Digest!vars), walk.pc # "done", walk'.pc = "done"
      PROVE  DOMAIN walk.entries = names /\ \A f \in names : walk.entries[f] \in had[f]
  <2>1. walk.pc = "next" /\ walk.todo = {} /\ listing = walk.listing
    BY <1>1
    DEF DInv, WalkIs, Digest!Next, Digest!vars, Digest!OpenDirectory, Digest!ListNames,
        Digest!StatNext, Digest!OpenFile, Digest!ReadChunk, Digest!ReadLastChunk,
        Digest!CompareFile, Digest!CompareDirectory, Digest!GiveUp, Digest!Entered,
        Digest!WriteChunk, Digest!Put, Digest!Remove
  <2> QED BY <1>1, <2>1 DEF DInv, HadOK, NamesOK, Opening
<1> QED
  BY <1>1, InitDInv, DigestNextDInv, PTL
  DEF Digest!Spec, DigestIsOfTheTree, Digest!DigestIsOfTheTree

----------------------------------------------------------------------------
(* The parsing of a document                                               *)

LEMMA LeastExists ==
    ASSUME NEW T \in SUBSET Nat, T # {}
    PROVE  \E least \in T : \A k \in T : least <= k
<1>1. PICK least \in T : \A k \in T : ~(<<k, least>> \in OpToRel(<, Nat))
  BY NatLessThanWellFounded, WFMin
<1>2. \A k \in T : ~(k < least)
  BY <1>1 DEF OpToRel
<1> QED BY <1>2

\* What holds of 0, and of k if of k - 1, holds up to n.
LEMMA UpTo ==
    ASSUME NEW n \in Nat, NEW S, 0 \in S, \A k \in 1..n : k - 1 \in S => k \in S
    PROVE  0..n \subseteq S
<1> DEFINE T == {k \in 0..n : k \notin S}
<1>1. SUFFICES ASSUME T # {} PROVE FALSE
  OBVIOUS
<1>2. T \in SUBSET Nat
  OBVIOUS
<1> HIDE DEF T
<1>3. PICK least \in T : \A k \in T : least <= k
  BY <1>1, <1>2, LeastExists
<1> USE DEF T
<1>4. least \in 1..n /\ least - 1 \in 0..n /\ least - 1 < least
  BY <1>3
<1>5. least - 1 \in S
  BY <1>3, <1>4
<1> QED BY <1>3, <1>4, <1>5

\* The function that Parse takes the last value of.
ParseUpTo(doc) ==
    CHOOSE upto : upto = [n \in 0..Len(doc) |->
        IF n = 0 THEN Gates!NewParse
        ELSE IF upto[n - 1].failed THEN upto[n - 1]
        ELSE Gates!ParseLine(doc, upto[n - 1], n)]

LEMMA ParseExists ==
    ASSUME NEW doc, Len(doc) \in Nat
    PROVE  /\ LET p == ParseUpTo(doc)[Len(doc)]
              IN  Gates!Parse(doc) = [p EXCEPT !.failed = @ \/ p.opening # 0]
           /\ ParseUpTo(doc)[0] = Gates!NewParse
           /\ \A n \in 1..Len(doc) :
                 ParseUpTo(doc)[n] = IF ParseUpTo(doc)[n - 1].failed THEN ParseUpTo(doc)[n - 1]
                                     ELSE Gates!ParseLine(doc, ParseUpTo(doc)[n - 1], n)
<1> DEFINE After(p, n) == IF p.failed THEN p ELSE Gates!ParseLine(doc, p, n)
<1> DEFINE Is(u, n) == u = [m \in 0..n |-> IF m = 0 THEN Gates!NewParse ELSE After(u[m - 1], m)]
<1> DEFINE S == {n \in 0..Len(doc) : \E u : Is(u, n)}
<1>1. ParseUpTo(doc) = CHOOSE u : Is(u, Len(doc))
  BY DEF ParseUpTo
<1>2. LET p == ParseUpTo(doc)[Len(doc)]
      IN  Gates!Parse(doc) = [p EXCEPT !.failed = @ \/ p.opening # 0]
  BY DEF Gates!Parse, ParseUpTo
<1> HIDE DEF After
<1>3. Is([m \in 0..0 |-> Gates!NewParse], 0)
  OBVIOUS
<1>4. ASSUME NEW n \in 1..Len(doc), NEW u, Is(u, n - 1)
      PROVE  Is([m \in 0..n |-> IF m = n THEN After(u[n - 1], n) ELSE u[m]], n)
  <2> DEFINE v == [m \in 0..n |-> IF m = n THEN After(u[n - 1], n) ELSE u[m]]
  <2>1. \A m \in 0..n : v[m] = IF m = 0 THEN Gates!NewParse ELSE After(v[m - 1], m)
    <3> SUFFICES ASSUME NEW m \in 0..n
                 PROVE  v[m] = IF m = 0 THEN Gates!NewParse ELSE After(v[m - 1], m)
      OBVIOUS
    <3>1. CASE m = n
      BY <3>1
    <3>2. CASE m = 0
      BY <3>2, <1>4
    <3>3. CASE m \in 1..(n - 1)
      <4>1. m \in 0..(n - 1) /\ m - 1 \in 0..n /\ m - 1 # n /\ m # n
        BY <3>3
      <4>2. v[m] = u[m] /\ v[m - 1] = u[m - 1]
        BY <4>1
      <4>3. u[m] = After(u[m - 1], m)
        BY <4>1, <3>3, <1>4
      <4> QED BY <4>2, <4>3, <3>3
    <3> QED BY <3>1, <3>2, <3>3
  <2>2. v = [m \in 0..n |-> v[m]]
    OBVIOUS
  <2> HIDE DEF v
  <2>3. Is(v, n)
    BY <2>1, <2>2
  <2> QED BY <2>3 DEF v
<1> HIDE DEF Is
<1>5. 0 \in S
  BY <1>3
<1>6. ASSUME NEW n \in 1..Len(doc), n - 1 \in S PROVE n \in S
  <2>1. PICK u : Is(u, n - 1)
    BY <1>6
  <2>2. \E v : Is(v, n)
    BY <2>1, <1>4
  <2> QED BY <2>2
<1>7. \E u : Is(u, Len(doc))
  <2>1. 0..Len(doc) \subseteq S
    <3> HIDE DEF S
    <3> QED BY <1>5, <1>6, UpTo
  <2> QED BY <2>1
<1>8. Is(ParseUpTo(doc), Len(doc))
  BY <1>1, <1>7
<1> USE DEF Is
<1>9. \A n \in 0..Len(doc) :
         ParseUpTo(doc)[n] = IF n = 0 THEN Gates!NewParse ELSE After(ParseUpTo(doc)[n - 1], n)
  BY <1>8
<1> USE DEF After
<1> QED BY <1>2, <1>9

LEMMA SameCardinality == \A S : Gates!Cardinality(S) = Cardinality(S)
BY DEF Gates!Cardinality, Cardinality

\* Of the fences before a line, and before the next.
LEMMA BeforeFacts ==
    ASSUME NEW doc, NEW n \in Nat \ {0}
    PROVE  /\ Gates!Before(doc, n) \in Nat /\ Gates!Before(doc, 1) = 0
           /\ Gates!Before(doc, n + 1)
                 = IF doc[n] \in Gates!Fences THEN Gates!Before(doc, n) + 1
                   ELSE Gates!Before(doc, n)
<1> DEFINE F(k) == {m \in 1..(k - 1) : doc[m] \in Gates!Fences}
<1>1. ASSUME NEW k \in Nat \ {0}
      PROVE  Gates!Before(doc, k) = Cardinality(F(k)) /\ IsFiniteSet(F(k)) /\ Cardinality(F(k)) \in Nat
  <2>1. Gates!Before(doc, k) = Cardinality(F(k))
    BY SameCardinality DEF Gates!Before
  <2>2. k - 1 \in Int /\ 1 \in Int
    OBVIOUS
  <2>3. IsFiniteSet(1..(k - 1))
    BY <2>2, FS_Interval
  <2>4. IsFiniteSet(F(k))
    BY <2>3, FS_Subset
  <2> QED BY <2>1, <2>4, FS_CardinalityType
<1>2. F(n + 1) = IF doc[n] \in Gates!Fences THEN F(n) \cup {n} ELSE F(n)
  OBVIOUS
<1>3. n \notin F(n) /\ F(1) = {}
  OBVIOUS
<1>4. Gates!Before(doc, 1) = 0
  BY <1>1, <1>3, FS_EmptySet
<1>5. n + 1 \in Nat \ {0}
  OBVIOUS
<1> HIDE DEF F
<1>6. Cardinality(F(n) \cup {n}) = Cardinality(F(n)) + 1
  BY <1>1, <1>3, FS_AddElement
<1> QED BY <1>1, <1>2, <1>4, <1>5, <1>6

IsParse(p) ==
    /\ p = [opening |-> p.opening, outside |-> p.outside, blocks |-> p.blocks,
            failed |-> p.failed]
    /\ p.failed \in BOOLEAN

\* What one line makes of a parse that has not failed.
LEMMA ParseLineFacts ==
    ASSUME NEW doc, NEW p, NEW n, IsParse(p), ~p.failed,
           NEW q, q = Gates!ParseLine(doc, p, n)
    PROVE  /\ IsParse(q)
           /\ p.opening = 0 /\ doc[n] \notin Gates!Fences
                 => /\ q.opening = p.opening /\ q.outside = p.outside \cup {n}
                    /\ q.blocks = p.blocks /\ ~q.failed
           /\ p.opening = 0 /\ doc[n] \in Gates!Fences
                 => /\ q.opening = n /\ q.outside = p.outside
                    /\ q.blocks = p.blocks /\ ~q.failed
           /\ p.opening # 0 /\ doc[n] = "fence"
                 => /\ q.opening = 0 /\ q.outside = p.outside /\ ~q.failed
                    /\ q.blocks = p.blocks \cup
                          {[opening |-> p.opening, closing |-> n,
                            content |-> SubSeq(doc, p.opening + 1, n - 1)]}
           /\ p.opening # 0 /\ doc[n] \in Gates!Fences \ {"fence"} => q.failed
           /\ p.opening # 0 /\ doc[n] \notin Gates!Fences => q = p
<1> DEFINE b == [opening |-> p.opening, closing |-> n,
                 content |-> SubSeq(doc, p.opening + 1, n - 1)]
<1>0. "fence" \in Gates!Fences
  BY DEF Gates!Fences
<1>1. CASE p.opening = 0 /\ doc[n] \notin Gates!Fences
  <2>1. q = [p EXCEPT !.outside = @ \cup {n}]
    BY <1>1 DEF Gates!ParseLine
  <2>2. q = [opening |-> p.opening, outside |-> p.outside \cup {n}, blocks |-> p.blocks,
             failed |-> p.failed]
    BY <2>1 DEF IsParse
  <2> QED BY <1>1, <2>2 DEF IsParse
<1>2. CASE p.opening = 0 /\ doc[n] \in Gates!Fences
  <2>1. q = [p EXCEPT !.opening = n]
    BY <1>2 DEF Gates!ParseLine
  <2>2. q = [opening |-> n, outside |-> p.outside, blocks |-> p.blocks, failed |-> p.failed]
    BY <2>1 DEF IsParse
  <2> QED BY <1>2, <2>2 DEF IsParse
<1>3. CASE p.opening # 0 /\ doc[n] = "fence"
  <2>1. q = [p EXCEPT !.blocks = @ \cup {b}, !.opening = 0]
    BY <1>0, <1>3 DEF Gates!ParseLine, Gates!Closed
  <2> HIDE DEF b
  <2>2. q = [opening |-> 0, outside |-> p.outside, blocks |-> p.blocks \cup {b},
             failed |-> p.failed]
    BY <2>1 DEF IsParse
  <2>3. /\ IsParse(q) /\ q.opening = 0 /\ q.outside = p.outside /\ ~q.failed
        /\ q.blocks = p.blocks \cup {b}
    BY <2>2 DEF IsParse
  <2> QED BY <1>0, <1>3, <2>3 DEF b
<1>4. CASE p.opening # 0 /\ doc[n] \in Gates!Fences \ {"fence"}
  <2>1. q = [p EXCEPT !.failed = TRUE]
    BY <1>4 DEF Gates!ParseLine
  <2>2. q = [opening |-> p.opening, outside |-> p.outside, blocks |-> p.blocks, failed |-> TRUE]
    BY <2>1 DEF IsParse
  <2> QED BY <1>4, <2>2 DEF IsParse
<1>5. CASE p.opening # 0 /\ doc[n] \notin Gates!Fences
  <2>1. q = p
    BY <1>0, <1>5 DEF Gates!ParseLine
  <2> QED BY <1>0, <1>5, <2>1
<1> QED BY <1>1, <1>2, <1>3, <1>4, <1>5

\* A block that ends by line n, as the reader sees it.
BlockOK(doc, b, n) ==
    /\ b.opening \in 1..n /\ b.closing \in (b.opening + 1)..n
    /\ Gates!Opens(doc, b.opening) /\ doc[b.closing] = "fence"
    /\ \A k \in (b.opening + 1)..(b.closing - 1) : doc[k] \notin Gates!Fences
    /\ b.content = SubSeq(doc, b.opening + 1, b.closing - 1)

Bare(doc, n) ==
    \A m \in 1..n : doc[m] \in Gates!Fences => Gates!Opens(doc, m) \/ doc[m] = "fence"

OpenOK(doc, p, n) ==
    IF p.opening = 0 THEN Gates!Before(doc, n + 1) % 2 = 0
    ELSE /\ Gates!Before(doc, n + 1) % 2 # 0
         /\ p.opening \in 1..n /\ Gates!Opens(doc, p.opening)
         /\ \A k \in (p.opening + 1)..n : doc[k] \notin Gates!Fences

\* What has been read after line n.
ParsedTo(doc, p, n) ==
    /\ p.outside = {m \in 1..n : Gates!Prose(doc, m)}
    /\ \A b \in p.blocks : BlockOK(doc, b, n)
    /\ {b.opening : b \in p.blocks} = {m \in 1..n : Gates!Opens(doc, m)} \ {p.opening}

LEMMA LineIsParsed ==
    ASSUME NEW doc, NEW n \in Nat \ {0}, NEW p, IsParse(p), ~p.failed,
           NEW q, q = Gates!ParseLine(doc, p, n),
           Bare(doc, n - 1), OpenOK(doc, p, n - 1), ParsedTo(doc, p, n - 1)
    PROVE  /\ q.failed => ~Bare(doc, n)
           /\ ~q.failed => Bare(doc, n) /\ OpenOK(doc, q, n) /\ ParsedTo(doc, q, n)
<1> DEFINE before == Gates!Before(doc, n)
<1>1. /\ before \in Nat /\ (n - 1) + 1 = n /\ n - 1 \in Nat
      /\ Gates!Before(doc, n + 1) = IF doc[n] \in Gates!Fences THEN before + 1 ELSE before
  BY BeforeFacts
<1>2. /\ 1..n = 1..(n - 1) \cup {n} /\ n \notin 1..(n - 1) /\ n # 0
  OBVIOUS
<1>3. /\ Gates!Opens(doc, n) <=> doc[n] \in Gates!Fences /\ before % 2 = 0
      /\ Gates!Prose(doc, n) <=> doc[n] \notin Gates!Fences /\ before % 2 = 0
  BY DEF Gates!Opens, Gates!Prose
<1>4. p.opening = 0 <=> before % 2 = 0
  BY <1>1 DEF OpenOK
<1>5. (before + 1) % 2 = 0 <=> before % 2 # 0
  BY <1>1
<1>6. \A b : BlockOK(doc, b, n - 1) => BlockOK(doc, b, n)
  BY DEF BlockOK
<1>7. "fence" \in Gates!Fences
  BY DEF Gates!Fences
<1>8. /\ {m \in 1..n : Gates!Prose(doc, m)} = IF Gates!Prose(doc, n) THEN p.outside \cup {n}
                                              ELSE p.outside
      /\ {m \in 1..n : Gates!Opens(doc, m)}
            = IF Gates!Opens(doc, n) THEN {m \in 1..(n - 1) : Gates!Opens(doc, m)} \cup {n}
              ELSE {m \in 1..(n - 1) : Gates!Opens(doc, m)}
  BY <1>2 DEF ParsedTo
<1>9. Bare(doc, n) <=> (doc[n] \in Gates!Fences => Gates!Opens(doc, n) \/ doc[n] = "fence")
  BY <1>2 DEF Bare
<1> HIDE DEF before
<1>10. CASE p.opening = 0 /\ doc[n] \notin Gates!Fences
  <2>1. /\ q.opening = 0 /\ q.outside = p.outside \cup {n} /\ q.blocks = p.blocks /\ ~q.failed
    BY <1>10, ParseLineFacts
  <2>2. OpenOK(doc, q, n)
    BY <2>1, <1>1, <1>4, <1>10 DEF OpenOK
  <2>3. ParsedTo(doc, q, n)
    <3>1. q.outside = {m \in 1..n : Gates!Prose(doc, m)}
      BY <1>3, <1>4, <1>8, <1>10, <2>1
    <3>2. {m \in 1..n : Gates!Opens(doc, m)} = {m \in 1..(n - 1) : Gates!Opens(doc, m)}
      BY <1>3, <1>8, <1>10
    <3> QED BY <3>1, <3>2, <1>6, <1>10, <2>1 DEF ParsedTo
  <2> QED BY <2>1, <2>2, <2>3, <1>9, <1>10
<1>11. CASE p.opening = 0 /\ doc[n] \in Gates!Fences
  <2>1. /\ q.opening = n /\ q.outside = p.outside /\ q.blocks = p.blocks /\ ~q.failed
    BY <1>11, ParseLineFacts
  <2>2. Gates!Opens(doc, n) /\ ~Gates!Prose(doc, n)
    BY <1>3, <1>4, <1>11
  <2>3. OpenOK(doc, q, n)
    <3>1. Gates!Before(doc, n + 1) % 2 # 0
      BY <1>1, <1>4, <1>5, <1>11
    <3> QED BY <3>1, <2>1, <2>2, <1>2 DEF OpenOK
  <2>4. ParsedTo(doc, q, n)
    <3>1. q.outside = {m \in 1..n : Gates!Prose(doc, m)}
      BY <1>8, <2>1, <2>2
    <3>2. {m \in 1..n : Gates!Opens(doc, m)} \ {n} = {m \in 1..(n - 1) : Gates!Opens(doc, m)} \ {0}
      BY <1>2, <1>8, <2>2
    <3> QED BY <3>1, <3>2, <1>6, <1>11, <2>1 DEF ParsedTo
  <2> QED BY <2>1, <2>2, <2>3, <2>4, <1>9
<1>12. CASE p.opening # 0 /\ doc[n] = "fence"
  <2> DEFINE b == [opening |-> p.opening, closing |-> n,
                   content |-> SubSeq(doc, p.opening + 1, n - 1)]
  <2>1. /\ q.opening = 0 /\ q.outside = p.outside /\ ~q.failed
        /\ q.blocks = p.blocks \cup {b}
    BY <1>12, ParseLineFacts
  <2>2. /\ p.opening \in 1..(n - 1) /\ Gates!Opens(doc, p.opening)
        /\ \A k \in (p.opening + 1)..(n - 1) : doc[k] \notin Gates!Fences
    BY <1>12 DEF OpenOK
  <2>3. ~Gates!Opens(doc, n) /\ ~Gates!Prose(doc, n)
    BY <1>3, <1>4, <1>12
  <2>4. OpenOK(doc, q, n)
    BY <2>1, <1>1, <1>4, <1>5, <1>7, <1>12 DEF OpenOK
  <2>5. BlockOK(doc, b, n)
    BY <2>2, <1>12, SMTT(20) DEF BlockOK
  <2>6. ParsedTo(doc, q, n)
    <3>1. q.outside = {m \in 1..n : Gates!Prose(doc, m)}
      BY <1>8, <2>1, <2>3
    <3>2. {c.opening : c \in q.blocks} = {c.opening : c \in p.blocks} \cup {p.opening}
      <4>1. b.opening = p.opening
        OBVIOUS
      <4> HIDE DEF b
      <4> QED BY <4>1, <2>1
    <3>3. {m \in 1..n : Gates!Opens(doc, m)} = {m \in 1..(n - 1) : Gates!Opens(doc, m)}
      BY <1>8, <2>3
    <3>4. {c.opening : c \in q.blocks} = {m \in 1..n : Gates!Opens(doc, m)} \ {q.opening}
      <4>1. {c.opening : c \in p.blocks}
               = {m \in 1..(n - 1) : Gates!Opens(doc, m)} \ {p.opening}
        BY DEF ParsedTo
      <4>2. p.opening \in {m \in 1..(n - 1) : Gates!Opens(doc, m)} /\ 0 \notin 1..(n - 1)
        BY <2>2
      <4> HIDE DEF b
      <4> QED BY <3>2, <3>3, <4>1, <4>2, <2>1
    <3>5. \A c \in q.blocks : BlockOK(doc, c, n)
      <4> HIDE DEF b
      <4> QED BY <1>6, <2>1, <2>5 DEF ParsedTo
    <3> QED BY <3>1, <3>4, <3>5 DEF ParsedTo
  <2> QED BY <2>1, <2>4, <2>6, <1>9, <1>12
<1>13. CASE p.opening # 0 /\ doc[n] \in Gates!Fences \ {"fence"}
  <2>1. q.failed
    BY <1>13, ParseLineFacts
  <2> QED BY <2>1, <1>3, <1>4, <1>9, <1>13
<1>14. CASE p.opening # 0 /\ doc[n] \notin Gates!Fences
  <2>1. q = p
    BY <1>14, ParseLineFacts
  <2>2. ~Gates!Opens(doc, n) /\ ~Gates!Prose(doc, n)
    BY <1>3, <1>4, <1>14
  <2>3. OpenOK(doc, p, n)
    <3>1. /\ p.opening \in 1..(n - 1) /\ Gates!Opens(doc, p.opening)
          /\ \A k \in (p.opening + 1)..(n - 1) : doc[k] \notin Gates!Fences
      BY <1>14 DEF OpenOK
    <3>2. p.opening \in 1..n /\ \A k \in (p.opening + 1)..n : doc[k] \notin Gates!Fences
      BY <3>1, <1>14
    <3> QED BY <3>1, <3>2, <1>1, <1>4, <1>14 DEF OpenOK
  <2>4. ParsedTo(doc, p, n)
    <3>1. p.outside = {m \in 1..n : Gates!Prose(doc, m)}
      BY <1>8, <2>2
    <3>2. {m \in 1..n : Gates!Opens(doc, m)} = {m \in 1..(n - 1) : Gates!Opens(doc, m)}
      BY <1>8, <2>2
    <3> QED BY <3>1, <3>2, <1>6 DEF ParsedTo
  <2> QED BY <2>1, <2>3, <2>4, <1>9, <1>14
<1> QED BY <1>7, <1>10, <1>11, <1>12, <1>13, <1>14

\* A parse fails just when the document is not well formed, and of one that is
\* well formed it has the prose and the blocks.
LEMMA ParseIsExact ==
    ASSUME NEW doc, Len(doc) \in Nat, DOMAIN doc = 1..Len(doc), NEW q, q = Gates!Parse(doc)
    PROVE  /\ q.failed <=> ~Gates!WellFormed(doc)
           /\ Gates!WellFormed(doc) => q.opening = 0 /\ ParsedTo(doc, q, Len(doc))
<1> DEFINE L == Len(doc)
           P(n) == ParseUpTo(doc)[n]
           State(n) == /\ IsParse(P(n))
                       /\ P(n).failed => ~Bare(doc, L)
                       /\ ~P(n).failed => /\ Bare(doc, n) /\ OpenOK(doc, P(n), n)
                                          /\ ParsedTo(doc, P(n), n)
           S == {n \in 0..L : State(n)}
<1>1. /\ L \in Nat /\ P(0) = Gates!NewParse
      /\ \A n \in 1..L : P(n) = IF P(n - 1).failed THEN P(n - 1)
                                ELSE Gates!ParseLine(doc, P(n - 1), n)
      /\ q = [P(L) EXCEPT !.failed = @ \/ P(L).opening # 0]
  <2>1. L \in Nat /\ P(0) = Gates!NewParse /\ q = [P(L) EXCEPT !.failed = @ \/ P(L).opening # 0]
    BY ParseExists
  <2>2. \A n \in 1..L : P(n) = IF P(n - 1).failed THEN P(n - 1)
                                ELSE Gates!ParseLine(doc, P(n - 1), n)
    BY ParseExists
  <2> HIDE DEF P, L
  <2> QED BY <2>1, <2>2
<1> HIDE DEF P, L
<1>2. State(0)
  <2>1. /\ IsParse(P(0)) /\ ~P(0).failed /\ P(0).opening = 0
        /\ P(0).outside = {} /\ P(0).blocks = {}
    <3> DEFINE p == P(0)
    <3>1. p = [opening |-> 0, outside |-> {}, blocks |-> {}, failed |-> FALSE]
      BY <1>1 DEF Gates!NewParse
    <3> HIDE DEF p
    <3>2. p.opening = 0 /\ p.outside = {} /\ p.blocks = {} /\ p.failed = FALSE
      BY <3>1
    <3>3. IsParse(p)
      BY <3>1, <3>2 DEF IsParse
    <3> QED BY <3>2, <3>3 DEF p
  <2>2. Bare(doc, 0)
    BY DEF Bare
  <2>3. OpenOK(doc, P(0), 0)
    <3>1. Gates!Before(doc, 1) = 0
      <4>1. 1 \in Nat \ {0}
        OBVIOUS
      <4> QED BY <4>1, BeforeFacts
    <3> QED BY <3>1, <2>1 DEF OpenOK
  <2>4. ParsedTo(doc, P(0), 0)
    BY <2>1 DEF ParsedTo
  <2> QED BY <2>1, <2>2, <2>3, <2>4
<1>3. ASSUME NEW n \in 1..L, State(n - 1) PROVE State(n)
  <2>0. n \in Nat \ {0} /\ n <= L
    BY <1>1
  <2>1. CASE P(n - 1).failed
    BY <1>1, <1>3, <2>1
  <2>2. CASE ~P(n - 1).failed
    <3>1. P(n) = Gates!ParseLine(doc, P(n - 1), n)
      BY <1>1, <2>2
    <3>2. /\ IsParse(P(n - 1)) /\ Bare(doc, n - 1) /\ OpenOK(doc, P(n - 1), n - 1)
          /\ ParsedTo(doc, P(n - 1), n - 1)
      BY <1>3, <2>2
    <3>3. IsParse(P(n))
      BY <2>2, <3>1, <3>2, ParseLineFacts
    <3>4. /\ P(n).failed => ~Bare(doc, n)
          /\ ~P(n).failed => Bare(doc, n) /\ OpenOK(doc, P(n), n) /\ ParsedTo(doc, P(n), n)
      BY <2>0, <2>2, <3>1, <3>2, LineIsParsed
    <3>5. ~Bare(doc, n) => ~Bare(doc, L)
      BY <1>1, <2>0 DEF Bare
    <3> QED BY <3>3, <3>4, <3>5
  <2> QED BY <2>1, <2>2
<1>4. State(L)
  <2> HIDE DEF State
  <2>1. 0 \in S
    BY <1>1, <1>2
  <2>2. \A n \in 1..L : n - 1 \in S => n \in S
    BY <1>1, <1>3
  <2>3. 0..L \subseteq S
    <3> HIDE DEF S
    <3> QED BY <1>1, <2>1, <2>2, UpTo
  <2> QED BY <1>1, <2>3
<1>5. /\ q.failed <=> P(L).failed \/ P(L).opening # 0
      /\ q.opening = P(L).opening /\ q.outside = P(L).outside /\ q.blocks = P(L).blocks
  <2> DEFINE p == P(L)
             failed == P(L).failed \/ P(L).opening # 0
  <2>1. q = [p EXCEPT !.failed = failed]
    BY <1>1
  <2>2. p = [opening |-> p.opening, outside |-> p.outside, blocks |-> p.blocks,
             failed |-> p.failed]
    BY <1>4 DEF IsParse
  <2> HIDE DEF p, failed
  <2>3. q = [opening |-> p.opening, outside |-> p.outside, blocks |-> p.blocks, failed |-> failed]
    BY <2>1, <2>2
  <2>4. q.failed <=> failed
    BY <2>3
  <2>5. q.opening = p.opening /\ q.outside = p.outside /\ q.blocks = p.blocks
    BY <2>3
  <2> USE DEF p, failed
  <2> QED BY <2>4, <2>5
<1>6. Gates!WellFormed(doc) <=> Gates!Before(doc, L + 1) % 2 = 0 /\ Bare(doc, L)
  BY DEF Gates!WellFormed, Bare, L
<1>7. q.failed <=> ~Gates!WellFormed(doc)
  BY <1>4, <1>5, <1>6 DEF OpenOK
<1>8. Gates!WellFormed(doc) => q.opening = 0 /\ ParsedTo(doc, q, L)
  BY <1>4, <1>5, <1>7 DEF ParsedTo
<1> QED BY <1>7, <1>8 DEF L

LEMMA OneElement ==
    ASSUME NEW n \in Nat, NEW S \in SUBSET (1..n)
    PROVE  /\ Cardinality(S) \in Nat
           /\ Cardinality(S) = 1 <=> \E m \in S : S = {m}
           /\ Cardinality(S) = 0 <=> S = {}
<1>1. IsFiniteSet(S)
  <2>1. 1 \in Int /\ n \in Int
    OBVIOUS
  <2>2. IsFiniteSet(1..n)
    BY <2>1, FS_Interval
  <2> QED BY <2>2, FS_Subset
<1>2. Cardinality(S) \in Nat /\ (Cardinality(S) = 0 <=> S = {})
  BY <1>1, FS_CardinalityType, FS_EmptySet
<1>3. Cardinality(S) = 1 <=> \E m \in S : S = {m}
  BY <1>1, FS_Singleton
<1> QED BY <1>2, <1>3

ProseLines(doc) == {m \in 1..Len(doc) : Gates!Prose(doc, m)}

LEMMA ConclusionIsRead ==
    ASSUME NEW doc, Len(doc) \in Nat, DOMAIN doc = 1..Len(doc), NEW q,
           q.outside = ProseLines(doc)
    PROVE  Gates!Concludes(doc, q) <=> Gates!OneConclusion(doc)
<1> USE DEF ProseLines
<1> DEFINE lines == {n \in q.outside : doc[n] \in Gates!Conclusions}
<1>0. "conclusion" \in Gates!Conclusions
  BY DEF Gates!Conclusions
<1>1. Gates!Concludes(doc, q) <=> Cardinality(lines) = 1 /\ \A n \in lines : doc[n] = "conclusion"
  BY SameCardinality DEF Gates!Concludes
<1>2. Cardinality(lines) = 1 <=> \E m \in lines : lines = {m}
  <2>1. lines \in SUBSET (1..Len(doc))
    OBVIOUS
  <2> HIDE DEF lines
  <2> QED BY <2>1, OneElement
<1>3. ASSUME NEW m \in lines, lines = {m}, doc[m] = "conclusion"
      PROVE  Gates!OneConclusion(doc)
  <2>1. m \in DOMAIN doc /\ Gates!Prose(doc, m)
    BY <1>3
  <2>2. \A k \in DOMAIN doc \ {m} : Gates!Prose(doc, k) => doc[k] \notin Gates!Conclusions
    BY <1>3
  <2> QED BY <1>3, <2>1, <2>2 DEF Gates!OneConclusion
<1>4. ASSUME Gates!OneConclusion(doc)
      PROVE  \E m \in lines : lines = {m} /\ doc[m] = "conclusion"
  <2>1. PICK n \in DOMAIN doc :
            /\ Gates!Prose(doc, n) /\ doc[n] = "conclusion"
            /\ \A m \in DOMAIN doc \ {n} : Gates!Prose(doc, m) => doc[m] \notin Gates!Conclusions
    BY <1>4 DEF Gates!OneConclusion
  <2>2. n \in lines
    BY <1>0, <2>1
  <2>3. \A m \in lines : m = n
    BY <2>1
  <2> HIDE DEF lines
  <2> QED BY <2>1, <2>2, <2>3
<1> HIDE DEF lines
<1> QED BY <1>1, <1>2, <1>3, <1>4

\* NotBlank is the only line that has nothing but blank ones before it.
LEMMA NotBlankFacts ==
    ASSUME NEW doc, Len(doc) \in Nat, DOMAIN doc = 1..Len(doc), NEW n \in 1..(Len(doc) + 1)
    PROVE  /\ Gates!NotBlank(doc, n) \in n..(Len(doc) + 1)
           /\ Gates!Blank(doc, n..(Gates!NotBlank(doc, n) - 1))
           /\ \A j \in n..(Len(doc) + 1) :
                 /\ j \in 1..Len(doc) => doc[j] # "blank"
                 /\ Gates!Blank(doc, n..(j - 1))
                 => j = Gates!NotBlank(doc, n)
<1> DEFINE L == Len(doc)
           m == Gates!NotBlank(doc, n)
           Is(j) == /\ j \in n..(L + 1)
                    /\ j \in 1..L => doc[j] # "blank"
                    /\ \A k \in n..(j - 1) : doc[k] = "blank"
           T == {j \in n..(L + 1) : j \in 1..L => doc[j] # "blank"}
<1>1. m = CHOOSE j \in n..(L + 1) : /\ j \in DOMAIN doc => doc[j] # "blank"
                                    /\ \A k \in n..(j - 1) : doc[k] = "blank"
  BY DEF Gates!NotBlank
<1> HIDE DEF m
<1>2. \E j : Is(j)
  <2>1. L + 1 \in T /\ T \in SUBSET Nat
    OBVIOUS
  <2> HIDE DEF T
  <2>2. PICK j \in T : \A k \in T : j <= k
    BY <2>1, LeastExists
  <2> USE DEF T
  <2>3. ASSUME NEW k \in n..(j - 1) PROVE doc[k] = "blank"
    <3>1. k \in n..(L + 1) /\ k < j
      BY <2>2
    <3>2. k \notin T
      BY <2>2, <3>1
    <3> QED BY <3>1, <3>2
  <2>4. Is(j)
    BY <2>2, <2>3
  <2> QED BY <2>4
<1>3. Is(m)
  BY <1>1, <1>2
<1>4. ASSUME NEW i, NEW j, Is(i), Is(j) PROVE ~(i < j)
  <2> SUFFICES ASSUME i < j PROVE FALSE
    OBVIOUS
  <2>1. i \in n..(j - 1) /\ i \in 1..L
    BY <1>4
  <2> QED BY <2>1, <1>4
<1>5. ASSUME NEW j, Is(j) PROVE j = m
  <2>1. ~(j < m) /\ ~(m < j)
    BY <1>3, <1>4, <1>5
  <2> QED BY <2>1, <1>3, <1>5
<1> QED BY <1>3, <1>5 DEF Gates!Blank, m

LEMMA WantedFacts ==
    ASSUME NEW V, NEW doc \in Seq(V), NEW o \in 1..Len(doc), NEW c \in (o + 1)..Len(doc)
    PROVE  SubSeq(doc, o + 1, c - 1) = Gates!Wanted
              <=> c = o + 3 /\ doc[o + 1] = "first" /\ doc[o + 2] = "second"
<1> DEFINE s == SubSeq(doc, o + 1, c - 1)
           x == "first"
           y == "second"
<1>1. /\ s \in Seq(V) /\ Len(s) = (c - 1) - o
      /\ \A i \in 1..Len(s) : s[i] = doc[o + i]
  OBVIOUS
<1> HIDE DEF s, x, y
<1>2. ASSUME s = <<x, y>> PROVE c = o + 3 /\ doc[o + 1] = x /\ doc[o + 2] = y
  <2>1. Len(s) = 2 /\ s[1] = x /\ s[2] = y
    BY <1>2
  <2>2. 1 \in 1..Len(s) /\ 2 \in 1..Len(s)
    BY <2>1
  <2>3. s[1] = doc[o + 1] /\ s[2] = doc[o + 2]
    BY <1>1, <2>2
  <2>4. c = o + 3
    <3>0. Len(doc) \in Nat
      OBVIOUS
    <3>a. o \in Int /\ o + 1 \in Int /\ Len(doc) \in Int
      BY <3>0
    <3>b. c \in Int
      BY <3>a
    <3>1. c \in Int /\ o \in Int /\ 2 = (c - 1) - o
      BY <1>1, <2>1, <3>a, <3>b
    <3>2. \A i, j \in Int : 2 = (i - 1) - j => i = j + 3
      OBVIOUS
    <3> QED BY <3>1, <3>2
  <2> QED BY <2>1, <2>3, <2>4
<1>3. ASSUME c = o + 3, doc[o + 1] = x, doc[o + 2] = y PROVE s = <<x, y>>
  <2>1. Len(s) = 2 /\ 1 \in 1..Len(s) /\ 2 \in 1..Len(s)
    BY <1>1, <1>3
  <2>2. s[1] = x /\ s[2] = y
    BY <1>1, <1>3, <2>1
  <2> QED BY <1>1, <2>1, <2>2
<1> QED BY <1>2, <1>3 DEF s, x, y, Gates!Wanted

LEMMA CountIsOne == \A a, b \in Nat : (a + 2 * b = 1) <=> (a = 1 /\ b = 0)
<1>1. \A b \in Nat : b = 0 \/ \E c \in Nat : b = c + 1
  <2> SUFFICES ASSUME NEW b \in Nat, b # 0 PROVE \E c \in Nat : b = c + 1
    OBVIOUS
  <2>1. b - 1 \in Nat /\ b = (b - 1) + 1
    OBVIOUS
  <2> QED BY <2>1
<1>2. \A c \in Nat : 2 * (c + 1) = 2 * c + 2 /\ 2 * c \in Nat
  OBVIOUS
<1>3. 2 * 0 = 0
  OBVIOUS
<1> QED BY <1>1, <1>2, <1>3

\* The document has the marker once, and not in a block.
Marked(doc, m) ==
    /\ m \in DOMAIN doc /\ doc[m] = "marker" /\ Gates!Prose(doc, m)
    /\ \A k \in DOMAIN doc \ {m} : doc[k] \notin {"marker", "marker twice"}

MarkerLines(doc) == {n \in DOMAIN doc : doc[n] \in {"marker", "marker twice"}}

LEMMA MarkerIsFound ==
    ASSUME NEW doc, Len(doc) \in Nat, DOMAIN doc = 1..Len(doc)
    PROVE  Gates!Markers(doc, ProseLines(doc)) = 1 /\ Cardinality(MarkerLines(doc)) = 1
              <=> \E m : Marked(doc, m) /\ MarkerLines(doc) = {m}
<1> USE DEF MarkerLines, ProseLines
<1> DEFINE outside == ProseLines(doc)
           lines == MarkerLines(doc)
           A == {n \in outside : doc[n] = "marker"}
           B == {n \in outside : doc[n] = "marker twice"}
<1>1. Gates!Markers(doc, outside) = Cardinality(A) + 2 * Cardinality(B)
  BY SameCardinality DEF Gates!Markers
<1>2. A \in SUBSET (1..Len(doc)) /\ B \in SUBSET (1..Len(doc)) /\ lines \in SUBSET (1..Len(doc))
  OBVIOUS
<1>3. /\ Cardinality(A) \in Nat /\ Cardinality(B) \in Nat
      /\ Cardinality(A) = 1 <=> \E m \in A : A = {m}
      /\ Cardinality(B) = 0 <=> B = {}
      /\ Cardinality(lines) = 1 <=> \E m \in lines : lines = {m}
  <2> HIDE DEF A, B
  <2> QED BY <1>2, OneElement
<1>4. Gates!Markers(doc, outside) = 1 <=> (\E m \in A : A = {m}) /\ B = {}
  <2> HIDE DEF A, B
  <2>1. \A a, b \in Nat : (a + 2 * b = 1) <=> (a = 1 /\ b = 0)
    BY CountIsOne
  <2>2. Cardinality(A) + 2 * Cardinality(B) = 1 <=> Cardinality(A) = 1 /\ Cardinality(B) = 0
    BY <1>3, <2>1
  <2> QED BY <1>1, <1>3, <2>2
<1>5. ASSUME NEW m \in A, lines = {m} PROVE Marked(doc, m)
  BY <1>5 DEF Marked
<1>6. ASSUME NEW m, Marked(doc, m) PROVE m \in A /\ A = {m} /\ B = {} /\ m \in lines /\ lines = {m}
  <2>1. m \in A /\ m \in lines
    BY <1>6 DEF Marked
  <2>2. \A k \in A \cup B \cup lines : k = m
    BY <1>6 DEF Marked
  <2>3. m \notin B
    BY <1>6 DEF Marked
  <2> HIDE DEF A, B
  <2> QED BY <2>1, <2>2, <2>3
<1>7. A \subseteq lines
  OBVIOUS
<1> HIDE DEF A, B, MarkerLines, ProseLines
<1> QED BY <1>3, <1>4, <1>5, <1>6, <1>7

\* The block b is the one that follows the marker on line m.
Follows(doc, q, m, b) ==
    /\ Marked(doc, m)
    /\ b.opening = Gates!NotBlank(doc, m + 1) /\ doc[b.opening] = "text fence"
    /\ Gates!NotBlank(doc, b.closing + 1) \notin {x.opening : x \in q.blocks}

LEMMA TextBlockFacts ==
    ASSUME NEW doc, Len(doc) \in Nat, DOMAIN doc = 1..Len(doc), NEW q,
           q.outside = ProseLines(doc),
           NEW found, found = {b \in q.blocks : \E m : Follows(doc, q, m, b)}
    PROVE  Gates!TextBlock(doc, q) = IF found = {} THEN None
                                     ELSE (CHOOSE b \in found : TRUE).content
<1> DEFINE lines == {n \in DOMAIN doc : doc[n] \in {"marker", "marker twice"}}
           opening == {x.opening : x \in q.blocks}
           one == Gates!Markers(doc, q.outside) = 1 /\ Gates!Cardinality(lines) = 1
           F == {b \in q.blocks :
                   /\ one
                   /\ b.opening \in {Gates!NotBlank(doc, n + 1) : n \in lines}
                   /\ doc[b.opening] = "text fence"
                   /\ Gates!NotBlank(doc, b.closing + 1) \notin opening}
<1>1. Gates!TextBlock(doc, q) = IF F = {} THEN None ELSE (CHOOSE b \in F : TRUE).content
  BY DEF Gates!TextBlock
<1>2. one <=> \E m : Marked(doc, m) /\ lines = {m}
  <2>1. lines = MarkerLines(doc) /\ q.outside = ProseLines(doc)
    BY DEF MarkerLines
  <2>2. Gates!Cardinality(lines) = Cardinality(lines)
    BY SameCardinality
  <2> HIDE DEF lines
  <2>3. Gates!Markers(doc, q.outside) = 1 /\ Cardinality(lines) = 1
            <=> \E m : Marked(doc, m) /\ lines = {m}
    BY <2>1, MarkerIsFound
  <2> QED BY <2>2, <2>3
<1>3. ASSUME NEW m, Marked(doc, m) PROVE lines = {m}
  <2>1. m \in lines
    BY <1>3 DEF Marked
  <2>2. \A k \in lines : k = m
    BY <1>3 DEF Marked
  <2> QED BY <2>1, <2>2
<1>4. F = found
  <2> HIDE DEF lines, one
  <2>1. ASSUME NEW b \in F PROVE b \in found
    <3>1. PICK m : Marked(doc, m) /\ lines = {m}
      BY <2>1, <1>2
    <3>2. Follows(doc, q, m, b)
      BY <2>1, <3>1 DEF Follows
    <3> QED BY <2>1, <3>2
  <2>2. ASSUME NEW b \in found PROVE b \in F
    <3>1. PICK m : Follows(doc, q, m, b)
      OBVIOUS
    <3>2. Marked(doc, m) /\ lines = {m}
      BY <3>1, <1>3 DEF Follows
    <3>3. one
      BY <3>2, <1>2
    <3> QED BY <3>1, <3>2, <3>3 DEF Follows
  <2> HIDE DEF F
  <2> QED BY <2>1, <2>2
<1> HIDE DEF F, one, lines
<1> QED BY <1>1, <1>4

LEMMA LineKinds ==
    /\ "text fence" \in Gates!Fences /\ "fence" \in Gates!Fences
    /\ "first" \notin Gates!Fences /\ "second" \notin Gates!Fences
    /\ "blank" \notin Gates!Fences
BY DEF Gates!Fences

\* What is read is what is wanted, if the reader finds what is wanted.
LEMMA WantedIsRead ==
    ASSUME NEW V, NEW doc \in Seq(V), NEW q, q.opening = 0, ParsedTo(doc, q, Len(doc)),
           NEW m, NEW b \in q.blocks, Follows(doc, q, m, b), b.content = Gates!Wanted
    PROVE  Gates!WantedBlock(doc)
<1> DEFINE L == Len(doc)
           o == b.opening
           c == b.closing
<1>0. L \in Nat /\ DOMAIN doc = 1..L
  OBVIOUS
<1>1. /\ o \in 1..L /\ c \in (o + 1)..L /\ Gates!Opens(doc, o) /\ doc[c] = "fence"
      /\ b.content = SubSeq(doc, o + 1, c - 1)
  BY DEF ParsedTo, BlockOK
<1>2. /\ m \in 1..L /\ doc[m] = "marker" /\ Gates!Prose(doc, m)
      /\ \A k \in DOMAIN doc \ {m} : doc[k] \notin {"marker", "marker twice"}
      /\ o = Gates!NotBlank(doc, m + 1) /\ doc[o] = "text fence"
      /\ Gates!NotBlank(doc, c + 1) \notin {x.opening : x \in q.blocks}
  BY <1>0 DEF Follows, Marked
<1>n. /\ L \in Nat /\ m \in 1..L /\ o \in 1..L /\ c \in (o + 1)..L
  BY <1>0, <1>1, <1>2
<1> HIDE DEF L, o, c
<1>3. o \in (m + 1)..(L + 1) /\ Gates!Blank(doc, (m + 1)..(o - 1))
  <2>1. m + 1 \in 1..(L + 1)
    BY <1>n
  <2> QED BY <2>1, <1>0, <1>2, NotBlankFacts DEF L
<1>4. c = o + 3
  <2>1. SubSeq(doc, o + 1, c - 1) = Gates!Wanted
    BY <1>1
  <2>2. o \in 1..Len(doc) /\ c \in (o + 1)..Len(doc)
    BY <1>n DEF L
  <2>3. SubSeq(doc, o + 1, c - 1) = Gates!Wanted
            <=> c = o + 3 /\ doc[o + 1] = "first" /\ doc[o + 2] = "second"
    BY <2>2, WantedFacts
  <2> QED BY <2>1, <2>3
<1>5. SubSeq(doc, o + 1, o + 2) = Gates!Wanted
  <2>1. c - 1 = o + 2
    BY <1>n, <1>4
  <2> QED BY <2>1, <1>1
<1>6. ASSUME NEW k \in (o + 4)..L, Gates!Opens(doc, k), Gates!Blank(doc, (o + 4)..(k - 1))
      PROVE  FALSE
  <2>1. c + 1 = o + 4 /\ c + 1 \in 1..(L + 1) /\ k \in (c + 1)..(L + 1) /\ k \in 1..L /\ k # 0
    BY <1>n, <1>4
  <2>2. doc[k] # "blank"
    BY <1>6, LineKinds DEF Gates!Opens
  <2>3. k = Gates!NotBlank(doc, c + 1)
    BY <2>1, <2>2, <1>0, <1>6, NotBlankFacts DEF L
  <2>4. k \in {x.opening : x \in q.blocks}
    BY <2>1, <1>6 DEF ParsedTo, L
  <2> QED BY <2>3, <2>4, <1>2
<1>7. o + 3 <= L /\ m < o
  <2>1. o \in (m + 1)..(L + 1)
    BY <1>3
  <2> QED BY <2>1, <1>n, <1>4
<1>8. doc[o + 3] = "fence"
  BY <1>1, <1>4
<1> QED
  <2>1. m \in DOMAIN doc /\ o \in DOMAIN doc
    BY <1>0, <1>1, <1>2
  <2> QED
    BY <2>1, <1>1, <1>2, <1>3, <1>5, <1>6, <1>7, <1>8 DEF Gates!WantedBlock, L

\* The reader finds what is wanted, and so does the parse.
LEMMA WantedIsFound ==
    ASSUME NEW V, NEW doc \in Seq(V), NEW q, q.opening = 0, ParsedTo(doc, q, Len(doc)),
           Gates!WantedBlock(doc)
    PROVE  \E b \in q.blocks : \E m : Follows(doc, q, m, b) /\ b.content = Gates!Wanted
<1> DEFINE L == Len(doc)
<1>0. L \in Nat /\ DOMAIN doc = 1..L
  OBVIOUS
<1> HIDE DEF L
<1>1. PICK m \in 1..L, n \in 1..L :
        /\ doc[m] = "marker" /\ Gates!Prose(doc, m)
        /\ \A k \in DOMAIN doc \ {m} : doc[k] \notin {"marker", "marker twice"}
        /\ m < n /\ Gates!Blank(doc, (m + 1)..(n - 1)) /\ Gates!Opens(doc, n)
        /\ n + 3 <= L
        /\ doc[n] = "text fence" /\ SubSeq(doc, n + 1, n + 2) = Gates!Wanted
        /\ doc[n + 3] = "fence"
        /\ \A k \in (n + 4)..L : Gates!Opens(doc, k) => ~Gates!Blank(doc, (n + 4)..(k - 1))
  BY <1>0 DEF Gates!WantedBlock, L
<1>n. L \in Nat /\ m \in 1..L /\ n \in 1..L /\ m < n /\ n + 3 <= L
  BY <1>0, <1>1
<1>2. Marked(doc, m)
  BY <1>0, <1>1 DEF Marked
<1>3. PICK b \in q.blocks : b.opening = n
  <2>1. n # 0
    BY <1>n
  <2>2. n \in 1..Len(doc) /\ Gates!Opens(doc, n)
    BY <1>1 DEF L
  <2> QED BY <2>1, <2>2 DEF ParsedTo
<1> DEFINE c == b.closing
<1>4. /\ c \in (n + 1)..L /\ doc[c] = "fence"
      /\ \A k \in (n + 1)..(c - 1) : doc[k] \notin Gates!Fences
      /\ b.content = SubSeq(doc, n + 1, c - 1)
  BY <1>3 DEF ParsedTo, BlockOK, L
<1> HIDE DEF c
<1>5. doc[n + 1] = "first" /\ doc[n + 2] = "second"
  <2>1. n + 3 \in (n + 1)..L /\ (n + 3) - 1 = n + 2
    BY <1>n
  <2>2. SubSeq(doc, n + 1, (n + 3) - 1) = Gates!Wanted
    BY <2>1, <1>1
  <2>3. n \in 1..Len(doc) /\ n + 3 \in (n + 1)..Len(doc)
    BY <1>n, <2>1 DEF L
  <2>4. SubSeq(doc, n + 1, (n + 3) - 1) = Gates!Wanted
            <=> n + 3 = n + 3 /\ doc[n + 1] = "first" /\ doc[n + 2] = "second"
    BY <2>3, WantedFacts
  <2> QED BY <2>2, <2>4
<1>6. c = n + 3
  <2>0. c \in (n + 1)..L
    BY <1>4
  <2>1. c # n + 1 /\ c # n + 2
    BY <1>4, <1>5
  <2>2. n + 3 \notin (n + 1)..(c - 1)
    BY <1>1, <1>4, LineKinds
  <2> QED BY <2>0, <2>1, <2>2, <1>n
<1>7. b.content = Gates!Wanted
  <2>1. c - 1 = n + 2
    BY <1>n, <1>6
  <2> QED BY <2>1, <1>1, <1>4
<1>8. n = Gates!NotBlank(doc, m + 1)
  <2>1. m + 1 \in 1..(L + 1) /\ n \in (m + 1)..(L + 1)
    BY <1>n
  <2>2. doc[n] # "blank"
    BY <1>1
  <2>3. Gates!Blank(doc, (m + 1)..(n - 1))
    BY <1>1
  <2>4. m + 1 \in 1..(Len(doc) + 1) /\ n \in (m + 1)..(Len(doc) + 1)
    BY <2>1 DEF L
  <2>5. Len(doc) \in Nat /\ DOMAIN doc = 1..Len(doc)
    OBVIOUS
  <2> DEFINE first == Gates!NotBlank(doc, m + 1)
  <2>6. \A j \in (m + 1)..(Len(doc) + 1) :
            /\ j \in 1..Len(doc) => doc[j] # "blank"
            /\ Gates!Blank(doc, (m + 1)..(j - 1))
            => j = first
    BY <2>4, <2>5, NotBlankFacts
  <2> HIDE DEF first
  <2>7. n = first
    BY <2>2, <2>3, <2>4, <2>6
  <2> QED BY <2>7 DEF first
<1>9. ASSUME Gates!NotBlank(doc, c + 1) \in {x.opening : x \in q.blocks} PROVE FALSE
  <2> DEFINE j == Gates!NotBlank(doc, c + 1)
  <2>1. j \in 1..L /\ Gates!Opens(doc, j)
    BY <1>9 DEF ParsedTo, L
  <2>2. c + 1 = n + 4 /\ c + 1 \in 1..(L + 1)
    BY <1>n, <1>6
  <2>3. j \in (c + 1)..(L + 1) /\ Gates!Blank(doc, (c + 1)..(j - 1))
    BY <2>2, <1>0, NotBlankFacts DEF L
  <2> HIDE DEF j
  <2>4. j \in (n + 4)..L
    BY <2>1, <2>2, <2>3, <1>n
  <2> QED BY <2>1, <2>2, <2>3, <2>4, <1>1
<1>10. Follows(doc, q, m, b)
  BY <1>1, <1>2, <1>3, <1>8, <1>9 DEF Follows, c
<1> QED BY <1>7, <1>10

LEMMA BlockIsRead ==
    ASSUME NEW V, NEW doc \in Seq(V), NEW q, q.opening = 0, ParsedTo(doc, q, Len(doc))
    PROVE  Gates!TextBlock(doc, q) = Gates!Wanted <=> Gates!WantedBlock(doc)
<1> DEFINE found == {b \in q.blocks : \E m : Follows(doc, q, m, b)}
<1>1. Gates!TextBlock(doc, q) = IF found = {} THEN None
                                ELSE (CHOOSE b \in found : TRUE).content
  <2>1. Len(doc) \in Nat /\ DOMAIN doc = 1..Len(doc)
    OBVIOUS
  <2>2. q.outside = ProseLines(doc)
    BY DEF ParsedTo, ProseLines
  <2> QED BY <2>1, <2>2, TextBlockFacts
<1>2. ASSUME NEW b \in found, NEW x \in found PROVE b.content = x.content
  <2>1. PICK m : Follows(doc, q, m, b)
    OBVIOUS
  <2>2. PICK k : Follows(doc, q, k, x)
    OBVIOUS
  <2>3. m = k
    BY <2>1, <2>2 DEF Follows, Marked
  <2>4. b.opening = x.opening
    BY <2>1, <2>2, <2>3 DEF Follows
  <2>5. BlockOK(doc, b, Len(doc)) /\ BlockOK(doc, x, Len(doc))
    BY DEF ParsedTo
  <2> DEFINE o == b.opening
             c == b.closing
             d == x.closing
  <2>6. /\ o \in 1..Len(doc) /\ c \in (o + 1)..Len(doc) /\ d \in (o + 1)..Len(doc)
        /\ doc[c] \in Gates!Fences /\ doc[d] \in Gates!Fences
        /\ \A i \in (o + 1)..(c - 1) : doc[i] \notin Gates!Fences
        /\ \A i \in (o + 1)..(d - 1) : doc[i] \notin Gates!Fences
    BY <2>4, <2>5, LineKinds DEF BlockOK
  <2>7. Len(doc) \in Nat
    OBVIOUS
  <2> HIDE DEF o, c, d
  <2>8. c \notin (o + 1)..(d - 1) /\ d \notin (o + 1)..(c - 1)
    BY <2>6
  <2>9. c = d
    BY <2>6, <2>7, <2>8
  <2> QED BY <2>4, <2>5, <2>9 DEF BlockOK, c, d
<1>3. ASSUME found # {} PROVE (CHOOSE b \in found : TRUE) \in found
  BY <1>3
<1>4. ASSUME NEW b \in found, b.content = Gates!Wanted PROVE Gates!WantedBlock(doc)
  BY <1>4, WantedIsRead
<1>5. ASSUME Gates!WantedBlock(doc) PROVE \E b \in found : b.content = Gates!Wanted
  BY <1>5, WantedIsFound
<1>6. None # Gates!Wanted
  BY GatesAssumption DEF Gates!NoneAssumption
<1> HIDE DEF found
<1> QED BY <1>1, <1>2, <1>3, <1>4, <1>5, <1>6

----------------------------------------------------------------------------
(* The gates                                                               *)

GatesTyped ==
    /\ document \in [{2, 3} -> Seq(Gates!Lines) \cup {None}]
    /\ report \in [{"lifecycle", "compatibility"} -> Gates!Reports]

LEMMA TuplesTyped ==
    ASSUME NEW V, NEW a \in V, NEW b \in V, NEW c \in V, NEW d \in V, NEW e \in V
    PROVE  /\ <<a, b, c, d, e>> \in Seq(V)
           /\ \A f, g \in V : <<a, b, c, d, e, f, g>> \in Seq(V)
OBVIOUS

LEMMA InitGatesTyped == Gates!Init => GatesTyped
<1> SUFFICES ASSUME Gates!Init PROVE GatesTyped
  OBVIOUS
<1>1. /\ "conclusion" \in Gates!Lines /\ "other conclusion" \in Gates!Lines
      /\ "marker" \in Gates!Lines /\ "blank" \in Gates!Lines /\ "prose" \in Gates!Lines
      /\ "first" \in Gates!Lines /\ "second" \in Gates!Lines
      /\ "text fence" \in Gates!Lines /\ "fence" \in Gates!Lines
      /\ "other fence" \in Gates!Lines
  BY DEF Gates!Lines, Gates!Fences, Gates!Conclusions
<1> DEFINE V == Gates!Lines
           complete == Gates!Complete
           quote == <<"conclusion", "other fence", "other conclusion", "fence", "blank">>
<1>2. complete \in Seq(V) /\ complete # <<>>
  <2> HIDE DEF V
  <2>1. complete \in Seq(V)
    BY <1>1, TuplesTyped DEF Gates!Complete, V
  <2>2. Len(complete) = 7
    BY DEF Gates!Complete
  <2> HIDE DEF complete
  <2> QED BY <2>1, <2>2
<1>3. quote \in Seq(V)
  BY <1>1, TuplesTyped
<1> HIDE DEF V, complete, quote
<1>4. Tail(complete) \in Seq(V)
  BY <1>2
<1>5. quote \o Tail(complete) \in Seq(V)
  BY <1>3, <1>4
<1> USE DEF V, complete, quote
<1>6. "passing" \in Gates!Reports
  BY DEF Gates!Reports
<1> QED BY <1>2, <1>5, <1>6 DEF Gates!Init, GatesTyped, Gates!Quoting

\* A line more or less leaves a document one.
LEMMA LinesTyped ==
    ASSUME NEW V, NEW doc \in Seq(V), NEW line \in V
    PROVE  /\ \A n \in 1..(Len(doc) + 1) : Gates!InsertAt(doc, n, line) \in Seq(V)
           /\ \A n \in DOMAIN doc : Gates!RemoveAt(doc, n) \in Seq(V)
<1>0. Len(doc) \in Nat /\ DOMAIN doc = 1..Len(doc) /\ <<line>> \in Seq(V)
  OBVIOUS
<1>1. ASSUME NEW i \in Int, NEW j \in Int, 1 <= i, j <= Len(doc)
      PROVE  SubSeq(doc, i, j) \in Seq(V)
  BY <1>1
<1>2. ASSUME NEW n \in 1..(Len(doc) + 1) PROVE Gates!InsertAt(doc, n, line) \in Seq(V)
  <2>1. SubSeq(doc, 1, n - 1) \in Seq(V) /\ SubSeq(doc, n, Len(doc)) \in Seq(V)
    BY <1>0, <1>1
  <2> QED BY <1>0, <2>1 DEF Gates!InsertAt
<1>3. ASSUME NEW n \in 1..Len(doc) PROVE Gates!RemoveAt(doc, n) \in Seq(V)
  <2>1. SubSeq(doc, 1, n - 1) \in Seq(V) /\ SubSeq(doc, n + 1, Len(doc)) \in Seq(V)
    BY <1>0, <1>1
  <2> QED BY <2>1 DEF Gates!RemoveAt
<1> QED BY <1>0, <1>2, <1>3

LEMMA NextGatesTyped == ASSUME GatesTyped, [Gates!Next]_(Gates!vars) PROVE GatesTyped'
<1>1. ASSUME NEW gate \in {2, 3}, NEW doc \in Seq(Gates!Lines) \cup {None}, Gates!Write(gate, doc)
      PROVE  GatesTyped'
  BY <1>1 DEF Gates!Write, GatesTyped
<1>2. ASSUME NEW gate \in {2, 3}, document[gate] # None PROVE document[gate] \in Seq(Gates!Lines)
  BY <1>2 DEF GatesTyped
<1>3. ASSUME NEW gate \in {2, 3}, Gates!InsertLine(gate) PROVE GatesTyped'
  <2>1. PICK n \in 1..(Len(document[gate]) + 1), line \in Gates!Lines :
            Gates!Write(gate, Gates!InsertAt(document[gate], n, line))
    BY <1>3 DEF Gates!InsertLine
  <2>2. document[gate] \in Seq(Gates!Lines)
    BY <1>2, <1>3 DEF Gates!InsertLine
  <2>3. Gates!InsertAt(document[gate], n, line) \in Seq(Gates!Lines)
    BY <2>2, LinesTyped
  <2> QED BY <1>1, <2>1, <2>3
<1>4. ASSUME NEW gate \in {2, 3}, Gates!RemoveLine(gate) PROVE GatesTyped'
  <2>1. PICK n \in DOMAIN document[gate] : Gates!Write(gate, Gates!RemoveAt(document[gate], n))
    BY <1>4 DEF Gates!RemoveLine
  <2>2. document[gate] \in Seq(Gates!Lines)
    BY <1>2, <1>4 DEF Gates!RemoveLine
  <2>3. "marker" \in Gates!Lines
    BY DEF Gates!Lines
  <2>4. Gates!RemoveAt(document[gate], n) \in Seq(Gates!Lines)
    BY <2>2, <2>3, LinesTyped
  <2> QED BY <1>1, <2>1, <2>4
<1>5. ASSUME NEW gate \in {2, 3}, Gates!LoseDocument(gate) PROVE GatesTyped'
  BY <1>1, <1>5 DEF Gates!LoseDocument
<1>6. ASSUME NEW name \in DOMAIN report, Gates!Rewrite(name) PROVE GatesTyped'
  BY <1>6 DEF Gates!Rewrite, GatesTyped
<1>7. CASE UNCHANGED Gates!vars
  BY <1>7 DEF Gates!vars, GatesTyped
<1> QED BY <1>3, <1>4, <1>5, <1>6, <1>7 DEF Gates!Next

\* What a gate is judged by is what the reader judges by.
LEMMA GateIsRead ==
    ASSUME NEW V, NEW doc \in Seq(V)
    PROVE  LET q == Gates!Parse(doc)
               good == Gates!WellFormed(doc) /\ Gates!OneConclusion(doc)
           IN  /\ ~q.failed /\ Gates!Concludes(doc, q) <=> good
               /\ ~q.failed /\ Gates!ConcludesWithBlock(doc, q) <=> good /\ Gates!WantedBlock(doc)
<1> DEFINE q == Gates!Parse(doc)
<1>0. Len(doc) \in Nat /\ DOMAIN doc = 1..Len(doc)
  OBVIOUS
<1> HIDE DEF q
<1>1. /\ q.failed <=> ~Gates!WellFormed(doc)
      /\ Gates!WellFormed(doc) => q.opening = 0 /\ ParsedTo(doc, q, Len(doc))
  BY <1>0, ParseIsExact DEF q
<1>2. ASSUME Gates!WellFormed(doc)
      PROVE  /\ Gates!Concludes(doc, q) <=> Gates!OneConclusion(doc)
             /\ Gates!TextBlock(doc, q) = Gates!Wanted <=> Gates!WantedBlock(doc)
  <2>1. q.opening = 0 /\ ParsedTo(doc, q, Len(doc))
    BY <1>1, <1>2
  <2>2. q.outside = ProseLines(doc)
    BY <2>1 DEF ParsedTo, ProseLines
  <2> QED BY <1>0, <2>1, <2>2, ConclusionIsRead, BlockIsRead
<1>3. q = Gates!Parse(doc)
  BY DEF q
<1> QED BY <1>1, <1>2, <1>3 DEF Gates!ConcludesWithBlock

LEMMA GatesAreRead == ASSUME GatesTyped PROVE ReadAsWritten
<1> DEFINE Good(doc) == doc # None /\ Gates!WellFormed(doc) /\ Gates!OneConclusion(doc)
           Whole(doc) == Good(doc) /\ Gates!WantedBlock(doc)
<1>1. ASSUME NEW doc \in Seq(Gates!Lines) \cup {None}
      PROVE  /\ doc # None /\ ~Gates!Parse(doc).failed /\ Gates!Concludes(doc, Gates!Parse(doc))
                   <=> Good(doc)
             /\ doc # None /\ ~Gates!Parse(doc).failed
                /\ Gates!ConcludesWithBlock(doc, Gates!Parse(doc))
                   <=> Whole(doc)
  BY GateIsRead
<1>2. document[2] \in Seq(Gates!Lines) \cup {None} /\ document[3] \in Seq(Gates!Lines) \cup {None}
  BY DEF GatesTyped
<1> HIDE DEF Good, Whole
<1>3. Gates!Gate2 = "COMPLETED_WITH_CONCERNS" <=> Good(document[2])
  BY <1>1, <1>2 DEF Gates!Gate2, Gates!Judged
<1>4. Gates!Gate1 = "VERIFIED" <=> Whole(document[2])
  BY <1>1, <1>2 DEF Gates!Gate1, Gates!Judged
<1>5. Gates!Gate3 = "COMPLETED" <=> Whole(document[3])
  BY <1>1, <1>2 DEF Gates!Gate3, Gates!Judged
<1>6. Gates!Gate4 = "PASS" => \A name \in DOMAIN report : report[name] = "passing"
  BY DEF Gates!Gate4
<1>7. Gates!EvidenceClosed =>
          /\ Gates!Gate1 = "VERIFIED" /\ Gates!Gate3 = "COMPLETED" /\ Gates!Gate4 = "PASS"
  BY DEF Gates!EvidenceClosed
<1>8. \A gate \in {2, 3} :
        /\ gate = 2 => /\ Gates!Gate2 = "COMPLETED_WITH_CONCERNS" <=> Good(document[gate])
                       /\ Gates!Gate1 = "VERIFIED" <=> Whole(document[gate])
        /\ gate = 3 => (Gates!Gate3 = "COMPLETED" <=> Whole(document[gate]))
        /\ Gates!EvidenceClosed =>
              Whole(document[gate]) /\ \A name \in DOMAIN report : report[name] = "passing"
  BY <1>3, <1>4, <1>5, <1>6, <1>7
<1> QED BY <1>8 DEF Good, Whole, ReadAsWritten, Gates!ReadAsWritten

(* The Portal says of each gate what a reader of its documents would say:  *)
(* it concludes from prose only, and refuses what is open or ambiguous.    *)
THEOREM GatesAreReadAsWritten == Gates!Spec => []ReadAsWritten
<1>1. GatesTyped => ReadAsWritten
  BY GatesAreRead
<1> QED BY <1>1, InitGatesTyped, NextGatesTyped, PTL DEF Gates!Spec

=============================================================================
