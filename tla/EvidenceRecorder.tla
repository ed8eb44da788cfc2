-------------------------- MODULE EvidenceRecorder --------------------------
(***************************************************************************)
(* evidence.main: runs that record, under one path, what a command did.    *)
(* A file is named by the run that created it; its inode number is one     *)
(* that no file had before, named by that run too, or one that is free     *)
(* again. Other actors are the owner of the directory, who removes stale   *)
(* files and moves the directory away, and what stops a run: a failing     *)
(* call, a kill, a power failure.                                          *)
(***************************************************************************)
EXTENDS Naturals

CONSTANTS Runs, None, MaxDirs, MaxRemovals, MaxKills

ASSUME NoneIsNoRun == None \notin Runs
ASSUME BoundsAssumption == {MaxDirs, MaxRemovals, MaxKills} \subseteq Nat

VARIABLES
    where,      \* the directory that the path leads to, if any
    made,       \* how many directories there have been
    entry,      \* per directory, the file under the output's name
    unsettled,  \* per directory, files whose removal a power failure may undo
    file,       \* per run, its file's inode and bytes, and whether it is read-only
    job,        \* per run, its program counter and the directory it holds open
    removals, kills,
    removed,    \* history: files that the owner removed
    raced,      \* history: files that another run was going to take for its own
    returned    \* history: removed files that came back with a power failure

disk == <<where, made, entry, unsettled>>
bounds == <<removals, kills>>
history == <<removed, raced, returned>>
vars == <<disk, file, job, bounds, history>>

Dirs == 1..MaxDirs
Recording == {"identify", "child", "write", "chmod", "fsync", "name", "parent"}
Opened == Recording \cup {"close", "clean"}
Ended == {"recorded", "unreported", "failed", "abandoned"}
Pcs == {"start", "mkdir", "reopen", "create", "close", "clean", "check", "unlink"}
       \cup Recording \cup Ended
Files == [inode : Runs \cup {None}, bytes : {"none", "partial", "whole", "synced"},
          final : BOOLEAN]

TypeOK ==
    /\ made \in 0..MaxDirs /\ where \in 1..made \cup {None}
    /\ entry \in [Dirs -> Runs \cup {None}]
    /\ unsettled \in [Dirs -> SUBSET Runs]
    /\ file \in [Runs -> Files]
    /\ job \in [Runs -> [pc : Pcs, dir : Dirs \cup {None}]]
    /\ removals \in 0..MaxRemovals /\ kills \in 0..MaxKills
    /\ removed \subseteq Runs /\ raced \subseteq Runs /\ returned \subseteq Runs

Init ==
    /\ where = None /\ made = 0
    /\ entry = [d \in Dirs |-> None]
    /\ unsettled = [d \in Dirs |-> {}]
    /\ file = [r \in Runs |-> [inode |-> None, bytes |-> "none", final |-> FALSE]]
    /\ job = [r \in Runs |-> [pc |-> "start", dir |-> None]]
    /\ removals = 0 /\ kills = 0 /\ removed = {} /\ raced = {} /\ returned = {}

Goto(r, pc) == job' = [job EXCEPT ![r].pc = pc]
Hold(r, d) == job' = [job EXCEPT ![r] = [pc |-> "create", dir |-> d]]

Found(r) == entry[job[r].dir]

\* A name goes from a directory that nobody syncs.
Remove(d) ==
    /\ entry' = [entry EXCEPT ![d] = None]
    /\ unsettled' = [unsettled EXCEPT ![d] = @ \cup ({entry[d]} \ {None})]

----------------------------------------------------------------------------
(* _open_directory_chain and the exclusive creation of the file            *)

OpenParent(r) ==
    /\ job[r].pc = "start"
    /\ IF where = None THEN Goto(r, "mkdir") ELSE Hold(r, where)
    /\ UNCHANGED <<disk, file, bounds, history>>

\* Of two runs that miss the directory only one makes it, the other raises.
MakeParent(r) ==
    /\ job[r].pc = "mkdir"
    /\ \/ where = None /\ made < MaxDirs
          /\ made' = made + 1 /\ where' = made' /\ Goto(r, "reopen")
       \/ where # None /\ Goto(r, "failed") /\ UNCHANGED <<where, made>>
    /\ UNCHANGED <<entry, unsettled, file, bounds, history>>

ReopenParent(r) ==
    /\ job[r].pc = "reopen"
    /\ IF where = None THEN Goto(r, "failed") ELSE Hold(r, where)
    /\ UNCHANGED <<disk, file, bounds, history>>

\* An inode number is free again when its file has no name and is not open.
Free(i) ==
    \A s \in Runs : file[s].inode = i =>
        job[s].pc \notin Opened /\ \A d \in Dirs : entry[d] # s

Mistakes(s, d, i) ==
    /\ job[s].dir = d
    /\ \/ job[s].pc = "unlink"
       \/ job[s].pc = "check" /\ file[s].inode = i

CreateOutput(r) ==
    /\ job[r].pc = "create" /\ Found(r) = None
    /\ \E i \in ({r} \cup {file[s].inode : s \in Runs}) \ {None} :
          /\ Free(i)
          /\ file' = [file EXCEPT ![r].inode = i]
          /\ raced' = IF \E s \in Runs : Mistakes(s, job[r].dir, i)
                      THEN raced \cup {r} ELSE raced
    /\ entry' = [entry EXCEPT ![job[r].dir] = r]
    /\ Goto(r, "identify")
    /\ UNCHANGED <<where, made, unsettled, bounds, removed, returned>>

OutputExists(r) ==
    /\ job[r].pc = "create" /\ Found(r) # None
    /\ Goto(r, "failed")
    /\ UNCHANGED <<disk, file, bounds, history>>

\* The directory cannot be opened, is not trusted, or the file not be made.
NoOutput(r) ==
    /\ job[r].pc \in {"start", "mkdir", "reopen", "create"}
    /\ Goto(r, "failed")
    /\ UNCHANGED <<disk, file, bounds, history>>

Identify(r) ==
    /\ job[r].pc = "identify"
    /\ Goto(r, "child")
    /\ UNCHANGED <<disk, file, bounds, history>>

\* Without the file's identity nothing is removed: the empty file stays.
IdentifyFails(r) ==
    /\ job[r].pc = "identify"
    /\ Goto(r, "abandoned")
    /\ UNCHANGED <<disk, file, bounds, history>>

----------------------------------------------------------------------------
(* The command, the artifacts, finalize_record and the last checks         *)

\* Neither the command nor the digests of the artifacts touch the output.
RunChild(r) ==
    /\ job[r].pc = "child"
    /\ Goto(r, "write")
    /\ UNCHANGED <<disk, file, bounds, history>>

\* A write is short or complete; a short one is continued.
WriteRecord(r) ==
    /\ job[r].pc = "write"
    /\ \/ file' = [file EXCEPT ![r].bytes = "partial"] /\ UNCHANGED job
       \/ file' = [file EXCEPT ![r].bytes = "whole"] /\ Goto(r, "chmod")
    /\ UNCHANGED <<disk, bounds, history>>

MakeReadOnly(r) ==
    /\ job[r].pc = "chmod"
    /\ file' = [file EXCEPT ![r].final = TRUE]
    /\ Goto(r, "fsync")
    /\ UNCHANGED <<disk, bounds, history>>

\* The file is durable with its inode number, and under its name if it has one:
\* what the number or the name stood for before does not come back.
SyncRecord(r) ==
    /\ job[r].pc = "fsync"
    /\ file' = [file EXCEPT ![r].bytes = "synced"]
    /\ unsettled' = [d \in Dirs |->
          {s \in unsettled[d] : entry[d] # r /\ file[s].inode # file[r].inode}]
    /\ Goto(r, "name")
    /\ UNCHANGED <<where, made, entry, bounds, history>>

CheckName(r) ==
    /\ job[r].pc = "name"
    /\ Goto(r, IF Found(r) = r THEN "parent" ELSE "clean")
    /\ UNCHANGED <<disk, file, bounds, history>>

VerifyParent(r) ==
    /\ job[r].pc = "parent"
    /\ Goto(r, IF where = job[r].dir THEN "close" ELSE "clean")
    /\ UNCHANGED <<disk, file, bounds, history>>

\* A close that fails is raised although the record is complete.
Return(r) ==
    /\ job[r].pc = "close"
    /\ \E pc \in {"recorded", "unreported"} : Goto(r, pc)
    /\ UNCHANGED <<disk, file, bounds, history>>

\* Mutant: a failure is passed on, and the file left.
RaiseOnly(r) ==
    /\ job[r].pc \in Recording \ {"identify"}
    /\ Goto(r, "failed")
    /\ UNCHANGED <<disk, file, bounds, history>>

\* Any call of the recording raises: the handler cleans up.
RecordingFails(r) ==
    /\ job[r].pc \in Recording \ {"identify"}
    /\ Goto(r, "clean")
    /\ UNCHANGED <<disk, file, bounds, history>>

----------------------------------------------------------------------------
(* The handler closes the file, then _unlink_owned_output                  *)

CloseOutput(r) ==
    /\ job[r].pc = "clean"
    /\ Goto(r, "check")
    /\ UNCHANGED <<disk, file, bounds, history>>

\* Mutant: whatever has the name is removed.
RequireNothing(r) ==
    /\ job[r].pc = "check"
    /\ Goto(r, "unlink")
    /\ UNCHANGED <<disk, file, bounds, history>>

RequireOwned(r) ==
    /\ job[r].pc = "check"
    /\ LET owned == Found(r) # None /\ file[Found(r)].inode = file[r].inode
       IN  Goto(r, IF owned THEN "unlink" ELSE "failed")
    /\ UNCHANGED <<disk, file, bounds, history>>

Unlink(r) ==
    /\ job[r].pc = "unlink"
    /\ Remove(job[r].dir)
    /\ Goto(r, "failed")
    /\ UNCHANGED <<where, made, file, bounds, history>>

CleanUpFails(r) ==
    /\ job[r].pc \in {"check", "unlink"}
    /\ Goto(r, "abandoned")
    /\ UNCHANGED <<disk, file, bounds, history>>

----------------------------------------------------------------------------
(* The owner, kills and power failures                                     *)

OwnerRemoves(d) ==
    /\ entry[d] # None /\ removals < MaxRemovals
    /\ removals' = removals + 1
    /\ removed' = removed \cup {entry[d]}
    /\ Remove(d)
    /\ UNCHANGED <<where, made, file, job, kills, raced, returned>>

OwnerMovesDirectory ==
    /\ where # None
    /\ where' = None
    /\ UNCHANGED <<made, entry, unsettled, file, job, bounds, history>>

Stopped(r) == [job[r] EXCEPT !.pc = IF @ \in Ended THEN @ ELSE "abandoned"]

Kill(r) ==
    /\ kills < MaxKills /\ job[r].pc \notin Ended
    /\ kills' = kills + 1
    /\ job' = [job EXCEPT ![r] = Stopped(r)]
    /\ UNCHANGED <<disk, file, removals, history>>

\* A file that was not synced is cut short, or gone with its name; and a name
\* whose removal was not synced may be there again, unless its inode number is
\* by now another file's.
PowerFailure ==
    /\ kills < MaxKills
    /\ kills' = kills + 1
    /\ job' = [r \in Runs |-> Stopped(r)]
    /\ file' = [r \in Runs |-> IF file[r].bytes = "whole"
                               THEN [file[r] EXCEPT !.bytes = "partial"] ELSE file[r]]
    /\ \E after \in [Dirs -> Runs \cup {None}] :
          /\ \A d \in Dirs : after[d] \in
                IF entry[d] # None /\ file[entry[d]].bytes = "synced" THEN {entry[d]}
                ELSE {entry[d], None} \cup unsettled[d]
          /\ \A d, e \in Dirs : d # e /\ after[d] # None /\ after[e] # None =>
                file[after[d]].inode # file[after[e]].inode
          /\ entry' = after
          /\ returned' = returned \cup {after[d] : d \in {e \in Dirs : after[e] \in unsettled[e]}}
    /\ unsettled' = [d \in Dirs |-> {}]
    /\ UNCHANGED <<where, made, removals, removed, raced>>

Next ==
    \/ \E r \in Runs :
          \/ OpenParent(r) \/ MakeParent(r) \/ ReopenParent(r)
          \/ CreateOutput(r) \/ OutputExists(r) \/ NoOutput(r)
          \/ Identify(r) \/ IdentifyFails(r)
          \/ RunChild(r) \/ WriteRecord(r) \/ MakeReadOnly(r)
          \/ SyncRecord(r) \/ CheckName(r) \/ VerifyParent(r) \/ Return(r)
          \/ RecordingFails(r) \/ CloseOutput(r) \/ RequireOwned(r) \/ Unlink(r)
          \/ CleanUpFails(r) \/ Kill(r)
    \/ \E d \in Dirs : OwnerRemoves(d)
    \/ OwnerMovesDirectory
    \/ PowerFailure

Spec == Init /\ [][Next]_vars

----------------------------------------------------------------------------
(* Properties                                                              *)

(* A record whose run ended well is complete, read-only and in place: it   *)
(* goes only if the owner removes it, never in the clean-up of another run,*)
(* unless the record was begun between that clean-up's check and unlink,   *)
(* or before that check and with the inode of the file that was closed.    *)
RecordsAreKept ==
    \A r \in Runs : job[r].pc \in {"recorded", "unreported"} =>
        /\ file[r].bytes = "synced" /\ file[r].final
        /\ r \notin removed \cup raced => Found(r) = r

(* A run that failed leaves no file of its own, however late the failure:  *)
(* a file that is found later is a record, or that of a run that was       *)
(* killed or whose clean-up could not be carried out, or one whose removal *)
(* a power failure undid before a later record settled it.                 *)
FailedLeavesNothing ==
    \A r \in Runs : job[r].pc = "failed" =>
        \A d \in Dirs : entry[d] = r => r \in returned

=============================================================================
