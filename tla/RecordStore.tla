---------------------------- MODULE RecordStore ----------------------------
(***************************************************************************)
(* DocumentRepository's record directories (state_root/plans and           *)
(* state_root/approvals): the protocol by which skillctl processes publish *)
(* an immutable record under an exclusive name -- temporary file, write,   *)
(* fsync, close, link, unlink, fsync of the directory -- and the listing   *)
(* that compares two scans of the directory.                               *)
(*                                                                         *)
(* One directory is modelled.  Every system call is a step of its own and  *)
(* may fail; a process may be killed between any two steps, and a power    *)
(* failure may lose what was not yet synced.                               *)
(***************************************************************************)
EXTENDS Naturals, FiniteSets

CONSTANTS Procs,      \* the skillctl processes
          Names,      \* the final names: plan ids, or the plan an approval is of
          Payloads,   \* the canonical bytes of a record
          None,       \* "no such entry"
          MaxCalls,   \* bound on the calls started, over all processes
          MaxOutages  \* bound on power failures

ASSUME NoneAssumption == None \notin Payloads /\ None \notin Names
ASSUME BoundsAssumption == MaxCalls \in Nat /\ MaxOutages \in Nat

VARIABLES final,    \* final[n]: the inode linked under name n, or None
          durable,  \* the names whose directory entry survives a power failure
          litter,   \* TRUE once a temporary file was left behind for good
          job,      \* job[p]: the call process p is executing
          acked,    \* acked[n]: the payload whose publisher was told "stored"
          calls, outages

vars == <<final, durable, litter, job, acked, calls, outages>>

(* Bytes of an inode: partly written, all in the page cache, or on disk.   *)
Data == {"partial", "whole", "synced"}
Inodes == [value : Payloads, data : Data]

ASSUME NoneIsNoInode == None \notin Inodes

\* _publish_exclusive_record's position; "discard" is _remove_temporary on an
\* error path; "scan" and "recount" are the two iterdir calls of list_plans,
\* and "read" is where it gets the plans.
PublishPcs == {"open", "write", "fsync", "close", "link", "unlink", "fsyncdir", "discard"}
Pcs == PublishPcs \cup {"idle", "scan", "recount", "read"}
Results == {"none", "stored", "exists", "failed", "listed", "stale"}

\* A listing has no name and no payload: "seen" is its tuple of names, "left"
\* those of which it has not read the plan, and "counted", which is history,
\* the records that were there at the second scan.
Jobs == [pc : Pcs, name : Names \cup {None}, value : Payloads \cup {None},
         data : Data, result : Results,
         seen : SUBSET Names, left : SUBSET Names, counted : SUBSET Names]

Idle(r) == [pc |-> "idle", name |-> None, value |-> None, data |-> "partial",
            result |-> r, seen |-> {}, left |-> {}, counted |-> {}]

TypeOK ==
    /\ final \in [Names -> Inodes \cup {None}]
    /\ durable \in SUBSET Names
    /\ litter \in BOOLEAN
    /\ job \in [Procs -> Jobs]
    /\ \A p \in Procs : job[p].pc \in PublishPcs =>
            job[p].name \in Names /\ job[p].value \in Payloads
    /\ acked \in [Names -> Payloads \cup {None}]
    /\ calls \in 0..MaxCalls /\ outages \in 0..MaxOutages

Init ==
    /\ final = [n \in Names |-> None]
    /\ durable = {}
    /\ litter = FALSE
    /\ job = [p \in Procs |-> Idle("none")]
    /\ acked = [n \in Names |-> None]
    /\ calls = 0 /\ outages = 0

Published == {n \in Names : final[n] # None}

\* The temporary file of a call exists from its open to its unlink.
HasTemporary(p) ==
    job[p].pc \in {"write", "fsync", "close", "link", "unlink", "discard"}

----------------------------------------------------------------------------
(* Publication: create_plan, create_approval -> _publish_exclusive_record  *)

Become(p, j) == job' = [job EXCEPT ![p] = j]

StartPublish(p, n, v) ==
    /\ job[p].pc = "idle" /\ calls < MaxCalls
    /\ calls' = calls + 1
    /\ Become(p, [Idle("none") EXCEPT !.pc = "open", !.name = n, !.value = v])
    /\ UNCHANGED <<final, durable, litter, acked, outages>>

Goto(p, from, to) ==
    /\ job[p].pc = from
    /\ Become(p, [job[p] EXCEPT !.pc = to])

Return(p, r) == Become(p, Idle(r))

OpenTemporary(p) ==
    /\ Goto(p, "open", "write")
    /\ UNCHANGED <<final, durable, litter, acked, calls, outages>>

\* os.open failed: there is nothing to remove.
OpenFails(p) ==
    /\ job[p].pc = "open"
    /\ Return(p, "failed")
    /\ UNCHANGED <<final, durable, litter, acked, calls, outages>>

WriteAll(p) ==
    /\ job[p].pc = "write"
    /\ Become(p, [job[p] EXCEPT !.pc = "fsync", !.data = "whole"])
    /\ UNCHANGED <<final, durable, litter, acked, calls, outages>>

\* Mutant: the record is linked without an fsync of its bytes.
SyncFileSkipped(p) ==
    /\ Goto(p, "fsync", "close")
    /\ UNCHANGED <<final, durable, litter, acked, calls, outages>>

SyncFile(p) ==
    /\ job[p].pc = "fsync"
    /\ Become(p, [job[p] EXCEPT !.pc = "close", !.data = "synced"])
    /\ UNCHANGED <<final, durable, litter, acked, calls, outages>>

CloseFile(p) ==
    /\ Goto(p, "close", "link")
    /\ UNCHANGED <<final, durable, litter, acked, calls, outages>>

\* A short write, an fsync, a close or a link that fails: the temporary file
\* has to go and the call reports that it could not persist the record.
StepFails(p) ==
    /\ job[p].pc \in {"write", "fsync", "close", "link"}
    /\ Become(p, [job[p] EXCEPT !.pc = "discard", !.result = "failed"])
    /\ UNCHANGED <<final, durable, litter, acked, calls, outages>>

\* Mutant: the final name is taken by a rename, which replaces what is there.
LinkReplaces(p) ==
    /\ job[p].pc = "link"
    /\ final' = [final EXCEPT ![job[p].name] = [value |-> job[p].value, data |-> job[p].data]]
    /\ Become(p, [job[p] EXCEPT !.pc = "unlink"])
    /\ UNCHANGED <<durable, litter, acked, calls, outages>>

\* os.link creates the final name, or finds it taken: never both.
Link(p) ==
    /\ job[p].pc = "link"
    /\ final[job[p].name] = None
    /\ final' = [final EXCEPT ![job[p].name] = [value |-> job[p].value, data |-> job[p].data]]
    /\ Become(p, [job[p] EXCEPT !.pc = "unlink"])
    /\ UNCHANGED <<durable, litter, acked, calls, outages>>

LinkExists(p) ==
    /\ job[p].pc = "link"
    /\ final[job[p].name] # None
    /\ Become(p, [job[p] EXCEPT !.pc = "discard", !.result = "exists"])
    /\ UNCHANGED <<final, durable, litter, acked, calls, outages>>

\* _remove_temporary on an error path.  If the unlink fails too, the file
\* stays and _RecordPersistenceFailed replaces whatever was being reported.
Discard(p) ==
    /\ job[p].pc = "discard"
    /\ \/ Return(p, job[p].result) /\ UNCHANGED litter
       \/ Return(p, "failed") /\ litter' = TRUE
    /\ UNCHANGED <<final, durable, acked, calls, outages>>

\* The link is in place; a failing unlink still reports a failed call.
Unlink(p) ==
    /\ job[p].pc = "unlink"
    /\ \/ Become(p, [job[p] EXCEPT !.pc = "fsyncdir"]) /\ UNCHANGED litter
       \/ Return(p, "failed") /\ litter' = TRUE
    /\ UNCHANGED <<final, durable, acked, calls, outages>>

\* Mutant: success is reported without the directory's fsync.
SyncDirectorySkipped(p) ==
    /\ job[p].pc = "fsyncdir"
    /\ acked' = [acked EXCEPT ![job[p].name] = job[p].value]
    /\ Return(p, "stored")
    /\ UNCHANGED <<final, durable, litter, calls, outages>>

\* Syncing the directory makes every entry of it durable, whoever linked it.
SyncDirectory(p) ==
    /\ job[p].pc = "fsyncdir"
    /\ durable' = Published
    /\ acked' = [acked EXCEPT ![job[p].name] = job[p].value]
    /\ Return(p, "stored")
    /\ UNCHANGED <<final, litter, calls, outages>>

SyncDirectoryFails(p) ==
    /\ job[p].pc = "fsyncdir"
    /\ Return(p, "failed")
    /\ UNCHANGED <<final, durable, litter, acked, calls, outages>>

----------------------------------------------------------------------------
(* Listing: list_plans                                                     *)

StartList(p) ==
    /\ job[p].pc = "idle" /\ calls < MaxCalls
    /\ calls' = calls + 1
    /\ Become(p, [Idle("none") EXCEPT !.pc = "scan"])
    /\ UNCHANGED <<final, durable, litter, acked, outages>>

\* First iterdir: the entries whose name is that of a record.
ScanNames(p) ==
    /\ job[p].pc = "scan"
    /\ Become(p, [job[p] EXCEPT !.pc = "recount", !.seen = Published])
    /\ UNCHANGED <<final, durable, litter, acked, calls, outages>>

\* Mutant: the second scan looks for leftovers and does not count.
UndisturbedUncounted(p) == ~litter /\ \A q \in Procs : ~HasTemporary(q)

\* Second iterdir: as many entries of any name?
Undisturbed(p) ==
    /\ ~litter
    /\ \A q \in Procs : ~HasTemporary(q)
    /\ Cardinality(Published) = Cardinality(job[p].seen)

Recount(p) ==
    /\ job[p].pc = "recount"
    /\ IF Undisturbed(p)
          THEN Become(p, [job[p] EXCEPT !.pc = "read", !.left = job[p].seen,
                                        !.counted = Published])
          ELSE Return(p, "stale")
    /\ UNCHANGED <<final, durable, litter, acked, calls, outages>>

\* get_plan of the names, one after the other: each has to be there, and whole.
ReadPlan(p, n) ==
    /\ job[p].pc = "read" /\ n \in job[p].left
    /\ IF final[n] # None /\ final[n].data # "partial"
          THEN Become(p, [job[p] EXCEPT !.left = job[p].left \ {n}])
          ELSE Return(p, "stale")
    /\ UNCHANGED <<final, durable, litter, acked, calls, outages>>

ReturnPlans(p) ==
    /\ job[p].pc = "read" /\ job[p].left = {}
    /\ Become(p, [job[p] EXCEPT !.pc = "idle", !.result = "listed"])
    /\ UNCHANGED <<final, durable, litter, acked, calls, outages>>

\* A scan or the reading of a plan raises.
ListFails(p) ==
    /\ job[p].pc \in {"scan", "recount", "read"}
    /\ Return(p, "stale")
    /\ UNCHANGED <<final, durable, litter, acked, calls, outages>>

----------------------------------------------------------------------------
(* Failures of the environment                                             *)

Kill(p) ==
    /\ job[p].pc # "idle"
    /\ litter' = (litter \/ HasTemporary(p))
    /\ Return(p, "none")
    /\ UNCHANGED <<final, durable, acked, calls, outages>>

\* Every process dies; directory entries that were not synced survive or not;
\* bytes that were not synced are cut short.  A temporary file may be gone, or
\* there again: its unlink need not have been synced.
PowerFailure ==
    /\ outages < MaxOutages
    /\ outages' = outages + 1
    /\ \E kept \in SUBSET (Published \ durable) :
          /\ durable' = durable \cup kept
          /\ final' = [n \in Names |->
                IF n \notin durable \cup kept THEN None
                ELSE [final[n] EXCEPT !.data = IF @ = "synced" THEN @ ELSE "partial"]]
    /\ litter' \in {b \in BOOLEAN : b => calls > 0}
    /\ job' = [p \in Procs |-> Idle("none")]
    /\ UNCHANGED <<acked, calls>>

PublishStep(p) ==
    \/ OpenTemporary(p) \/ OpenFails(p) \/ WriteAll(p) \/ SyncFile(p) \/ CloseFile(p)
    \/ StepFails(p) \/ Link(p) \/ LinkExists(p) \/ Discard(p) \/ Unlink(p)
    \/ SyncDirectory(p) \/ SyncDirectoryFails(p)

ListStep(p) ==
    \/ ScanNames(p) \/ Recount(p) \/ ReturnPlans(p) \/ ListFails(p)
    \/ \E n \in Names : ReadPlan(p, n)

Next ==
    \/ \E p \in Procs :
          \/ \E n \in Names, v \in Payloads : StartPublish(p, n, v)
          \/ StartList(p) \/ PublishStep(p) \/ ListStep(p) \/ Kill(p)
    \/ PowerFailure

Spec == Init /\ [][Next]_vars

----------------------------------------------------------------------------
(* Properties                                                              *)

(* A record under its final name is whole and on disk, whenever a process  *)
(* died or the power failed while it was being published: no reader of     *)
(* get_plan or get_approval ever meets part of a record.                   *)
NoTornRecord == \A n \in Published : final[n].data = "synced"

(* A publication reported as stored is there for good, with the payload of *)
(* the caller that was told so, power failures included; so two callers    *)
(* that race for one name (approve against reject) are never both told     *)
(* that their record is the one.                                           *)
AckedIsForever ==
    \A n \in Names : acked[n] # None =>
        n \in durable /\ n \in Published /\ final[n].value = acked[n]

(* A listing that returns has exactly the records that were there at one   *)
(* moment, that of its second scan, although its two scans are apart and   *)
(* all it compares is how many entries they meet; of the records published *)
(* while it then reads the plans it has none. None it has is gone since.   *)
ListingExact ==
    \A p \in Procs : job[p].result = "listed" =>
        job[p].seen = job[p].counted /\ job[p].seen \subseteq Published

(* The protocol implements a store of write-once records.                  *)
W == INSTANCE WriteOnce WITH
        record <- [n \in Names |-> IF final[n] = None THEN None ELSE final[n].value]

WriteOnceSpec == W!Spec

=============================================================================
