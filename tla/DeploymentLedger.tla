-------------------------- MODULE DeploymentLedger --------------------------
(***************************************************************************)
(* The deployment ledger, state_root/deployment-ledger.jsonl: a hash-      *)
(* chained file that every skillctl process appends to and reads under an  *)
(* advisory lock (flock), one system call per step.                        *)
(*                                                                         *)
(* An entry is its deployment id and the hash of the entry before it.  The *)
(* hash of an entry covers the previous hash, and with it every entry      *)
(* before: it is modelled as the sequence of the ids it covers, which is   *)
(* what a collision-free hash distinguishes.                               *)
(***************************************************************************)
EXTENDS Naturals, Sequences, SequencesExt

CONSTANTS Procs,      \* the skillctl processes
          Ids,        \* deployment ids
          None,       \* "no id"
          MaxCalls,   \* bound on the calls started, over all processes
          MaxOutages  \* bound on power failures

ASSUME NoneAssumption == None \notin Ids
ASSUME BoundsAssumption == MaxCalls \in Nat /\ MaxOutages \in Nat

VARIABLES file,    \* the whole lines of the file, as entries
          torn,    \* TRUE when bytes without a newline follow them
          synced,  \* how many of the lines survive a power failure
          lock,    \* the processes that hold the flock, and in which mode
          job,     \* job[p]: the call process p is executing
          told,    \* the ids whose callers were told "appended"
          calls, outages

vars == <<file, torn, synced, lock, job, told, calls, outages>>

Entries == [id : Ids, prev : Seq(Ids)]

\* canonical_digest of an entry.
Hash(e) == Append(e.prev, e.id)

\* The hash the next entry has to carry: entries[-1].entry_hash, or None.
HeadHash(f) == IF f = <<>> THEN <<>> ELSE Hash(f[Len(f)])

\* What _parse accepts: newline-terminated, each entry chained to the one
\* before it, no deployment id twice.
Chained(f) ==
    /\ \A i \in 1..Len(f) : f[i].prev = (IF i = 1 THEN <<>> ELSE Hash(f[i - 1]))
    /\ \A i, j \in 1..Len(f) : f[i].id = f[j].id => i = j

\* Mutant: an unterminated last line is dropped silently.
ParsesLoosely == Chained(file)

Parses == ~torn /\ Chained(file)

IdsOf(f) == [i \in 1..Len(f) |-> f[i].id]

Pcs == {"idle", "open", "lock", "check", "write", "fsync", "rlock", "read"}
Results == {"none", "appended", "failed", "read"}

\* "prev" is the chain head a call computed, "got" what a read returned.
Jobs == [pc : Pcs, id : Ids \cup {None}, prev : Seq(Ids), got : Seq(Ids), result : Results]

Idle(r) == [pc |-> "idle", id |-> None, prev |-> <<>>, got |-> <<>>, result |-> r]

Appending == {"open", "lock", "check", "write", "fsync"}

TypeOK ==
    /\ file \in Seq(Entries)
    /\ torn \in BOOLEAN
    /\ synced \in 0..Len(file)
    /\ lock \in [ex : SUBSET Procs, sh : SUBSET Procs]
    /\ job \in [Procs -> Jobs]
    /\ \A p \in Procs : job[p].pc \in Appending => job[p].id \in Ids
    /\ told \in SUBSET Ids
    /\ calls \in 0..MaxCalls /\ outages \in 0..MaxOutages

Init ==
    /\ file = <<>> /\ torn = FALSE /\ synced = 0
    /\ lock = [ex |-> {}, sh |-> {}]
    /\ job = [p \in Procs |-> Idle("none")]
    /\ told = {}
    /\ calls = 0 /\ outages = 0

Become(p, j) == job' = [job EXCEPT ![p] = j]
Goto(p, pc) == Become(p, [job[p] EXCEPT !.pc = pc])

Release(p) == lock' = [ex |-> lock.ex \ {p}, sh |-> lock.sh \ {p}]

\* Leaving the "with" block closes the file and gives the lock back.
Return(p, r) == Release(p) /\ Become(p, Idle(r))

----------------------------------------------------------------------------
(* append                                                                  *)

\* A caller may append an id the ledger already has: append refuses it.
StartAppend(p, d) ==
    /\ job[p].pc = "idle" /\ calls < MaxCalls
    /\ calls' = calls + 1
    /\ Become(p, [Idle("none") EXCEPT !.pc = "open", !.id = d])
    /\ UNCHANGED <<file, torn, synced, lock, told, outages>>

OpenLedger(p) ==
    /\ job[p].pc = "open"
    /\ \/ Goto(p, "lock") /\ UNCHANGED lock
       \/ Return(p, "failed")
    /\ UNCHANGED <<file, torn, synced, told, calls, outages>>

\* Mutant: the lock is taken in shared mode, as a reader does.
LockSharedToAppend(p) ==
    /\ job[p].pc = "lock"
    /\ lock.ex = {}
    /\ lock' = [lock EXCEPT !.sh = @ \cup {p}]
    /\ Goto(p, "check")
    /\ UNCHANGED <<file, torn, synced, told, calls, outages>>

LockExclusive(p) ==
    /\ job[p].pc = "lock"
    /\ lock.ex = {} /\ lock.sh = {}
    /\ lock' = [lock EXCEPT !.ex = {p}]
    /\ Goto(p, "check")
    /\ UNCHANGED <<file, torn, synced, told, calls, outages>>

\* Reads and parses the whole file, refuses a duplicate id, chains the entry.
CheckAndChain(p) ==
    /\ job[p].pc = "check"
    /\ Parses
    /\ \A i \in 1..Len(file) : file[i].id # job[p].id
    /\ Become(p, [job[p] EXCEPT !.pc = "write", !.prev = HeadHash(file)])
    /\ UNCHANGED <<file, torn, synced, lock, told, calls, outages>>

\* Mutant: the error path returns and leaves the file open, and locked.
CheckRefusesLocked(p) ==
    /\ job[p].pc = "check"
    /\ \/ ~Parses
       \/ \E i \in 1..Len(file) : file[i].id = job[p].id
    /\ Become(p, Idle("failed"))
    /\ UNCHANGED <<file, torn, synced, lock, told, calls, outages>>

CheckRefuses(p) ==
    /\ job[p].pc = "check"
    /\ \/ ~Parses
       \/ \E i \in 1..Len(file) : file[i].id = job[p].id
    /\ Return(p, "failed")
    /\ UNCHANGED <<file, torn, synced, told, calls, outages>>

NewEntry(p) == [id |-> job[p].id, prev |-> job[p].prev]

\* Mutant: the file is rewritten from its start.
WriteLineTruncates(p) ==
    /\ job[p].pc = "write"
    /\ file' = <<NewEntry(p)>>
    /\ Goto(p, "fsync")
    /\ UNCHANGED <<torn, synced, lock, told, calls, outages>>

\* write and flush: O_APPEND puts the line at the end of the file.
WriteLine(p) ==
    /\ job[p].pc = "write"
    /\ file' = Append(file, NewEntry(p))
    /\ Goto(p, "fsync")
    /\ UNCHANGED <<torn, synced, lock, told, calls, outages>>

\* What a write that ends early leaves in the file: nothing, part of the
\* line, or all of it (the close on the way out flushes the buffer again).
WriteEndsEarly(p) ==
    \/ UNCHANGED <<file, torn>>
    \/ torn' = TRUE /\ UNCHANGED file
    \/ file' = Append(file, NewEntry(p)) /\ UNCHANGED torn

WriteFails(p) ==
    /\ job[p].pc = "write"
    /\ WriteEndsEarly(p)
    /\ Return(p, "failed")
    /\ UNCHANGED <<synced, told, calls, outages>>

\* Mutant: success is reported without the fsync.
SyncLedgerSkipped(p) ==
    /\ job[p].pc = "fsync"
    /\ told' = told \cup {job[p].id}
    /\ Return(p, "appended")
    /\ UNCHANGED <<file, torn, synced, calls, outages>>

SyncLedger(p) ==
    /\ job[p].pc = "fsync"
    /\ synced' = Len(file) /\ told' = told \cup {job[p].id}
    /\ Return(p, "appended")
    /\ UNCHANGED <<file, torn, calls, outages>>

\* The entry is in the file, the caller is told that the append failed.
SyncFails(p) ==
    /\ job[p].pc = "fsync"
    /\ Return(p, "failed")
    /\ UNCHANGED <<file, torn, synced, told, calls, outages>>

----------------------------------------------------------------------------
(* read_all                                                                *)

StartRead(p) ==
    /\ job[p].pc = "idle" /\ calls < MaxCalls
    /\ calls' = calls + 1
    /\ Become(p, [Idle("none") EXCEPT !.pc = "rlock"])
    /\ UNCHANGED <<file, torn, synced, lock, told, outages>>

LockShared(p) ==
    /\ job[p].pc = "rlock"
    /\ lock.ex = {}
    /\ lock' = [lock EXCEPT !.sh = @ \cup {p}]
    /\ Goto(p, "read")
    /\ UNCHANGED <<file, torn, synced, told, calls, outages>>

\* The open or the flock fails: the caller is told that the chain is invalid.
ReadFails(p) ==
    /\ job[p].pc = "rlock"
    /\ Return(p, "failed")
    /\ UNCHANGED <<file, torn, synced, told, calls, outages>>

ReadAll(p) ==
    /\ job[p].pc = "read"
    /\ Release(p)
    /\ Become(p, IF Parses THEN [Idle("read") EXCEPT !.got = IdsOf(file)] ELSE Idle("failed"))
    /\ UNCHANGED <<file, torn, synced, told, calls, outages>>

----------------------------------------------------------------------------
(* Failures of the environment                                             *)

\* A killed process may have written part of its line; the kernel gives its
\* lock back.
Kill(p) ==
    /\ job[p].pc # "idle"
    /\ IF job[p].pc = "write" THEN WriteEndsEarly(p) ELSE UNCHANGED <<file, torn>>
    /\ Return(p, "none")
    /\ UNCHANGED <<synced, told, calls, outages>>

\* Lines that were not synced may be lost, the first of them in part.
PowerFailure ==
    /\ outages < MaxOutages
    /\ outages' = outages + 1
    /\ \E n \in synced..Len(file) :
          /\ file' = SubSeq(file, 1, n)
          /\ torn' \in {FALSE, torn \/ n < Len(file)}
          /\ synced' = n
    /\ lock' = [ex |-> {}, sh |-> {}]
    /\ job' = [p \in Procs |-> Idle("none")]
    /\ UNCHANGED <<told, calls>>

AppendStep(p) ==
    \/ OpenLedger(p) \/ LockExclusive(p) \/ CheckAndChain(p) \/ CheckRefuses(p)
    \/ WriteLine(p) \/ WriteFails(p) \/ SyncLedger(p) \/ SyncFails(p)

ReadStep(p) == LockShared(p) \/ ReadFails(p) \/ ReadAll(p)

Next ==
    \/ \E p \in Procs :
          \/ \E d \in Ids : StartAppend(p, d)
          \/ StartRead(p) \/ AppendStep(p) \/ ReadStep(p) \/ Kill(p)
    \/ PowerFailure

Spec == Init /\ [][Next]_vars

\* The scheduler lets every process run on, and the kernel grants a free lock.
FairSpec == Spec /\ \A p \in Procs : WF_vars(AppendStep(p) \/ ReadStep(p))

----------------------------------------------------------------------------
(* Properties                                                              *)

(* The lines in the file always chain: appenders that run concurrently,    *)
(* die in the middle of a write or are told that their append failed       *)
(* leave no forked or duplicated entry, so the only way the ledger becomes *)
(* unreadable is an unterminated last line.                                *)
ChainIntact == Chained(file)

(* Entries whose append was reported as done survive power failures.       *)
AppendedSurvives == told \subseteq {file[i].id : i \in 1..Len(file)}

(* What read_all returned stays a prefix of the ledger, until a power      *)
(* failure: nobody acts on an entry that is withdrawn afterwards.          *)
ReadsAreStable ==
    \A p \in Procs : job[p].result = "read" => IsPrefix(job[p].got, IdsOf(file))

(* Every append and every read that was started returns: no path through   *)
(* append or read_all keeps the lock.                                      *)
CallsReturn == \A p \in Procs : job[p].pc # "idle" ~> job[p].pc = "idle"

(* The file implements an append-only log.                                 *)
L == INSTANCE AppendOnlyLog WITH log <- IdsOf(file), closed <- torn

AppendOnlyLogSpec == L!Spec

=============================================================================
