------------------------- MODULE RecordStore_proofs -------------------------
(***************************************************************************)
(* Proofs about RecordStore, for any number of processes, names, payloads, *)
(* calls and power failures: type correctness, the inductive invariant     *)
(* behind NoTornRecord and AckedIsForever, that a listing is what was in   *)
(* the directory at its second scan (ListingExact), and the refinement of  *)
(* WriteOnce.                                                              *)
(***************************************************************************)
EXTENDS RecordStore, FiniteSetTheorems, TLAPS

DurableIsPublished == durable \subseteq Published

Typed == TypeOK /\ DurableIsPublished

\* A job that can follow: of the right type, and naming what it publishes.
Sound(j) ==
    j \in Jobs /\ (j.pc \in PublishPcs => j.name \in Names /\ j.value \in Payloads)

LEMMA IdleSound ==
    /\ \A r \in Results : Sound(Idle(r))
    /\ \A r \in Results : Idle(r).pc = "idle" /\ Idle(r).seen = {}
    /\ Sound([Idle("none") EXCEPT !.pc = "scan"])
    /\ \A n \in Names, v \in Payloads :
          Sound([Idle("none") EXCEPT !.pc = "open", !.name = n, !.value = v])
BY DEF Sound, Idle, Jobs, Pcs, PublishPcs, Data, Results

\* A step that changes one job to a sound one keeps the typing of jobs.
LEMMA BecomeTyped ==
    ASSUME TypeOK, NEW p \in Procs, NEW j, Sound(j), Become(p, j)
    PROVE  /\ job' \in [Procs -> Jobs]
           /\ \A q \in Procs : job'[q].pc \in PublishPcs =>
                  job'[q].name \in Names /\ job'[q].value \in Payloads
BY DEF TypeOK, Sound, Become

LEMMA ReturnTyped ==
    ASSUME TypeOK, NEW p \in Procs, NEW r \in Results, Return(p, r)
    PROVE  /\ job' \in [Procs -> Jobs]
           /\ \A q \in Procs : job'[q].pc \in PublishPcs =>
                  job'[q].name \in Names /\ job'[q].value \in Payloads
BY IdleSound, BecomeTyped DEF Return

LEMMA InitTyped == Init => Typed
<1> SUFFICES ASSUME Init PROVE Typed
    OBVIOUS
<1>1. Sound(Idle("none")) /\ Idle("none").pc \notin PublishPcs
    BY IdleSound DEF Results, Idle, PublishPcs
<1>2. \A p \in Procs : job[p].pc \notin PublishPcs
    BY <1>1 DEF Init
<1>3. job \in [Procs -> Jobs]
    BY <1>1 DEF Init, Sound
<1>4. calls \in 0..MaxCalls /\ outages \in 0..MaxOutages
    BY BoundsAssumption DEF Init
<1>5. /\ final \in [Names -> Inodes \cup {None}] /\ acked \in [Names -> Payloads \cup {None}]
      /\ durable = {} /\ litter \in BOOLEAN
    BY DEF Init
<1> QED
    BY <1>2, <1>3, <1>4, <1>5 DEF Typed, TypeOK, DurableIsPublished

(* Every step keeps the types.                                             *)
LEMMA NextTyped == ASSUME Typed, [Next]_vars PROVE Typed'
<1> USE DEF Typed
<1>1. ASSUME NEW p \in Procs, NEW n \in Names, NEW v \in Payloads, StartPublish(p, n, v)
      PROVE  Typed'
  <2>1. Sound([Idle("none") EXCEPT !.pc = "open", !.name = n, !.value = v])
    BY IdleSound
  <2>2. calls' \in 0..MaxCalls
    BY <1>1, BoundsAssumption DEF StartPublish, TypeOK
  <2> QED BY <1>1, <2>1, <2>2, BecomeTyped
          DEF StartPublish, TypeOK, DurableIsPublished, Published
<1>2. ASSUME NEW p \in Procs, StartList(p) PROVE Typed'
  <2>1. Sound([Idle("none") EXCEPT !.pc = "scan"])
    BY IdleSound
  <2>2. calls' \in 0..MaxCalls
    BY <1>2, BoundsAssumption DEF StartList, TypeOK
  <2> QED BY <1>2, <2>1, <2>2, BecomeTyped
          DEF StartList, TypeOK, DurableIsPublished, Published
<1>3. ASSUME NEW p \in Procs, PublishStep(p) PROVE Typed'
  <2> DEFINE j == job[p]
  <2>0. Sound(j)
    BY DEF TypeOK, Sound
  <2>1. CASE OpenTemporary(p)
    <3>1. Sound([j EXCEPT !.pc = "write"])
      BY <2>0, <2>1 DEF OpenTemporary, Goto, Sound, Jobs, Pcs, PublishPcs
    <3> QED BY <2>1, <3>1, BecomeTyped
            DEF OpenTemporary, Goto, TypeOK, DurableIsPublished, Published
  <2>2. CASE OpenFails(p)
    BY <2>2, ReturnTyped DEF OpenFails, Results, TypeOK, DurableIsPublished, Published
  <2>3. CASE WriteAll(p)
    <3>1. Sound([j EXCEPT !.pc = "fsync", !.data = "whole"])
      BY <2>0, <2>3 DEF WriteAll, Sound, Jobs, Pcs, PublishPcs, Data
    <3> QED BY <2>3, <3>1, BecomeTyped DEF WriteAll, TypeOK, DurableIsPublished, Published
  <2>4. CASE SyncFile(p)
    <3>1. Sound([j EXCEPT !.pc = "close", !.data = "synced"])
      BY <2>0, <2>4 DEF SyncFile, Sound, Jobs, Pcs, PublishPcs, Data
    <3> QED BY <2>4, <3>1, BecomeTyped DEF SyncFile, TypeOK, DurableIsPublished, Published
  <2>5. CASE CloseFile(p)
    <3>1. Sound([j EXCEPT !.pc = "link"])
      BY <2>0, <2>5 DEF CloseFile, Goto, Sound, Jobs, Pcs, PublishPcs
    <3> QED BY <2>5, <3>1, BecomeTyped
            DEF CloseFile, Goto, TypeOK, DurableIsPublished, Published
  <2>6. CASE StepFails(p)
    <3>1. Sound([j EXCEPT !.pc = "discard", !.result = "failed"])
      BY <2>0, <2>6 DEF StepFails, Sound, Jobs, Pcs, PublishPcs, Results
    <3> QED BY <2>6, <3>1, BecomeTyped DEF StepFails, TypeOK, DurableIsPublished, Published
  <2>7. CASE Link(p)
    <3>1. Sound([j EXCEPT !.pc = "unlink"]) /\ [value |-> j.value, data |-> j.data] \in Inodes
      BY <2>0, <2>7 DEF Link, Sound, Jobs, Pcs, PublishPcs, Inodes
    <3>2. [value |-> j.value, data |-> j.data] # None \/ None \in Inodes
      BY <3>1
    <3>3. durable \subseteq Published'
      <4> SUFFICES ASSUME NEW n \in durable PROVE n \in Names /\ final'[n] # None
          BY DEF Published
      <4>1. n \in Names /\ final[n] # None /\ n # j.name
          BY <2>7 DEF DurableIsPublished, Published, Link
      <4> QED BY <4>1, <2>7 DEF Link, TypeOK
    <3> QED BY <2>7, <3>1, <3>3, BecomeTyped DEF Link, TypeOK, DurableIsPublished
  <2>8. CASE LinkExists(p)
    <3>1. Sound([j EXCEPT !.pc = "discard", !.result = "exists"])
      BY <2>0, <2>8 DEF LinkExists, Sound, Jobs, Pcs, PublishPcs, Results
    <3> QED BY <2>8, <3>1, BecomeTyped DEF LinkExists, TypeOK, DurableIsPublished, Published
  <2>9. CASE Discard(p)
    <3>1. j.result \in Results /\ "failed" \in Results
      BY <2>0 DEF Sound, Jobs, Results
    <3> QED BY <2>9, <3>1, ReturnTyped DEF Discard, TypeOK, DurableIsPublished, Published
  <2>10. CASE Unlink(p)
    <3>1. Sound([j EXCEPT !.pc = "fsyncdir"]) /\ "failed" \in Results
      BY <2>0, <2>10 DEF Unlink, Sound, Jobs, Pcs, PublishPcs, Results
    <3> QED BY <2>10, <3>1, ReturnTyped, BecomeTyped
            DEF Unlink, TypeOK, DurableIsPublished, Published
  <2>11. CASE SyncDirectory(p)
    <3>1. j.value \in Payloads /\ "stored" \in Results
      BY <2>0, <2>11 DEF SyncDirectory, Sound, PublishPcs, Results
    <3> QED BY <2>11, <3>1, ReturnTyped DEF SyncDirectory, TypeOK, DurableIsPublished, Published
  <2>12. CASE SyncDirectoryFails(p)
    BY <2>12, ReturnTyped
    DEF SyncDirectoryFails, Results, TypeOK, DurableIsPublished, Published
  <2> QED
    BY <1>3, <2>1, <2>2, <2>3, <2>4, <2>5, <2>6, <2>7, <2>8, <2>9, <2>10, <2>11, <2>12
    DEF PublishStep
<1>4. ASSUME NEW p \in Procs, ListStep(p) PROVE Typed'
  <2> DEFINE j == job[p]
  <2>0. Sound(j)
    BY DEF TypeOK, Sound
  <2>1. CASE ScanNames(p)
    <3>1. Sound([j EXCEPT !.pc = "recount", !.seen = Published])
      BY <2>0, <2>1 DEF ScanNames, Sound, Jobs, Pcs, PublishPcs, Published
    <3> QED BY <2>1, <3>1, BecomeTyped DEF ScanNames, TypeOK, DurableIsPublished, Published
  <2>2. CASE Recount(p)
    <3>1. /\ Sound([j EXCEPT !.pc = "read", !.left = j.seen, !.counted = Published])
          /\ "stale" \in Results
      BY <2>0, <2>2 DEF Recount, Sound, Jobs, Pcs, PublishPcs, Results, Published
    <3> QED BY <2>2, <3>1, BecomeTyped, ReturnTyped
            DEF Recount, TypeOK, DurableIsPublished, Published
  <2>3. ASSUME NEW n \in Names, ReadPlan(p, n) PROVE Typed'
    <3>1. Sound([j EXCEPT !.left = j.left \ {n}]) /\ "stale" \in Results
      BY <2>0, <2>3 DEF ReadPlan, Sound, Jobs, Pcs, PublishPcs, Results
    <3> QED BY <2>3, <3>1, BecomeTyped, ReturnTyped
            DEF ReadPlan, TypeOK, DurableIsPublished, Published
  <2>4. CASE ReturnPlans(p)
    <3>1. Sound([j EXCEPT !.pc = "idle", !.result = "listed"])
      BY <2>0, <2>4 DEF ReturnPlans, Sound, Jobs, Pcs, PublishPcs, Results
    <3> QED BY <2>4, <3>1, BecomeTyped
            DEF ReturnPlans, TypeOK, DurableIsPublished, Published
  <2>5. CASE ListFails(p)
    BY <2>5, ReturnTyped DEF ListFails, Results, TypeOK, DurableIsPublished, Published
  <2> QED BY <1>4, <2>1, <2>2, <2>3, <2>4, <2>5 DEF ListStep
<1>5. ASSUME NEW p \in Procs, Kill(p) PROVE Typed'
  BY <1>5, ReturnTyped
  DEF Kill, HasTemporary, Results, TypeOK, DurableIsPublished, Published
<1>6. CASE PowerFailure
  <2>1. /\ job' \in [Procs -> Jobs]
        /\ \A q \in Procs : job'[q].pc \notin PublishPcs
    BY <1>6, IdleSound DEF PowerFailure, Sound, Results, Idle, PublishPcs
  <2> PICK kept \in SUBSET (Published \ durable) :
        /\ durable' = durable \cup kept
        /\ final' = [n \in Names |->
                IF n \notin durable \cup kept THEN None
                ELSE [final[n] EXCEPT !.data = IF @ = "synced" THEN @ ELSE "partial"]]
    BY <1>6 DEF PowerFailure
  <2>2. ASSUME NEW n \in Names, n \in durable \cup kept
        PROVE  final'[n] \in Inodes /\ final'[n] # None
    <3>1. final[n] \in Inodes /\ final[n] # None
      BY <2>2 DEF TypeOK, DurableIsPublished, Published
    <3>2. final'[n] = [final[n] EXCEPT !.data = IF @ = "synced" THEN @ ELSE "partial"]
      BY <2>2
    <3>3. PICK d \in Data : final'[n] = [final[n] EXCEPT !.data = d]
      BY <3>2 DEF Data
    <3>4. final'[n] \in Inodes
      BY <3>1, <3>3 DEF Inodes
    <3> QED BY <3>4, NoneIsNoInode
  <2>3. ASSUME NEW n \in Names, n \notin durable \cup kept PROVE final'[n] = None
    BY <2>3
  <2>4. final' \in [Names -> Inodes \cup {None}]
    BY <2>2, <2>3
  <2>5. durable' \subseteq Published'
    BY <2>2 DEF Published, TypeOK, DurableIsPublished
  <2>6. outages' \in 0..MaxOutages
    BY <1>6, BoundsAssumption DEF PowerFailure, TypeOK
  <2>7. litter' \in BOOLEAN /\ acked' = acked /\ calls' = calls
    BY <1>6 DEF PowerFailure, TypeOK
  <2>8. durable' \in SUBSET Names
    BY <2>5 DEF Published
  <2> QED BY <2>1, <2>4, <2>5, <2>6, <2>7, <2>8 DEF TypeOK, DurableIsPublished
<1>7. CASE UNCHANGED vars
  BY <1>7 DEF vars, TypeOK, DurableIsPublished, Published
<1> QED
  BY <1>1, <1>2, <1>3, <1>4, <1>5, <1>6, <1>7 DEF Next

(* RecordStore is type correct.                                            *)
THEOREM TypeCorrect == Spec => []TypeOK
<1>1. Init => Typed
  BY InitTyped
<1>2. Typed /\ [Next]_vars => Typed'
  BY NextTyped
<1>3. Typed => TypeOK
  BY DEF Typed
<1> QED BY <1>1, <1>2, <1>3, PTL DEF Spec

----------------------------------------------------------------------------
(* The inductive invariant.  NoTornRecord needs that a record is synced    *)
(* before it is linked; AckedIsForever needs that the call whose link is   *)
(* in place is alone in having it, until it is told so.                    *)

Linked(j) == j.pc \in {"unlink", "fsyncdir"}

SyncedBeforeLink == \A p \in Procs : job[p].pc \in {"close", "link"} => job[p].data = "synced"

LinkIsThere ==
    \A p \in Procs : Linked(job[p]) =>
        /\ final[job[p].name] # None
        /\ final[job[p].name].value = job[p].value
        /\ acked[job[p].name] = None

LinkIsExclusive ==
    \A p, q \in Procs :
        Linked(job[p]) /\ Linked(job[q]) /\ job[p].name = job[q].name => p = q

IInv ==
    /\ Typed /\ NoTornRecord /\ AckedIsForever
    /\ SyncedBeforeLink /\ LinkIsThere /\ LinkIsExclusive

LEMMA InitIInv == Init => IInv
<1> SUFFICES ASSUME Init PROVE IInv
    OBVIOUS
<1>1. Typed
    BY InitTyped
<1>2. \A p \in Procs : job[p].pc = "idle"
    BY DEF Init, Idle
<1>3. Published = {} /\ \A n \in Names : acked[n] = None
    BY DEF Init, Published
<1> QED
    BY <1>1, <1>2, <1>3
    DEF IInv, NoTornRecord, AckedIsForever, SyncedBeforeLink, LinkIsThere, LinkIsExclusive, Linked

\* A call that moves on without touching the directory keeps the invariant,
\* when it takes no link and passes the fsync only with synced bytes.
LEMMA QuietIInv ==
    ASSUME IInv, Typed', NEW p \in Procs, NEW j, Become(p, j),
           UNCHANGED <<final, durable, acked>>,
           Linked(j) => Linked(job[p]) /\ j.name = job[p].name /\ j.value = job[p].value,
           j.pc \in {"close", "link"} => j.data = "synced"
    PROVE  IInv'
<1>1. /\ job'[p] = j
      /\ \A q \in Procs : q # p => job'[q] = job[q]
    BY DEF IInv, Typed, TypeOK, Become
<1>2. NoTornRecord' /\ AckedIsForever'
    BY DEF IInv, NoTornRecord, AckedIsForever, Published
<1>3. SyncedBeforeLink'
    BY <1>1 DEF IInv, SyncedBeforeLink
<1>4. LinkIsThere'
    BY <1>1 DEF IInv, LinkIsThere
<1>5. LinkIsExclusive'
    BY <1>1 DEF IInv, LinkIsExclusive
<1> QED BY <1>2, <1>3, <1>4, <1>5 DEF IInv

LEMMA ReturnIInv ==
    ASSUME IInv, Typed', NEW p \in Procs, NEW r, Return(p, r), UNCHANGED <<final, durable, acked>>
    PROVE  IInv'
<1>1. ~Linked(Idle(r)) /\ Idle(r).pc \notin {"close", "link"}
    BY DEF Linked, Idle
<1> QED BY <1>1, QuietIInv DEF Return

\* The step that links a record.
LEMMA LinkIInv == ASSUME IInv, Typed', NEW p \in Procs, Link(p) PROVE IInv'
<1> DEFINE n == job[p].name
<1>1. n \in Names /\ job[p] \in Jobs
    BY DEF IInv, Typed, TypeOK, Link, PublishPcs
<1>2. /\ final'[n] = [value |-> job[p].value, data |-> job[p].data]
      /\ \A m \in Names : m # n => final'[m] = final[m]
      /\ acked' = acked /\ durable' = durable
      /\ final[n] = None /\ job[p].data = "synced"
    BY <1>1 DEF IInv, Typed, TypeOK, Link, SyncedBeforeLink
<1>3. /\ job'[p] = [job[p] EXCEPT !.pc = "unlink"]
      /\ \A q \in Procs : q # p => job'[q] = job[q]
    BY DEF IInv, Typed, TypeOK, Become, Link
<1>4. job'[p].pc = "unlink" /\ job'[p].name = n /\ job'[p].value = job[p].value
    BY <1>1, <1>3 DEF Jobs
<1>5. final'[n] # None /\ final'[n].value = job[p].value /\ final'[n].data = "synced"
  <2>1. final'[n] \in Inodes
    BY <1>1, <1>2 DEF IInv, Typed, TypeOK, Link, PublishPcs, Inodes, Data
  <2> QED BY <2>1, <1>2, NoneIsNoInode
<1>6. acked[n] = None
    BY <1>1, <1>2 DEF IInv, AckedIsForever, Published
<1>7. \A q \in Procs : q # p /\ Linked(job[q]) => job[q].name # n /\ job[q].name \in Names
    BY <1>2 DEF IInv, LinkIsThere, Linked, Typed, TypeOK, PublishPcs
<1>8. NoTornRecord'
    BY <1>2, <1>5 DEF IInv, NoTornRecord, Published
<1>9. AckedIsForever'
    BY <1>1, <1>2, <1>6 DEF IInv, AckedIsForever, Published
<1>10. SyncedBeforeLink'
    BY <1>3, <1>4 DEF IInv, SyncedBeforeLink
<1>11. LinkIsThere'
  <2> SUFFICES ASSUME NEW q \in Procs, Linked(job'[q])
               PROVE  /\ final'[job'[q].name] # None
                      /\ final'[job'[q].name].value = job'[q].value
                      /\ acked'[job'[q].name] = None
    BY DEF LinkIsThere
  <2>1. CASE q = p
    BY <2>1, <1>2, <1>4, <1>5, <1>6
  <2>2. CASE q # p
    BY <2>2, <1>2, <1>3, <1>7 DEF IInv, LinkIsThere
  <2> QED BY <2>1, <2>2
<1>12. LinkIsExclusive'
  <2> SUFFICES ASSUME NEW q \in Procs, NEW t \in Procs, Linked(job'[q]), Linked(job'[t]),
                      job'[q].name = job'[t].name, q # t
               PROVE  FALSE
    BY DEF LinkIsExclusive
  <2>1. CASE q = p
    BY <2>1, <1>3, <1>4, <1>7
  <2>2. CASE t = p
    BY <2>2, <1>3, <1>4, <1>7
  <2>3. CASE q # p /\ t # p
    BY <2>3, <1>3 DEF IInv, LinkIsExclusive
  <2> QED BY <2>1, <2>2, <2>3
<1> QED BY <1>8, <1>9, <1>10, <1>11, <1>12 DEF IInv

\* The step that makes the directory durable and tells the caller.
LEMMA SyncDirectoryIInv ==
    ASSUME IInv, Typed', NEW p \in Procs, SyncDirectory(p)
    PROVE  IInv'
<1> DEFINE n == job[p].name
<1>1. n \in Names /\ Linked(job[p]) /\ final[n] # None /\ final[n].value = job[p].value
    BY DEF IInv, Typed, TypeOK, SyncDirectory, PublishPcs, Linked, LinkIsThere
<1>2. /\ final' = final /\ durable' = Published /\ Published' = Published
      /\ acked'[n] = job[p].value
      /\ \A m \in Names : m # n => acked'[m] = acked[m]
    BY <1>1 DEF IInv, Typed, TypeOK, SyncDirectory, Published
<1>3. /\ job'[p].pc = "idle"
      /\ \A q \in Procs : q # p => job'[q] = job[q]
    BY DEF IInv, Typed, TypeOK, Become, Return, Idle, SyncDirectory
<1>4. NoTornRecord' /\ SyncedBeforeLink'
    BY <1>2, <1>3 DEF IInv, NoTornRecord, SyncedBeforeLink
<1>5. AckedIsForever'
    BY <1>1, <1>2 DEF IInv, AckedIsForever, Published
<1>6. \A q \in Procs : Linked(job'[q]) =>
          q # p /\ Linked(job[q]) /\ job[q].name # n /\ job[q].name \in Names
    BY <1>1, <1>3 DEF IInv, Linked, LinkIsExclusive, Typed, TypeOK, PublishPcs
<1>7. LinkIsThere' /\ LinkIsExclusive'
    BY <1>2, <1>3, <1>6 DEF IInv, LinkIsThere, LinkIsExclusive
<1> QED BY <1>4, <1>5, <1>7 DEF IInv

\* What a power failure leaves of the directory.
LEMMA PowerFailureKeeps ==
    ASSUME IInv, PowerFailure
    PROVE  /\ durable \subseteq durable' /\ durable' \subseteq Published
           /\ acked' = acked
           /\ \A m \in durable' : final'[m] \in Inodes /\ final'[m] # None
                    /\ final'[m].value = final[m].value /\ final'[m].data = "synced"
           /\ \A m \in Names \ durable' : final'[m] = None
           /\ \A q \in Procs : job'[q].pc = "idle"
<1> PICK kept \in SUBSET (Published \ durable) :
        /\ durable' = durable \cup kept
        /\ final' = [m \in Names |->
                IF m \notin durable \cup kept THEN None
                ELSE [final[m] EXCEPT !.data = IF @ = "synced" THEN @ ELSE "partial"]]
    BY DEF PowerFailure
<1>1. durable \subseteq durable' /\ durable' \subseteq Published
    BY DEF IInv, Typed, DurableIsPublished
<1>2. ASSUME NEW m \in durable'
      PROVE  /\ final'[m] \in Inodes /\ final'[m] # None
             /\ final'[m].value = final[m].value /\ final'[m].data = "synced"
  <2>1. m \in Names /\ final[m] \in Inodes /\ final[m].data = "synced"
    BY <1>1, <1>2 DEF IInv, Typed, TypeOK, Published, NoTornRecord
  <2>2. final'[m] = [final[m] EXCEPT !.data = "synced"]
    BY <2>1, <1>2
  <2>3. final'[m] = [value |-> final[m].value, data |-> "synced"] /\ final'[m] \in Inodes
    BY <2>1, <2>2 DEF Inodes, Data
  <2> QED BY <2>3, NoneIsNoInode
<1>3. \A m \in Names \ durable' : final'[m] = None
    OBVIOUS
<1>4. acked' = acked /\ \A q \in Procs : job'[q].pc = "idle"
    BY DEF PowerFailure, Idle
<1> QED BY <1>1, <1>2, <1>3, <1>4

LEMMA PowerFailureIInv == ASSUME IInv, Typed', PowerFailure PROVE IInv'
<1>1. Published' = durable'
    BY PowerFailureKeeps DEF Published
<1>2. NoTornRecord'
    BY <1>1, PowerFailureKeeps DEF NoTornRecord
<1>3. AckedIsForever'
    BY <1>1, PowerFailureKeeps DEF IInv, AckedIsForever
<1>4. SyncedBeforeLink' /\ LinkIsThere' /\ LinkIsExclusive'
    BY PowerFailureKeeps DEF SyncedBeforeLink, LinkIsThere, LinkIsExclusive, Linked
<1> QED BY <1>2, <1>3, <1>4 DEF IInv

LEMMA NextIInv == ASSUME IInv, [Next]_vars PROVE IInv'
<1>0. Typed'
  BY NextTyped DEF IInv
<1> USE <1>0
<1>1. ASSUME NEW p \in Procs, NEW n \in Names, NEW v \in Payloads, StartPublish(p, n, v) PROVE IInv'
  <2> DEFINE j == [Idle("none") EXCEPT !.pc = "open", !.name = n, !.value = v]
  <2>1. Become(p, j) /\ UNCHANGED <<final, durable, acked>>
    BY <1>1 DEF StartPublish
  <2>2. ~Linked(j) /\ j.pc \notin {"close", "link"}
    BY DEF Linked, Idle
  <2> QED BY <2>1, <2>2, QuietIInv
<1>2. ASSUME NEW p \in Procs, StartList(p) PROVE IInv'
  <2> DEFINE j == [Idle("none") EXCEPT !.pc = "scan"]
  <2>1. Become(p, j) /\ UNCHANGED <<final, durable, acked>>
    BY <1>2 DEF StartList
  <2>2. ~Linked(j) /\ j.pc \notin {"close", "link"}
    BY DEF Linked, Idle
  <2> QED BY <2>1, <2>2, QuietIInv
<1>3. ASSUME NEW p \in Procs, PublishStep(p) PROVE IInv'
  <2>0. job[p] \in Jobs
    BY DEF IInv, Typed, TypeOK
  <2>1. CASE OpenTemporary(p)
    <3> DEFINE j == [job[p] EXCEPT !.pc = "write"]
    <3>1. Become(p, j) /\ UNCHANGED <<final, durable, acked>>
      BY <2>1 DEF OpenTemporary, Goto
    <3>2. /\ Linked(j) => Linked(job[p]) /\ j.name = job[p].name /\ j.value = job[p].value
          /\ j.pc \in {"close", "link"} => j.data = "synced"
      BY <2>0, <2>1 DEF OpenTemporary, Goto, Linked, Jobs, IInv, SyncedBeforeLink
    <3> QED BY <3>1, <3>2, QuietIInv
  <2>2. CASE OpenFails(p)
    BY <2>2, ReturnIInv DEF OpenFails
  <2>3. CASE WriteAll(p)
    <3> DEFINE j == [job[p] EXCEPT !.pc = "fsync", !.data = "whole"]
    <3>1. Become(p, j) /\ UNCHANGED <<final, durable, acked>>
      BY <2>3 DEF WriteAll
    <3>2. /\ Linked(j) => Linked(job[p]) /\ j.name = job[p].name /\ j.value = job[p].value
          /\ j.pc \in {"close", "link"} => j.data = "synced"
      BY <2>0, <2>3 DEF WriteAll, Linked, Jobs, IInv, SyncedBeforeLink
    <3> QED BY <3>1, <3>2, QuietIInv
  <2>4. CASE SyncFile(p)
    <3> DEFINE j == [job[p] EXCEPT !.pc = "close", !.data = "synced"]
    <3>1. Become(p, j) /\ UNCHANGED <<final, durable, acked>>
      BY <2>4 DEF SyncFile
    <3>2. /\ Linked(j) => Linked(job[p]) /\ j.name = job[p].name /\ j.value = job[p].value
          /\ j.pc \in {"close", "link"} => j.data = "synced"
      BY <2>0, <2>4 DEF SyncFile, Linked, Jobs, IInv, SyncedBeforeLink
    <3> QED BY <3>1, <3>2, QuietIInv
  <2>5. CASE CloseFile(p)
    <3> DEFINE j == [job[p] EXCEPT !.pc = "link"]
    <3>1. Become(p, j) /\ UNCHANGED <<final, durable, acked>>
      BY <2>5 DEF CloseFile, Goto
    <3>2. /\ Linked(j) => Linked(job[p]) /\ j.name = job[p].name /\ j.value = job[p].value
          /\ j.pc \in {"close", "link"} => j.data = "synced"
      BY <2>0, <2>5 DEF CloseFile, Goto, Linked, Jobs, IInv, SyncedBeforeLink
    <3> QED BY <3>1, <3>2, QuietIInv
  <2>6. CASE StepFails(p)
    <3> DEFINE j == [job[p] EXCEPT !.pc = "discard", !.result = "failed"]
    <3>1. Become(p, j) /\ UNCHANGED <<final, durable, acked>>
      BY <2>6 DEF StepFails
    <3>2. /\ Linked(j) => Linked(job[p]) /\ j.name = job[p].name /\ j.value = job[p].value
          /\ j.pc \in {"close", "link"} => j.data = "synced"
      BY <2>0, <2>6 DEF StepFails, Linked, Jobs, IInv, SyncedBeforeLink
    <3> QED BY <3>1, <3>2, QuietIInv
  <2>7. CASE Link(p)
    BY <2>7, LinkIInv
  <2>8. CASE LinkExists(p)
    <3> DEFINE j == [job[p] EXCEPT !.pc = "discard", !.result = "exists"]
    <3>1. Become(p, j) /\ UNCHANGED <<final, durable, acked>>
      BY <2>8 DEF LinkExists
    <3>2. /\ Linked(j) => Linked(job[p]) /\ j.name = job[p].name /\ j.value = job[p].value
          /\ j.pc \in {"close", "link"} => j.data = "synced"
      BY <2>0, <2>8 DEF LinkExists, Linked, Jobs, IInv, SyncedBeforeLink
    <3> QED BY <3>1, <3>2, QuietIInv
  <2>9. CASE Discard(p)
    BY <2>9, ReturnIInv DEF Discard
  <2>10. CASE Unlink(p)
    <3> DEFINE j == [job[p] EXCEPT !.pc = "fsyncdir"]
    <3>1. UNCHANGED <<final, durable, acked>> /\ (Become(p, j) \/ Return(p, "failed"))
      BY <2>10 DEF Unlink
    <3>2. /\ Linked(j) => Linked(job[p]) /\ j.name = job[p].name /\ j.value = job[p].value
          /\ j.pc \notin {"close", "link"}
      BY <2>0, <2>10 DEF Unlink, Linked, Jobs
    <3> QED BY <3>1, <3>2, QuietIInv, ReturnIInv
  <2>11. CASE SyncDirectory(p)
    BY <2>11, SyncDirectoryIInv
  <2>12. CASE SyncDirectoryFails(p)
    BY <2>12, ReturnIInv DEF SyncDirectoryFails
  <2> QED
    BY <1>3, <2>1, <2>2, <2>3, <2>4, <2>5, <2>6, <2>7, <2>8, <2>9, <2>10, <2>11, <2>12
    DEF PublishStep
<1>4. ASSUME NEW p \in Procs, ListStep(p) PROVE IInv'
  <2>0. job[p] \in Jobs
    BY DEF IInv, Typed, TypeOK
  <2>1. CASE ScanNames(p)
    <3> DEFINE j == [job[p] EXCEPT !.pc = "recount", !.seen = Published]
    <3>1. Become(p, j) /\ UNCHANGED <<final, durable, acked>>
      BY <2>1 DEF ScanNames
    <3>2. /\ Linked(j) => Linked(job[p]) /\ j.name = job[p].name /\ j.value = job[p].value
          /\ j.pc \in {"close", "link"} => j.data = "synced"
      BY <2>0, <2>1 DEF ScanNames, Linked, Jobs, IInv, SyncedBeforeLink
    <3> QED BY <3>1, <3>2, QuietIInv
  <2>2. CASE Recount(p)
    <3> DEFINE j == [job[p] EXCEPT !.pc = "read", !.left = job[p].seen, !.counted = Published]
    <3>1. UNCHANGED <<final, durable, acked>> /\ (Become(p, j) \/ Return(p, "stale"))
      BY <2>2 DEF Recount
    <3>2. ~Linked(j) /\ j.pc \notin {"close", "link"}
      BY <2>0 DEF Linked, Jobs
    <3> QED BY <3>1, <3>2, QuietIInv, ReturnIInv
  <2>3. ASSUME NEW n \in Names, ReadPlan(p, n) PROVE IInv'
    <3> DEFINE j == [job[p] EXCEPT !.left = job[p].left \ {n}]
    <3>1. UNCHANGED <<final, durable, acked>> /\ (Become(p, j) \/ Return(p, "stale"))
      BY <2>3 DEF ReadPlan
    <3>2. ~Linked(j) /\ j.pc \notin {"close", "link"}
      BY <2>0, <2>3 DEF ReadPlan, Linked, Jobs
    <3> QED BY <3>1, <3>2, QuietIInv, ReturnIInv
  <2>4. CASE ReturnPlans(p)
    <3> DEFINE j == [job[p] EXCEPT !.pc = "idle", !.result = "listed"]
    <3>1. UNCHANGED <<final, durable, acked>> /\ Become(p, j)
      BY <2>4 DEF ReturnPlans
    <3>2. ~Linked(j) /\ j.pc \notin {"close", "link"}
      BY <2>0 DEF Linked, Jobs
    <3> QED BY <3>1, <3>2, QuietIInv
  <2>5. CASE ListFails(p)
    BY <2>5, ReturnIInv DEF ListFails
  <2> QED BY <1>4, <2>1, <2>2, <2>3, <2>4, <2>5 DEF ListStep
<1>5. ASSUME NEW p \in Procs, Kill(p) PROVE IInv'
  BY <1>5, ReturnIInv DEF Kill
<1>6. CASE PowerFailure
  BY <1>6, PowerFailureIInv
<1>7. CASE UNCHANGED vars
  BY <1>7 DEF vars, IInv, NoTornRecord, AckedIsForever, SyncedBeforeLink,
              LinkIsThere, LinkIsExclusive, Linked, Published
<1> QED
  BY <1>1, <1>2, <1>3, <1>4, <1>5, <1>6, <1>7 DEF Next

(* The inductive invariant holds of every behaviour.                       *)
LEMMA Invariance == Spec => []IInv
BY InitIInv, NextIInv, PTL DEF Spec

(* No final name ever holds part of a record.                              *)
THEOREM RecordsAreWhole == Spec => []NoTornRecord
<1>1. IInv => NoTornRecord
  BY DEF IInv
<1> QED BY <1>1, Invariance, PTL

(* What a caller was told is stored stays stored, with that payload.       *)
THEOREM AcknowledgedStays == Spec => []AckedIsForever
<1>1. IInv => AckedIsForever
  BY DEF IInv
<1> QED BY <1>1, Invariance, PTL

----------------------------------------------------------------------------
(* Refinement: a link publishes, the directory's fsync acknowledges, a     *)
(* power failure loses, and nothing else is seen by a reader.              *)

LEMMA InitRefines == Init => W!Init
BY DEF Init, W!Init

LEMMA LinkRefines ==
    ASSUME IInv, NEW p \in Procs, Link(p)
    PROVE  \E n \in Names, v \in Payloads : W!Publish(n, v)
<1> DEFINE n == job[p].name
<1>1. n \in Names /\ job[p].value \in Payloads /\ job[p].data \in Data
  BY DEF IInv, Typed, TypeOK, Link, PublishPcs, Jobs
<1>2. final' = [final EXCEPT ![n] = [value |-> job[p].value, data |-> job[p].data]]
  BY DEF Link
<1>3. final'[n] # None
  BY <1>1, <1>2, NoneIsNoInode DEF IInv, Typed, TypeOK, Inodes
<1>4. \A m \in Names : m # n => final'[m] = final[m]
  BY <1>2 DEF IInv, Typed, TypeOK
<1>5. final'[n].value = job[p].value
  BY <1>1, <1>2 DEF IInv, Typed, TypeOK
<1>6. /\ n \in Names /\ job[p].value \in Payloads /\ final[n] = None /\ acked' = acked
      /\ \A m \in Names : (IF final'[m] = None THEN None ELSE final'[m].value)
            = IF m = n THEN job[p].value ELSE IF final[m] = None THEN None ELSE final[m].value
  BY <1>1, <1>3, <1>4, <1>5 DEF Link
<1> QED BY <1>6 DEF W!Publish

LEMMA SyncDirectoryRefines ==
    ASSUME IInv, NEW p \in Procs, SyncDirectory(p)
    PROVE  \E n \in Names, v \in Payloads : W!Acknowledge(n, v)
<1>1. job[p].name \in Names /\ job[p].value \in Payloads /\ Linked(job[p])
  BY DEF IInv, Typed, TypeOK, SyncDirectory, PublishPcs, Linked
<1>2. final[job[p].name] # None /\ final[job[p].name].value = job[p].value
      /\ acked[job[p].name] = None
  BY <1>1 DEF IInv, LinkIsThere
<1> QED BY <1>1, <1>2 DEF SyncDirectory, W!Acknowledge

LEMMA PowerFailureRefines ==
    ASSUME IInv, PowerFailure
    PROVE  \E S \in SUBSET Names : W!Lose(S)
<1> DEFINE S == Published \ durable'
           record == [n \in Names |-> IF final[n] = None THEN None ELSE final[n].value]
<1>1. \A n \in S : acked[n] = None
  BY PowerFailureKeeps DEF IInv, AckedIsForever, Published
<1>2. ASSUME NEW n \in Names
      PROVE  (IF final'[n] = None THEN None ELSE final'[n].value)
                = IF n \in S THEN None ELSE record[n]
  BY PowerFailureKeeps DEF Published
<1>3. acked' = acked /\ S \in SUBSET Names
  BY PowerFailureKeeps DEF Published
<1> QED BY <1>1, <1>2, <1>3 DEF W!Lose

LEMMA NextRefines == ASSUME IInv, [Next]_vars PROVE [W!Next]_W!vars
<1>1. ASSUME NEW p \in Procs, Link(p) PROVE W!Next
  BY <1>1, LinkRefines DEF W!Next
<1>2. ASSUME NEW p \in Procs, SyncDirectory(p) PROVE W!Next
  BY <1>2, SyncDirectoryRefines DEF W!Next
<1>3. CASE PowerFailure
  BY <1>3, PowerFailureRefines DEF W!Next
<1>4. CASE final' = final /\ acked' = acked
  BY <1>4 DEF W!vars
<1>5. ASSUME NEW p \in Procs, PublishStep(p), ~Link(p), ~SyncDirectory(p)
      PROVE  final' = final /\ acked' = acked
  BY <1>5 DEF PublishStep, OpenTemporary, OpenFails, WriteAll, SyncFile, CloseFile,
              StepFails, LinkExists, Discard, Unlink, SyncDirectoryFails
<1>6. ASSUME NEW p \in Procs, ListStep(p) \/ Kill(p) \/ StartList(p)
      PROVE  final' = final /\ acked' = acked
  BY <1>6 DEF ListStep, ScanNames, Recount, ReadPlan, ReturnPlans, ListFails, Kill, StartList
<1>7. ASSUME NEW p \in Procs, NEW n \in Names, NEW v \in Payloads, StartPublish(p, n, v)
      PROVE  final' = final /\ acked' = acked
  BY <1>7 DEF StartPublish
<1>8. CASE UNCHANGED vars
  BY <1>4, <1>8 DEF vars
<1> QED
  BY <1>1, <1>2, <1>3, <1>4, <1>5, <1>6, <1>7, <1>8 DEF Next

(* The publication protocol implements a store of write-once records.      *)
THEOREM Refinement == Spec => WriteOnceSpec
BY InitRefines, NextRefines, Invariance, PTL DEF Spec, WriteOnceSpec, W!Spec

----------------------------------------------------------------------------
(* Listing.  While it lists, records are only added, so that as many at    *)
(* the second scan as at the first are the same ones.                      *)

\* How far a listing has come: what its first scan has seen is still there;
\* from the second scan on, it is what was counted, and stays there until the
\* call is over and its result is looked at.
ListerOK(j) ==
    /\ j.pc \in {"recount", "read"} \/ j.result = "listed" => j.seen \subseteq Published
    /\ j.pc = "read" \/ j.result = "listed" => j.seen = j.counted
    /\ j.result = "listed" => j.pc = "idle"

FInv == IsFiniteSet(Published) /\ \A p \in Procs : ListerOK(job[p])

LEMMA InitFInv == Init => FInv
<1> SUFFICES ASSUME Init PROVE FInv
    OBVIOUS
<1>1. Published = {} /\ \A p \in Procs : job[p] = Idle("none")
  BY DEF Init, Published
<1> QED BY <1>1, FS_EmptySet DEF FInv, ListerOK, Idle

\* A link publishes one more record; nothing else does.
LEMMA LinkPublishes ==
    ASSUME IInv, NEW p \in Procs, Link(p)
    PROVE  Published' = Published \cup {job[p].name}
<1> DEFINE n == job[p].name
<1>1. n \in Names /\ job[p].value \in Payloads /\ job[p].data \in Data
  BY DEF IInv, Typed, TypeOK, Link, PublishPcs, Jobs
<1>2. final' = [final EXCEPT ![n] = [value |-> job[p].value, data |-> job[p].data]]
  BY DEF Link
<1>3. final'[n] # None
  BY <1>1, <1>2, NoneIsNoInode DEF IInv, Typed, TypeOK, Inodes
<1>4. \A m \in Names : m # n => final'[m] = final[m]
  BY <1>2 DEF IInv, Typed, TypeOK
<1> QED BY <1>1, <1>3, <1>4 DEF Published

LEMMA FinalMoves ==
    ASSUME [Next]_vars PROVE UNCHANGED final \/ PowerFailure \/ \E p \in Procs : Link(p)
<1>1. ASSUME NEW p \in Procs, PublishStep(p), ~Link(p) PROVE UNCHANGED final
  BY <1>1 DEF PublishStep, OpenTemporary, OpenFails, WriteAll, SyncFile, CloseFile,
              StepFails, LinkExists, Discard, Unlink, SyncDirectory, SyncDirectoryFails
<1>2. ASSUME NEW p \in Procs, ListStep(p) \/ Kill(p) \/ StartList(p) PROVE UNCHANGED final
  BY <1>2 DEF ListStep, ScanNames, Recount, ReadPlan, ReturnPlans, ListFails, Kill, StartList
<1>3. ASSUME NEW p \in Procs, NEW n, NEW v, StartPublish(p, n, v) PROVE UNCHANGED final
  BY <1>3 DEF StartPublish
<1> QED BY <1>1, <1>2, <1>3 DEF Next, vars

\* Without a power failure nothing that is there goes.
LEMMA PublishedGrows ==
    ASSUME IInv, FInv, [Next]_vars, ~PowerFailure
    PROVE  Published \subseteq Published' /\ IsFiniteSet(Published')
<1>1. ASSUME UNCHANGED final PROVE Published' = Published
  BY <1>1 DEF Published
<1> QED BY <1>1, FinalMoves, LinkPublishes, FS_AddElement DEF FInv

\* Publishing calls and failed ones have no listing to show.
LEMMA OthersListNothing ==
    ASSUME IInv, FInv, NEW p \in Procs, PublishStep(p) \/ Kill(p)
    PROVE  job'[p].result # "listed" /\ job'[p].pc \notin {"recount", "read"}
<1>1. job[p] \in Jobs /\ (\A j : Become(p, j) => job'[p] = j)
      /\ \A r : Return(p, r) => job'[p].pc = "idle" /\ job'[p].result = r
  BY DEF Become, Return, Idle, IInv, Typed, TypeOK
<1>2. job[p].pc # "idle" => job[p].result # "listed"
  BY DEF FInv, ListerOK
<1>3. CASE OpenTemporary(p) \/ CloseFile(p)
  BY <1>1, <1>2, <1>3 DEF OpenTemporary, CloseFile, Goto, Jobs
<1>4. CASE WriteAll(p) \/ SyncFile(p) \/ StepFails(p)
  BY <1>1, <1>2, <1>4 DEF WriteAll, SyncFile, StepFails, Jobs
<1>5. CASE Link(p) \/ LinkExists(p) \/ Unlink(p)
  <2>1. \/ job'[p] = [job[p] EXCEPT !.pc = "unlink"]
        \/ job'[p] = [job[p] EXCEPT !.pc = "discard", !.result = "exists"]
        \/ job'[p] = [job[p] EXCEPT !.pc = "fsyncdir"]
        \/ Return(p, "failed")
    BY <1>1, <1>5 DEF Link, LinkExists, Unlink
  <2>2. job[p].result # "listed"
    BY <1>2, <1>5 DEF Link, LinkExists, Unlink
  <2>3. ASSUME NEW pc \in {"unlink", "fsyncdir"}, job'[p] = [job[p] EXCEPT !.pc = pc]
        PROVE  job'[p].pc = pc /\ job'[p].result = job[p].result
    BY <1>1, <2>3 DEF Jobs
  <2>4. ASSUME job'[p] = [job[p] EXCEPT !.pc = "discard", !.result = "exists"]
        PROVE  job'[p].pc = "discard" /\ job'[p].result = "exists"
    BY <1>1, <2>4 DEF Jobs
  <2> QED BY <1>1, <2>1, <2>2, <2>3, <2>4
<1>6. CASE OpenFails(p) \/ Discard(p) \/ SyncDirectory(p) \/ SyncDirectoryFails(p)
  <2>1. \E r \in {"failed", "stored", job[p].result} : Return(p, r)
    BY <1>6 DEF OpenFails, Discard, SyncDirectory, SyncDirectoryFails
  <2>2. job[p].result # "listed"
    BY <1>2, <1>6 DEF OpenFails, Discard, SyncDirectory, SyncDirectoryFails
  <2> QED BY <1>1, <2>1, <2>2
<1>7. CASE Kill(p)
  BY <1>1, <1>7 DEF Kill
<1> QED BY <1>3, <1>4, <1>5, <1>6, <1>7 DEF PublishStep

\* The listing's own steps.
LEMMA ListStepOK ==
    ASSUME IInv, FInv, [Next]_vars, ~PowerFailure, NEW p \in Procs, ListStep(p)
    PROVE  ListerOK(job[p])'
<1>0. job[p] \in Jobs /\ (\A j : Become(p, j) => job'[p] = j)
  BY DEF Become, IInv, Typed, TypeOK
<1>1. Published \subseteq Published' /\ IsFiniteSet(Published)
  BY PublishedGrows DEF FInv
<1>2. ASSUME NEW r \in {"stale"}, Return(p, r) PROVE ListerOK(job[p])'
  BY <1>0, <1>2 DEF Return, Idle, ListerOK
<1>3. job[p].pc # "idle" => job[p].result # "listed"
  BY DEF FInv, ListerOK
<1>4. CASE ScanNames(p)
  <2>1. job'[p] = [job[p] EXCEPT !.pc = "recount", !.seen = Published]
    BY <1>0, <1>4 DEF ScanNames
  <2>2. job'[p].pc = "recount" /\ job'[p].seen = Published /\ job'[p].result # "listed"
    BY <1>0, <1>3, <1>4, <2>1 DEF ScanNames, Jobs
  <2> QED BY <1>1, <2>2 DEF ListerOK
<1>5. CASE Recount(p)
  <2>1. CASE Undisturbed(p)
    <3>1. job[p].seen = Published
      BY <1>1, <1>5, <2>1, FS_Subset DEF Recount, Undisturbed, FInv, ListerOK
    <3>2. job'[p] = [job[p] EXCEPT !.pc = "read", !.left = job[p].seen, !.counted = Published]
      BY <1>0, <1>5, <2>1 DEF Recount
    <3>3. /\ job'[p].pc = "read" /\ job'[p].seen = Published /\ job'[p].counted = Published
          /\ job'[p].result # "listed"
      BY <1>0, <1>3, <1>5, <3>1, <3>2 DEF Recount, Jobs
    <3> QED BY <1>1, <3>3 DEF ListerOK
  <2>2. CASE ~Undisturbed(p)
    BY <1>2, <1>5, <2>2 DEF Recount
  <2> QED BY <2>1, <2>2
<1>6. ASSUME NEW n \in Names, ReadPlan(p, n) PROVE ListerOK(job[p])'
  <2>1. CASE job'[p] = [job[p] EXCEPT !.left = job[p].left \ {n}]
    <3>1. /\ job'[p].pc = "read" /\ job'[p].seen = job[p].seen
          /\ job'[p].counted = job[p].counted /\ job'[p].result = job[p].result
      BY <1>0, <1>6, <2>1 DEF ReadPlan, Jobs
    <3> QED BY <1>1, <1>3, <1>6, <3>1 DEF ReadPlan, FInv, ListerOK
  <2> QED BY <1>0, <1>2, <1>6, <2>1 DEF ReadPlan
<1>7. CASE ReturnPlans(p)
  <2>1. job'[p] = [job[p] EXCEPT !.pc = "idle", !.result = "listed"]
    BY <1>0, <1>7 DEF ReturnPlans
  <2>2. /\ job'[p].pc = "idle" /\ job'[p].seen = job[p].seen
        /\ job'[p].counted = job[p].counted
    BY <1>0, <2>1 DEF Jobs
  <2> QED BY <1>1, <1>7, <2>2 DEF ReturnPlans, FInv, ListerOK
<1>8. CASE ListFails(p)
  BY <1>2, <1>8 DEF ListFails
<1> QED BY <1>4, <1>5, <1>6, <1>7, <1>8 DEF ListStep

\* Only the process itself, or a power failure, changes its call.
LEMMA OwnStep ==
    ASSUME IInv, [Next]_vars, NEW p \in Procs, job'[p] # job[p]
    PROVE  \/ StartList(p) \/ PublishStep(p) \/ ListStep(p) \/ Kill(p) \/ PowerFailure
           \/ \E n \in Names, v \in Payloads : StartPublish(p, n, v)
<1>1. ASSUME NEW q \in Procs, q # p, NEW j, Become(q, j) PROVE FALSE
  BY <1>1 DEF Become, IInv, Typed, TypeOK
<1>2. ASSUME NEW q \in Procs, q # p, PublishStep(q) PROVE FALSE
  BY <1>1, <1>2
  DEF PublishStep, OpenTemporary, OpenFails, WriteAll, SyncFile, CloseFile, StepFails, Link,
      LinkExists, Discard, Unlink, SyncDirectory, SyncDirectoryFails, Goto, Return
<1>3. ASSUME NEW q \in Procs, q # p, ListStep(q) \/ Kill(q) \/ StartList(q) PROVE FALSE
  BY <1>1, <1>3 DEF ListStep, ScanNames, Recount, ReadPlan, ReturnPlans, ListFails, Kill,
                    StartList, Return
<1>4. ASSUME NEW q \in Procs, q # p, NEW n, NEW v, StartPublish(q, n, v) PROVE FALSE
  BY <1>1, <1>4 DEF StartPublish
<1>5. ~UNCHANGED vars
  BY DEF vars
<1> QED BY <1>2, <1>3, <1>4, <1>5 DEF Next

LEMMA NextFInv == ASSUME IInv, FInv, [Next]_vars PROVE FInv'
<1>1. CASE PowerFailure
  <2>1. Published' \subseteq Published
    BY <1>1, PowerFailureKeeps DEF Published
  <2>2. IsFiniteSet(Published')
    BY <2>1, FS_Subset DEF FInv
  <2>3. \A p \in Procs : job'[p] = Idle("none")
    BY <1>1 DEF PowerFailure
  <2> QED BY <2>2, <2>3 DEF FInv, ListerOK, Idle
<1>2. CASE ~PowerFailure
  <2>1. Published \subseteq Published' /\ IsFiniteSet(Published')
    BY <1>2, PublishedGrows
  <2>2. ASSUME NEW p \in Procs PROVE ListerOK(job[p])'
    <3>1. CASE job'[p] = job[p]
      BY <2>1, <3>1 DEF FInv, ListerOK
    <3>2. CASE ListStep(p)
      BY <1>2, <3>2, ListStepOK
    <3>3. CASE PublishStep(p) \/ Kill(p)
      BY <3>3, OthersListNothing DEF ListerOK
    <3>4. CASE StartList(p) \/ \E n \in Names, v \in Payloads : StartPublish(p, n, v)
      <4>1. \A j : Become(p, j) => job'[p] = j
        BY DEF Become, IInv, Typed, TypeOK
      <4>2. CASE StartList(p)
        BY <4>1, <4>2 DEF StartList, Idle, ListerOK
      <4>3. ASSUME NEW n \in Names, NEW v \in Payloads, StartPublish(p, n, v)
            PROVE  ListerOK(job[p])'
        BY <4>1, <4>3 DEF StartPublish, Idle, ListerOK
      <4> QED BY <3>4, <4>2, <4>3
    <3> QED BY <1>2, <3>1, <3>2, <3>3, <3>4, OwnStep
  <2> QED BY <2>1, <2>2 DEF FInv
<1> QED BY <1>1, <1>2

(* A listing that returns is what was in the directory at its second scan, *)
(* and all of that is still there, whatever was published, killed or lost  *)
(* while it scanned and read.                                              *)
THEOREM ListingsAreExact == Spec => []ListingExact
<1>1. FInv => ListingExact
  BY DEF FInv, ListerOK, ListingExact
<1>2. IInv /\ FInv /\ [Next]_vars => FInv'
  BY NextFInv
<1> QED BY <1>1, <1>2, InitFInv, Invariance, PTL DEF Spec

=============================================================================
