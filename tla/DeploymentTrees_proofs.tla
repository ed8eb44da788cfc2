----------------------- MODULE DeploymentTrees_proofs -----------------------
(***************************************************************************)
(* Proofs about Deployment and ReadService that rest on the invariants of  *)
(* Deployment_proofs, for any number of runs, plans, deployments, kills    *)
(* and reports: what the runtime trees hold and what is said of them. The  *)
(* snapshot of a deployment that ran alone is what it found                *)
(* (SnapshotIsPreimage), a recorded rollback puts that back                *)
(* (RollbackRestores), at rest the ledger accounts for the trees           *)
(* (DriftExplained), and the last writer of a tree has its entry, also     *)
(* when deployments overlap (WritesAreAccounted). A report is never about  *)
(* an older deployment than the last success that was recorded before it   *)
(* began (ReportIsNotOlder), it is exact if nothing moved while it was     *)
(* made (UndisturbedReportIsExact), and says "drifted" only with a cause   *)
(* (DriftHasACause).                                                       *)
(***************************************************************************)
EXTENDS ReadService, Deployment_proofs, WellFoundedInduction

----------------------------------------------------------------------------
(* What a step does to the runs, the trees and the history                 *)

\* The run's sync has begun.
Late(j) == j.pc \in {"sync", "verify", "record"}

\* The run q stays with its deployment.
Stays(q) ==
    /\ Engaged(job[q]) /\ job'[q].dep = job[q].dep
    /\ job'[q].plan = job[q].plan /\ job'[q].cmd = job[q].cmd

\* The run q is given a new deployment.
Joins(q) ==
    /\ ~Engaged(job[q]) /\ Allocate(q, job'[q].pc)
    /\ job'[q].dep = nextDep
    /\ job'[q].pc \in {"scan", "recheck"}
    /\ job'[q].pc = "recheck" => job'[q].cmd = "rollback"

\* Only the run itself changes its job.
LEMMA OwnStep ==
    ASSUME IInv, [Next]_vars, NEW q \in Runs, job'[q] # job[q]
    PROVE  Start(q) \/ Step(q) \/ Kill(q)
<1>1. job \in [Runs -> Jobs]
  BY DEF IInv, JobsOK
<1>2. ASSUME NEW r \in Runs, r # q, Step(r) PROVE job'[q] = job[q]
  BY <1>1, <1>2
  DEF Step, BuildProjection, PlanFails, PublishPlan, Authorise, AuthoriseRollback, Allocate,
      Scan, Capture, Abort, Recheck, SyncSide, VerifySide, SyncDone, SyncFails, VerifyDone,
      VerifyFails, Failed, Record, Return, Become, Goto
<1>3. ASSUME NEW r \in Runs, r # q, Start(r) \/ Kill(r) PROVE job'[q] = job[q]
  BY <1>1, <1>3 DEF Start, PlanLoad, ApplyLoad, RollbackLoad, Kill, Return, Become
<1>4. Operator \/ Environment \/ UNCHANGED vars => UNCHANGED job
  BY DEF Operator, Decide, CreateRollbackPlan, Environment, EditRegistry, EditAuthority, Tick,
         StragglerEnds, StragglerWrites, vars
<1> QED BY <1>2, <1>3, <1>4 DEF Next

\* What a run with a deployment has just done.
LEMMA RunMoves ==
    ASSUME IInv, [Next]_vars, NEW q \in Runs, Engaged(job'[q])
    PROVE  \/ job'[q] = job[q]
           \/ Joins(q)
           \/ /\ Stays(q)
              /\ \/ Scan(q) /\ job'[q].pc = "capture" /\ job'[q].seen = trees["a"]
                 \/ Capture(q) /\ job'[q].pc = "recheck"
                 \/ Recheck(q) /\ job'[q].pc = "sync"
                 \/ At(q, "sync") /\ job'[q].pc = "sync"
                 \/ SyncDone(q) /\ job'[q].pc = "verify" /\ job'[q].todo = Sides
                 \/ \E s \in Sides : /\ VerifySide(q, s) /\ job'[q].pc = "verify"
                                     /\ job'[q].todo = job[q].todo \ {s}
                 \/ /\ VerifyDone(q) /\ job'[q].pc = "record"
                    /\ job'[q].result = IF job[q].cmd = "deploy" THEN "succeeded"
                                                                 ELSE "rolled_back"
                 \/ Late(job[q]) /\ job'[q].pc = "record" /\ job'[q].result = "failed"
<1>1. job[q] \in Jobs /\ \A j : Become(q, j) => job'[q] = j
  BY DEF IInv, JobsOK, Become
<1>2. CASE Start(q) \/ Kill(q)
  <2>1. CASE Kill(q)
    BY <1>1, <2>1 DEF Kill, Return, Idle, Engaged
  <2>2. ASSUME NEW p \in PlanIds, PlanLoad(q, p) PROVE job'[q].pc = "build"
    BY <1>1, <2>2 DEF PlanLoad, Idle
  <2>3. ASSUME NEW p \in PlanIds, ApplyLoad(q, p) PROVE job'[q].pc = "authorise"
    BY <1>1, <2>3 DEF ApplyLoad, Idle
  <2>4. ASSUME NEW p \in PlanIds, NEW d \in Deps, RollbackLoad(q, d, p)
        PROVE  job'[q].pc = "authorise"
    BY <1>1, <2>4 DEF RollbackLoad, Idle
  <2> QED BY <1>2, <2>1, <2>2, <2>3, <2>4 DEF Start, Engaged
<1>3. CASE BuildProjection(q) \/ PlanFails(q) \/ PublishPlan(q) \/ Abort(q) \/ Record(q)
  <2>1. job'[q] # Idle
    BY DEF Idle, Engaged
  <2>2. BuildProjection(q)
    BY <1>1, <1>3, <2>1 DEF PlanFails, PublishPlan, Abort, Record, Return
  <2>3. job'[q].pc = "publish"
    BY <1>1, <2>2 DEF BuildProjection, Goto, Jobs
  <2> QED BY <2>3 DEF Engaged
<1>4. CASE Authorise(q)
  <2>1. Allocate(q, "scan") /\ ~Engaged(job[q])
    BY <1>4 DEF Authorise, At, Engaged
  <2>2. job'[q] = [job[q] EXCEPT !.pc = "scan", !.dep = nextDep]
    BY <1>1, <2>1 DEF Allocate
  <2>3. job'[q].pc = "scan" /\ job'[q].dep = nextDep /\ job'[q].cmd = job[q].cmd
    BY <1>1, <2>2 DEF Jobs
  <2> QED BY <2>1, <2>3 DEF Joins
<1>5. CASE AuthoriseRollback(q)
  <2>1. Allocate(q, "recheck") /\ ~Engaged(job[q]) /\ job[q].cmd = "rollback"
    BY <1>5 DEF AuthoriseRollback, At, Engaged
  <2>2. job'[q] = [job[q] EXCEPT !.pc = "recheck", !.dep = nextDep]
    BY <1>1, <2>1 DEF Allocate
  <2>3. job'[q].pc = "recheck" /\ job'[q].dep = nextDep /\ job'[q].cmd = job[q].cmd
    BY <1>1, <2>2 DEF Jobs
  <2> QED BY <2>1, <2>3 DEF Joins
<1>6. CASE Scan(q)
  BY <1>1, <1>6 DEF Scan, At, Jobs, Stays, Engaged
<1>7. CASE Capture(q)
  <2>1. Goto(q, "recheck")
    BY <1>1, <1>7 DEF Capture, Return, Idle, Engaged
  <2> QED BY <1>1, <1>7, <2>1 DEF Capture, Goto, At, Jobs, Stays, Engaged
<1>8. CASE Recheck(q)
  BY <1>1, <1>8 DEF Recheck, At, Jobs, Stays, Engaged
<1>9. ASSUME NEW s \in Sides, SyncSide(q, s) PROVE At(q, "sync") /\ job'[q].pc = "sync" /\ Stays(q)
  BY <1>1, <1>9 DEF SyncSide, At, Jobs, Stays, Engaged
<1>10. CASE SyncDone(q)
  BY <1>1, <1>10 DEF SyncDone, At, Jobs, Stays, Engaged
<1>11. ASSUME NEW s \in Sides, VerifySide(q, s)
       PROVE  job'[q].pc = "verify" /\ job'[q].todo = job[q].todo \ {s} /\ Stays(q)
  BY <1>1, <1>11 DEF VerifySide, At, Jobs, Stays, Engaged
<1>12. CASE VerifyDone(q)
  BY <1>1, <1>12 DEF VerifyDone, At, Jobs, Stays, Engaged
<1>13. CASE SyncFails(q) \/ VerifyFails(q)
  BY <1>1, <1>13 DEF SyncFails, VerifyFails, Failed, At, Jobs, Stays, Engaged, Late
<1> QED
  BY <1>2, <1>3, <1>4, <1>5, <1>6, <1>7, <1>8, <1>9, <1>10, <1>11, <1>12, <1>13, OwnStep DEF Step

\* A run without a deployment got there without taking the id of one along.
LEMMA RunRests ==
    ASSUME IInv, [Next]_vars, NEW q \in Runs, ~Engaged(job'[q])
    PROVE  job'[q].dep = NoDep \/ (~Engaged(job[q]) /\ job'[q].dep = job[q].dep)
<1>1. job[q] \in Jobs /\ \A j : Become(q, j) => job'[q] = j
  BY DEF IInv, JobsOK, Become
<1>2. CASE job'[q] = job[q]
  BY <1>2
<1>3. CASE Start(q) \/ Kill(q)
  <2>1. CASE Kill(q)
    BY <1>1, <2>1 DEF Kill, Return, Idle
  <2>2. ASSUME NEW p \in PlanIds, PlanLoad(q, p) PROVE job'[q].dep = NoDep
    BY <1>1, <2>2 DEF PlanLoad, Idle
  <2>3. ASSUME NEW p \in PlanIds, ApplyLoad(q, p) PROVE job'[q].dep = NoDep
    BY <1>1, <2>3 DEF ApplyLoad, Idle
  <2>4. ASSUME NEW p \in PlanIds, NEW d \in Deps, RollbackLoad(q, d, p) PROVE job'[q].dep = NoDep
    BY <1>1, <2>4 DEF RollbackLoad, Idle
  <2> QED BY <1>3, <2>1, <2>2, <2>3, <2>4 DEF Start
<1>4. CASE BuildProjection(q)
  BY <1>1, <1>4 DEF BuildProjection, Goto, At, Engaged, Jobs
<1>5. CASE Return(q)
  BY <1>1, <1>5 DEF Return, Idle
<1>6. CASE Step(q) /\ ~BuildProjection(q) /\ ~Return(q)
  <2>1. ASSUME NEW pc, Allocate(q, pc), pc \in {"scan", "recheck"} PROVE FALSE
    BY <1>1, <2>1 DEF Allocate, Jobs, Engaged
  <2>2. ASSUME NEW s \in Sides, SyncSide(q, s) \/ VerifySide(q, s) PROVE FALSE
    BY <1>1, <2>2 DEF SyncSide, VerifySide, At, Jobs, Engaged
  <2>3. CASE Scan(q) \/ Capture(q) \/ Recheck(q)
    BY <1>1, <1>6, <2>3 DEF Scan, Capture, Recheck, Goto, Jobs, Engaged
  <2>4. CASE SyncDone(q) \/ SyncFails(q) \/ VerifyDone(q) \/ VerifyFails(q)
    BY <1>1, <2>4 DEF SyncDone, SyncFails, VerifyDone, VerifyFails, Failed, Jobs, Engaged
  <2> QED
    BY <1>6, <2>1, <2>2, <2>3, <2>4
    DEF Step, Authorise, AuthoriseRollback, PlanFails, PublishPlan, Abort, Record
<1> QED BY <1>2, <1>3, <1>4, <1>5, <1>6, OwnStep

\* A deployment that is under way ends with its entry, or unrecorded.
LEMMA LateEnds ==
    ASSUME IInv, [Next]_vars, NEW q \in Runs, Late(job[q]), ~Late(job'[q])
    PROVE  \/ At(q, "record") /\ ledger' = Append(ledger, NewEntry(q))
           \/ job[q].dep \in unrecorded'
<1>1. job[q] \in Jobs /\ \A j : Become(q, j) => job'[q] = j
  BY DEF IInv, JobsOK, Become
<1>2. CASE Kill(q)
  BY <1>2 DEF Kill, Late, At
<1>3. CASE Record(q)
  BY <1>3 DEF Record
<1>4. ASSUME Start(q) \/ Step(q), ~Record(q) PROVE FALSE
  <2>1. ~At(q, "idle") /\ ~At(q, "build") /\ ~At(q, "publish") /\ ~At(q, "authorise")
        /\ ~At(q, "scan") /\ ~At(q, "capture") /\ ~At(q, "recheck")
    BY DEF At, Late
  <2>2. ASSUME NEW s \in Sides, SyncSide(q, s) \/ VerifySide(q, s) PROVE FALSE
    BY <1>1, <2>2 DEF SyncSide, VerifySide, At, Jobs, Late
  <2>3. CASE SyncDone(q) \/ SyncFails(q) \/ VerifyDone(q) \/ VerifyFails(q)
    BY <1>1, <2>3 DEF SyncDone, SyncFails, VerifyDone, VerifyFails, Failed, Jobs, Late
  <2> QED
    BY <1>4, <2>1, <2>2, <2>3
    DEF Start, PlanLoad, ApplyLoad, RollbackLoad, Step, BuildProjection, PlanFails, PublishPlan,
        Authorise, AuthoriseRollback, Scan, Capture, Abort, Recheck, At
<1> QED BY <1>2, <1>3, <1>4, OwnStep

\* Who writes a tree is under way: a run in its sync, or a straggler.
LEMMA TreesMove ==
    ASSUME IInv, [Next]_vars, NEW s \in Sides
    PROVE  \/ trees'[s] = trees[s] /\ writer'[s] = writer[s]
           \/ \E r \in Runs : At(r, "sync") /\ writer'[s] = job[r].dep
           \/ \E x \in stragglers : writer'[s] = x.dep
<1>1. trees \in [Sides -> Contents] /\ writer \in [Sides -> 0..MaxDeps]
  BY DEF IInv, Typed, TreesTyped
<1>2. ASSUME NEW t \in Sides, NEW c, NEW d, Write(t, c, d)
      PROVE  (trees'[s] = trees[s] /\ writer'[s] = writer[s]) \/ writer'[s] = d
  BY <1>1, <1>2 DEF Write
<1>3. ASSUME NEW r \in Runs, NEW t \in Sides, SyncSide(r, t)
      PROVE  \/ trees'[s] = trees[s] /\ writer'[s] = writer[s]
             \/ At(r, "sync") /\ writer'[s] = job[r].dep
  BY <1>2, <1>3 DEF SyncSide
<1>4. ASSUME NEW r \in Runs, SyncFails(r)
      PROVE  \/ trees'[s] = trees[s] /\ writer'[s] = writer[s]
             \/ At(r, "sync") /\ writer'[s] = job[r].dep
  <2>1. job[r].todo \subseteq Sides
    BY DEF IInv, JobsOK, Jobs
  <2> QED BY <1>2, <1>4, <2>1 DEF SyncFails
<1>5. ASSUME NEW x \in stragglers, NEW t \in Sides, StragglerWrites(x, t)
      PROVE  \/ trees'[s] = trees[s] /\ writer'[s] = writer[s]
             \/ writer'[s] = x.dep
  BY <1>2, <1>5 DEF StragglerWrites
<1>6. ASSUME NEW r \in Runs, Step(r), ~SyncFails(r), \A t \in Sides : ~SyncSide(r, t)
      PROVE  UNCHANGED <<trees, writer>>
  BY <1>6 DEF Step, BuildProjection, PlanFails, PublishPlan, Authorise, AuthoriseRollback, Scan,
              Capture, Abort, Recheck, VerifySide, SyncDone, VerifyDone, VerifyFails, Record,
              history
<1>7. ASSUME NEW r \in Runs, Start(r) \/ Kill(r) PROVE UNCHANGED <<trees, writer>>
  BY <1>7 DEF Start, PlanLoad, ApplyLoad, RollbackLoad, Kill, history
<1>8. Operator \/ UNCHANGED vars => UNCHANGED <<trees, writer>>
  BY DEF Operator, Decide, CreateRollbackPlan, vars, history
<1>9. ASSUME Environment, \A x \in stragglers : \A t \in Sides : ~StragglerWrites(x, t)
      PROVE  UNCHANGED <<trees, writer>>
  BY <1>9 DEF Environment, EditRegistry, EditAuthority, Tick, StragglerEnds, history
<1> QED BY <1>3, <1>4, <1>5, <1>6, <1>7, <1>8, <1>9 DEF Next

\* A straggler was there before, or is what a killed run leaves.
LEMMA StragglersMove ==
    ASSUME IInv, [Next]_vars, NEW x \in stragglers'
    PROVE  \/ \E y \in stragglers : x.dep = y.dep
           \/ \E r \in Runs : /\ Kill(r) /\ At(r, "sync") /\ x.dep = job[r].dep
                              /\ x.dep \in unrecorded'
<1>1. ASSUME NEW r \in Runs, Kill(r), x \notin stragglers
      PROVE  At(r, "sync") /\ x.dep = job[r].dep /\ x.dep \in unrecorded'
  BY <1>1 DEF Kill, At
<1>2. ASSUME NEW r \in Runs, Step(r) \/ Start(r) PROVE UNCHANGED stragglers
  BY <1>2
  DEF Step, BuildProjection, PlanFails, PublishPlan, Authorise, AuthoriseRollback, Scan,
      Capture, Abort, Recheck, SyncSide, VerifySide, SyncDone, SyncFails, VerifyDone,
      VerifyFails, Record, Start, PlanLoad, ApplyLoad, RollbackLoad
<1>3. ASSUME NEW y \in stragglers, NEW s \in Sides, StragglerWrites(y, s), x \notin stragglers
      PROVE  x.dep = y.dep
  <2>1. y \in Stragglers /\ x = [y EXCEPT !.todo = @ \ {s}]
    BY <1>3 DEF StragglerWrites, IInv, StragglersOK
  <2> QED BY <2>1 DEF Stragglers
<1>4. ASSUME NEW y \in stragglers, StragglerEnds(y) PROVE x \in stragglers
  BY <1>4 DEF StragglerEnds
<1>5. Operator \/ UNCHANGED vars => UNCHANGED stragglers
  BY DEF Operator, Decide, CreateRollbackPlan, vars
<1>6. ASSUME Environment, \A y \in stragglers : ~StragglerEnds(y),
             \A y \in stragglers : \A s \in Sides : ~StragglerWrites(y, s)
      PROVE  UNCHANGED stragglers
  BY <1>6 DEF Environment, EditRegistry, EditAuthority, Tick
<1> QED BY <1>1, <1>2, <1>3, <1>4, <1>5, <1>6 DEF Next

\* The history of overlaps and of lost outcomes only grows.
LEMMA HistoryGrows ==
    ASSUME [Next]_vars PROVE overlapped \subseteq overlapped' /\ unrecorded \subseteq unrecorded'
<1>1. ASSUME NEW r \in Runs, Step(r)
      PROVE overlapped \subseteq overlapped' /\ unrecorded \subseteq unrecorded'
  BY <1>1
  DEF Step, BuildProjection, PlanFails, PublishPlan, Authorise, AuthoriseRollback, Allocate,
      Scan, Capture, Abort, Recheck, SyncSide, VerifySide, SyncDone, SyncFails, VerifyDone,
      VerifyFails, Record, history
<1>2. ASSUME NEW r \in Runs, Start(r) \/ Kill(r)
      PROVE overlapped \subseteq overlapped' /\ unrecorded \subseteq unrecorded'
  BY <1>2 DEF Start, PlanLoad, ApplyLoad, RollbackLoad, Kill, history
<1>3. Operator \/ Environment \/ UNCHANGED vars => UNCHANGED <<overlapped, unrecorded>>
  BY DEF Operator, Decide, CreateRollbackPlan, Environment, EditRegistry, EditAuthority, Tick,
         StragglerEnds, StragglerWrites, vars, history
<1> QED BY <1>1, <1>2, <1>3 DEF Next

\* A snapshot is made by the capture of its deployment.
LEMMA SnapshotsMove ==
    ASSUME IInv, [Next]_vars, NEW d \in Deps, \A r \in Runs : Capture(r) => job[r].dep # d
    PROVE  snapshots'[d] = snapshots[d]
<1>1. snapshots \in [Deps -> Snapshots \cup {None}]
  BY DEF IInv, Typed, DiskTyped
<1>2. ASSUME NEW r \in Runs, Capture(r) PROVE snapshots'[d] = snapshots[d]
  BY <1>1, <1>2 DEF Capture
<1>3. ASSUME NEW r \in Runs, Step(r), ~Capture(r) PROVE UNCHANGED snapshots
  BY <1>3
  DEF Step, BuildProjection, PlanFails, PublishPlan, Authorise, AuthoriseRollback, Scan, Abort,
      Recheck, SyncSide, VerifySide, SyncDone, SyncFails, VerifyDone, VerifyFails, Record, disk
<1>4. ASSUME NEW r \in Runs, Start(r) \/ Kill(r) PROVE UNCHANGED snapshots
  BY <1>4 DEF Start, PlanLoad, ApplyLoad, RollbackLoad, Kill, disk
<1>5. Operator \/ Environment \/ UNCHANGED vars => UNCHANGED snapshots
  BY DEF Operator, Decide, CreateRollbackPlan, Environment, EditRegistry, EditAuthority, Tick,
         StragglerEnds, StragglerWrites, vars, disk
<1> QED BY <1>2, <1>3, <1>4, <1>5 DEF Next

\* A deployment begins by the second look at the clock.
LEMMA BegunMoves ==
    ASSUME IInv, [Next]_vars, NEW d \in Deps, \A r \in Runs : Recheck(r) => job[r].dep # d
    PROVE  begun'[d] = begun[d]
<1>1. begun \in [Deps -> Begun \cup {None}]
  BY DEF IInv, Typed, BegunTyped
<1>2. ASSUME NEW r \in Runs, Recheck(r) PROVE begun'[d] = begun[d]
  BY <1>1, <1>2 DEF Recheck
<1>3. ASSUME NEW r \in Runs, Step(r), ~Recheck(r) PROVE UNCHANGED begun
  BY <1>3
  DEF Step, BuildProjection, PlanFails, PublishPlan, Authorise, AuthoriseRollback, Scan, Abort,
      Capture, SyncSide, VerifySide, SyncDone, SyncFails, VerifyDone, VerifyFails, Record, history
<1>4. ASSUME NEW r \in Runs, Start(r) \/ Kill(r) PROVE UNCHANGED begun
  BY <1>4 DEF Start, PlanLoad, ApplyLoad, RollbackLoad, Kill, history
<1>5. Operator \/ Environment \/ UNCHANGED vars => UNCHANGED begun
  BY DEF Operator, Decide, CreateRollbackPlan, Environment, EditRegistry, EditAuthority, Tick,
         StragglerEnds, StragglerWrites, vars, history
<1> QED BY <1>2, <1>3, <1>4, <1>5 DEF Next

\* What was true when a deployment began, and its snapshot, stay as they are.
LEMMA BegunIsPast ==
    ASSUME IInv, DInv, [Next]_vars, NEW d \in Deps, Begins(d)
    PROVE  begun'[d] = begun[d] /\ snapshots'[d] = snapshots[d]
<1>1. ASSUME NEW r \in Runs, Recheck(r) \/ Capture(r) PROVE job[r].dep # d
  <2>1. Early(job[r])
    BY <1>1 DEF Recheck, Capture, At, Early
  <2> QED BY <2>1 DEF DInv, NotBegun
<1> QED BY <1>1, BegunMoves, SnapshotsMove

----------------------------------------------------------------------------
(* The invariant, in parts                                                 *)

\* What is recorded of a deployment whose sync has begun.
LateBegun ==
    \A r \in Runs : Late(job[r]) =>
        /\ Begins(job[r].dep)
        /\ begun[job[r].dep].plan = job[r].plan /\ begun[job[r].dep].cmd = job[r].cmd

Unengaged == \A r \in Runs : ~Engaged(job[r]) => job[r].dep = NoDep

\* Nobody waits for a straggler's deployment, and nobody recorded its outcome.
StragglersApart ==
    \A x \in stragglers :
        /\ Begins(x.dep) /\ x.dep \in unrecorded
        /\ \A r \in Runs : job[r].dep # x.dep
        /\ \A i \in 1..Len(ledger) : ledger[i].dep # x.dep

Crowded == \A d, e \in UnderWay \ {NoDep} : d # e => d \in overlapped

OInv == LateBegun /\ Unengaged /\ StragglersApart /\ Crowded

LEMMA BoundsInt == MaxDeps \in Nat /\ Deps = 1..MaxDeps /\ NoDep = 0
BY BoundsAssumption DEF Deps, NoDep

LEMMA InitOInv == Init => OInv
<1> SUFFICES ASSUME Init PROVE OInv
    OBVIOUS
<1>1. \A r \in Runs : job[r].dep = NoDep /\ ~Late(job[r])
  BY DEF Init, Idle, Late
<1>2. stragglers = {} /\ UnderWay \subseteq {NoDep}
  BY <1>1 DEF Init, UnderWay
<1> QED BY <1>1, <1>2 DEF OInv, LateBegun, Unengaged, StragglersApart, Crowded

LEMMA LateBegunStays == ASSUME IInv, DInv, OInv, [Next]_vars PROVE LateBegun'
<1> SUFFICES ASSUME NEW q \in Runs, Late(job'[q])
             PROVE  /\ begun'[job'[q].dep] # None
                    /\ begun'[job'[q].dep].plan = job'[q].plan
                    /\ begun'[job'[q].dep].cmd = job'[q].cmd
  BY DEF LateBegun, Begins, Late
<1>1. Engaged(job'[q])
  BY DEF Late, Engaged
<1>2. ASSUME Late(job[q]), job'[q].dep = job[q].dep, job'[q].plan = job[q].plan,
             job'[q].cmd = job[q].cmd
      PROVE  /\ begun'[job'[q].dep] # None
             /\ begun'[job'[q].dep].plan = job'[q].plan
             /\ begun'[job'[q].dep].cmd = job'[q].cmd
  <2>1. Engaged(job[q]) /\ Begins(job[q].dep) /\ begun[job[q].dep].plan = job[q].plan
        /\ begun[job[q].dep].cmd = job[q].cmd
    BY <1>2 DEF Late, Engaged, OInv, LateBegun
  <2>2. job[q].dep \in Deps
    BY <2>1, EngagedTyped
  <2> QED BY <1>2, <2>1, <2>2, BegunIsPast DEF Begins
<1>3. CASE Recheck(q) /\ Stays(q)
  <2>1. job[q].dep \in Deps /\ job[q] \in Jobs
    BY <1>3, EngagedTyped DEF Stays
  <2>2. begun'[job[q].dep] = [plan |-> job[q].plan, cmd |-> job[q].cmd, pre |-> trees,
                              checked |-> now, version |-> job[q].version]
    BY <1>3, <2>1 DEF Recheck, IInv, Typed, BegunTyped
  <2>3. begun'[job[q].dep] # None
    <3>1. /\ job[q].plan \in PlanIds /\ job[q].cmd \in {"deploy", "rollback"}
          /\ job[q].version \in Versions
      BY <1>3 DEF IInv, JobsOK, JobOK, Bound, Stays
    <3>2. trees \in [Sides -> Contents] /\ now \in Nat
      BY BoundsAssumption DEF IInv, Typed, TreesTyped, WorldTyped
    <3>3. begun'[job[q].dep] \in Begun
      BY <2>2, <3>1, <3>2 DEF Begun
    <3> QED BY <3>3, NoneIsNoRecord
  <2> QED BY <1>3, <2>2, <2>3 DEF Stays
<1>4. CASE job'[q] = job[q]
  BY <1>2, <1>4
<1>5. CASE Stays(q) /\ ~Recheck(q)
  <2>1. Late(job[q])
    BY <1>1, <1>4, <1>5, RunMoves DEF Late, Joins, Stays, Scan, Capture, SyncDone, VerifySide, VerifyDone, At
  <2> QED BY <1>2, <1>5, <2>1 DEF Stays
<1>6. ~Joins(q)
  BY DEF Joins, Late
<1> QED BY <1>1, <1>3, <1>4, <1>5, <1>6, RunMoves

LEMMA UnengagedStays == ASSUME IInv, OInv, [Next]_vars PROVE Unengaged'
<1>1. ASSUME NEW q \in Runs, ~Engaged(job'[q]) PROVE job'[q].dep = NoDep
  BY <1>1, RunRests DEF OInv, Unengaged
<1> QED BY <1>1 DEF Unengaged, Engaged

\* A run's deployment: it had it before, or has just been given it, or has none.
LEMMA DepsMove ==
    ASSUME IInv, OInv, [Next]_vars, NEW q \in Runs
    PROVE  \/ job'[q].dep = NoDep
           \/ Engaged(job[q]) /\ job'[q].dep = job[q].dep
           \/ Joins(q)
<1>1. CASE ~Engaged(job'[q])
  BY <1>1, RunRests DEF OInv, Unengaged
<1>2. CASE Engaged(job'[q])
  BY <1>2, RunMoves DEF Stays, Engaged
<1> QED BY <1>1, <1>2

LEMMA StragglersApartStays == ASSUME IInv, DInv, OInv, [Next]_vars PROVE StragglersApart'
<1> SUFFICES ASSUME NEW x \in stragglers'
             PROVE  /\ begun'[x.dep] # None /\ x.dep \in unrecorded'
                    /\ \A q \in Runs : job'[q].dep # x.dep
                    /\ \A i \in 1..Len(ledger') : ledger'[i].dep # x.dep
  BY DEF StragglersApart, Begins
<1>1. CASE \E y \in stragglers : x.dep = y.dep
  <2>1. PICK y \in stragglers : x.dep = y.dep
    BY <1>1
  <2>2. /\ y.dep \in Deps /\ Begins(y.dep) /\ y.dep \in unrecorded
        /\ \A r \in Runs : job[r].dep # y.dep
        /\ \A i \in 1..Len(ledger) : ledger[i].dep # y.dep
    BY DEF OInv, StragglersApart, IInv, StragglersOK, Stragglers
  <2>3. y.dep # NoDep /\ y.dep # nextDep
    BY <2>2, BoundsInt DEF DInv, DepsAllocated
  <2>4. \A q \in Runs : job'[q].dep # y.dep
    BY <2>2, <2>3, DepsMove DEF Joins
  <2>5. \A i \in 1..Len(ledger') : ledger'[i].dep # y.dep
    <3>1. CASE UNCHANGED ledger
      BY <2>2, <3>1
    <3>2. ASSUME NEW r \in Runs, ledger' = Append(ledger, NewEntry(r))
          PROVE  \A i \in 1..Len(ledger') : ledger'[i].dep # y.dep
      <4>1. PICK e : e = NewEntry(r)
        OBVIOUS
      <4>2. e.dep # y.dep
        BY <2>2, <4>1 DEF NewEntry
      <4>3. ledger \in Seq(Entries) /\ ledger' = Append(ledger, e)
        BY <3>2, <4>1 DEF IInv, Typed, LogTyped
      <4> QED BY <2>2, <4>2, <4>3
    <3> QED BY <3>1, <3>2, LedgerMoves
  <2> QED BY <2>1, <2>2, <2>4, <2>5, BegunIsPast, HistoryGrows DEF Begins
<1>2. ASSUME NEW r \in Runs, Kill(r), At(r, "sync"), x.dep = job[r].dep, x.dep \in unrecorded'
      PROVE  /\ begun'[x.dep] # None
             /\ \A q \in Runs : job'[q].dep # x.dep
             /\ \A i \in 1..Len(ledger') : ledger'[i].dep # x.dep
  <2>1. Engaged(job[r]) /\ Late(job[r]) /\ job[r].dep \in Deps /\ job[r].dep # NoDep
    BY <1>2, EngagedTyped, BoundsInt DEF At, Engaged, Late
  <2>2. begun'[x.dep] # None
    BY <1>2, <2>1, BegunIsPast DEF OInv, LateBegun, Begins
  <2>3. job'[r].dep = NoDep /\ \A q \in Runs \ {r} : job'[q] = job[q]
    BY <1>2 DEF Kill, Return, Become, Idle, IInv, JobsOK
  <2>4. \A q \in Runs \ {r} : job[q].dep # job[r].dep
    BY <2>1 DEF DInv, DepsApart, OInv, Unengaged
  <2>5. UNCHANGED ledger
    BY <1>2 DEF Kill, At
  <2>6. \A i \in 1..Len(ledger) : ledger[i].dep # job[r].dep
    BY <2>1 DEF DInv, NotRecorded
  <2> QED BY <1>2, <2>1, <2>2, <2>3, <2>4, <2>5, <2>6
<1> QED BY <1>1, <1>2, StragglersMove

LEMMA CrowdedStays == ASSUME IInv, OInv, [Next]_vars PROVE Crowded'
<1> SUFFICES ASSUME NEW d, NEW e, d \in UnderWay', e \in UnderWay', d # NoDep, e # NoDep, d # e
             PROVE  d \in overlapped'
  BY DEF Crowded
<1>1. ASSUME NEW c, c \in UnderWay', c # NoDep, c \notin UnderWay
      PROVE  \E q \in Runs : Joins(q) /\ c = nextDep
  <2>1. CASE \E q \in Runs : job'[q].dep = c
    BY <1>1, <2>1, DepsMove DEF UnderWay, Joins
  <2>2. CASE \E x \in stragglers' : x.dep = c
    BY <1>1, <2>2, StragglersMove DEF UnderWay
  <2> QED BY <1>1, <2>1, <2>2 DEF UnderWay
<1>2. CASE d \in UnderWay /\ e \in UnderWay
  BY <1>2, HistoryGrows DEF OInv, Crowded
<1>3. ASSUME NEW q \in Runs, Joins(q), NEW c \in UnderWay \ {NoDep}
      PROVE  c \in overlapped' /\ nextDep \in overlapped'
  BY <1>3 DEF Joins, Allocate
<1>4. CASE d \notin UnderWay
  BY <1>1, <1>3, <1>4
<1>5. CASE e \notin UnderWay
  BY <1>1, <1>3, <1>5
<1> QED BY <1>2, <1>4, <1>5

LEMMA NextOInv == ASSUME IInv, DInv, OInv, [Next]_vars PROVE OInv'
BY LateBegunStays, UnengagedStays, StragglersApartStays, CrowdedStays DEF OInv

\* A deployment that has not overlapped is under way alone.
LEMMA Alone ==
    ASSUME IInv, OInv, NEW r \in Runs, Engaged(job[r]), job[r].dep \notin overlapped
    PROVE  stragglers = {} /\ \A q \in Runs \ {r} : Engaged(job[q]) => job[q].dep = job[r].dep
<1>1. job[r].dep \in UnderWay \ {NoDep}
  BY EngagedTyped, BoundsInt DEF UnderWay
<1>2. \A e \in UnderWay \ {NoDep} : e = job[r].dep
  BY <1>1 DEF OInv, Crowded
<1>3. ASSUME NEW x \in stragglers PROVE FALSE
  <2>1. x.dep \in Deps /\ x.dep # job[r].dep
    BY DEF OInv, StragglersApart, IInv, StragglersOK, Stragglers
  <2> QED BY <1>2, <2>1, BoundsInt DEF UnderWay
<1>4. \A q \in Runs : Engaged(job[q]) => job[q].dep \in UnderWay \ {NoDep}
  BY EngagedTyped, BoundsInt DEF UnderWay
<1> QED BY <1>2, <1>3, <1>4

\* While it is, nobody else writes the trees.
LEMMA TreesKept ==
    ASSUME IInv, DInv, OInv, [Next]_vars, NEW r \in Runs, Engaged(job[r]),
           job[r].dep \notin overlapped, ~At(r, "sync")
    PROVE  UNCHANGED trees
<1>1. ASSUME NEW s \in Sides PROVE trees'[s] = trees[s]
  <2>1. stragglers = {} /\ \A q \in Runs : Engaged(job[q]) => q = r
    BY Alone DEF DInv, DepsApart
  <2>2. \A q \in Runs : ~At(q, "sync")
    BY <2>1 DEF At, Engaged
  <2> QED BY <2>1, <2>2, TreesMove
<1>2. trees \in [Sides -> Contents] /\ trees' \in [Sides -> Contents]
  BY NextIInv DEF IInv, Typed, TreesTyped
<1> QED BY <1>1, <1>2

----------------------------------------------------------------------------
(* What entries and rollback plans say                                     *)

Results ==
    \A r \in Runs : At(r, "record") =>
        /\ job[r].result = "succeeded" => job[r].cmd = "deploy"
        /\ job[r].result = "rolled_back" => job[r].cmd = "rollback"

\* The entry e tells what began, and of which kind it was.
Truthful(e) ==
    /\ Begins(e.dep) /\ begun[e.dep].plan = e.plan /\ e.parent = plans[e.plan].parent
    /\ e.result = "succeeded" => plans[e.plan].op = "deploy"
    /\ e.result = "rolled_back" => plans[e.plan].op = "rollback"

EntriesTruthful == \A i \in 1..Len(ledger) : Truthful(ledger[i])

\* The rollback plan p is for the snapshot of its parent.
FromSnapshot(p) ==
    LET d == plans[p].parent IN
    /\ d # NoDep /\ snapshots[d] # None /\ plans[p].desired = snapshots[d].content
    /\ projections[p] # None => Content(p) = plans[p].desired

RollbackPlansOK ==
    \A p \in PlanIds : plans[p] # None /\ plans[p].op = "rollback" => FromSnapshot(p)

HInv == Results /\ EntriesTruthful /\ RollbackPlansOK

LEMMA InitHInv == Init => HInv
<1> SUFFICES ASSUME Init PROVE HInv
    OBVIOUS
<1>1. Len(ledger) = 0 /\ (\A p \in PlanIds : plans[p] = None) /\ \A r \in Runs : ~At(r, "record")
  BY DEF Init, At, Idle
<1> QED BY <1>1 DEF HInv, Results, EntriesTruthful, RollbackPlansOK

LEMMA ResultsStay == ASSUME IInv, HInv, [Next]_vars PROVE Results'
<1> SUFFICES ASSUME NEW q \in Runs, job'[q].pc = "record"
             PROVE  /\ job'[q].result = "succeeded" => job'[q].cmd = "deploy"
                    /\ job'[q].result = "rolled_back" => job'[q].cmd = "rollback"
  BY DEF Results, At
<1>1. Engaged(job'[q])
  BY DEF Engaged
<1>2. CASE job'[q] = job[q]
  BY <1>2 DEF HInv, Results, At
<1>3. CASE VerifyDone(q) /\ Stays(q)
  <2>1. job[q].cmd \in {"deploy", "rollback"} /\ job'[q].cmd = job[q].cmd
    BY <1>3 DEF Stays, IInv, JobsOK, JobOK, Bound
  <2>2. job'[q].result = IF job[q].cmd = "deploy" THEN "succeeded" ELSE "rolled_back"
    BY <1>3 DEF VerifyDone, Become, Jobs, IInv, JobsOK
  <2> QED BY <2>1, <2>2
<1> QED BY <1>1, <1>2, <1>3, RunMoves DEF Joins

LEMMA TruthfulStays ==
    ASSUME IInv, DInv, [Next]_vars, NEW e \in Entries, Truthful(e), plans[e.plan] # None
    PROVE  Truthful(e)'
<1>1. e.dep \in Deps /\ e.plan \in PlanIds
  BY DEF Entries
<1>2. begun'[e.dep] = begun[e.dep] /\ plans'[e.plan] = plans[e.plan]
  BY <1>1, BegunIsPast, NextGrows DEF Truthful, Grows
<1> QED BY <1>2 DEF Truthful, Begins

LEMMA EntriesTruthfulStay == ASSUME IInv, DInv, OInv, HInv, [Next]_vars PROVE EntriesTruthful'
<1>1. ledger \in Seq(Entries) /\ Len(ledger) \in Nat
  BY DEF IInv, Typed, LogTyped
<1>2. ASSUME NEW i \in 1..Len(ledger) PROVE Truthful(ledger[i])'
  <2>1. PICK e \in Entries : e = ledger[i]
    BY <1>1
  <2>2. Truthful(e) /\ plans[e.plan] # None
    BY <2>1 DEF HInv, EntriesTruthful, IInv, EntriesOK, Settled
  <2>3. Truthful(e)'
    BY <2>2, TruthfulStays
  <2>4. i \in 1..Len(ledger') /\ ledger'[i] = e
    <3>1. CASE UNCHANGED ledger
      BY <2>1, <3>1
    <3>2. ASSUME NEW r \in Runs, ledger' = Append(ledger, NewEntry(r))
          PROVE  i \in 1..Len(ledger') /\ ledger'[i] = e
      BY <1>1, <2>1, <3>2
    <3> QED BY <3>1, <3>2, LedgerMoves
  <2> QED BY <2>3, <2>4 DEF Truthful, Begins
<1>3. CASE UNCHANGED ledger
  BY <1>2, <1>3 DEF EntriesTruthful
<1>4. ASSUME NEW r \in Runs, At(r, "record"), ledger' = Append(ledger, NewEntry(r)), UNCHANGED plans
      PROVE  EntriesTruthful'
  <2>1. PICK e : e = NewEntry(r)
    OBVIOUS
  <2>2. /\ Engaged(job[r]) /\ Late(job[r]) /\ job[r].dep \in Deps
        /\ plans[job[r].plan].op = job[r].cmd
    BY <1>4, EngagedTyped DEF At, Engaged, Late
  <2>3. /\ e.dep = job[r].dep /\ e.plan = job[r].plan /\ e.parent = plans[job[r].plan].parent
        /\ e.result = job[r].result
    BY <2>1 DEF NewEntry
  <2>4. Truthful(e)
    BY <1>4, <2>2, <2>3 DEF Truthful, OInv, LateBegun, HInv, Results
  <2>5. Truthful(e)'
    BY <1>4, <2>2, <2>3, <2>4, BegunIsPast DEF Truthful, Begins
  <2>6. Len(ledger') = Len(ledger) + 1 /\ ledger'[Len(ledger) + 1] = e
    BY <1>1, <1>4, <2>1
  <2> QED BY <1>1, <1>2, <2>5, <2>6 DEF EntriesTruthful, Truthful, Begins
<1> QED BY <1>3, <1>4, LedgerMoves

\* A deployment with an entry began.
LEMMA RecordedBegan ==
    ASSUME IInv, HInv, NEW k \in 1..Len(ledger) PROVE ledger[k].dep \in Deps /\ Begins(ledger[k].dep)
<1>1. ledger[k] \in Entries
  BY DEF IInv, Typed, LogTyped
<1> QED BY <1>1 DEF Entries, HInv, EntriesTruthful, Truthful

LEMMA RollbackPlansStay == ASSUME IInv, DInv, LInv, HInv, [Next]_vars PROVE RollbackPlansOK'
<1> SUFFICES ASSUME NEW p \in PlanIds, plans'[p] # None, plans'[p].op = "rollback"
             PROVE  FromSnapshot(p)'
  BY DEF RollbackPlansOK
<1>1. ASSUME plans[p] # None PROVE FromSnapshot(p)'
  <2>1. plans'[p] = plans[p] /\ FromSnapshot(p)
    BY <1>1, NextGrows DEF Grows, HInv, RollbackPlansOK
  <2>2. PICK k \in 1..Len(ledger) : ledger[k].dep = plans[p].parent
    BY <1>1, <2>1 DEF FromSnapshot, LInv, PlanLineage, IsParent
  <2>3. snapshots'[plans[p].parent] = snapshots[plans[p].parent]
    BY <2>2, RecordedBegan, BegunIsPast
  <2>4. projections'[p] # None => projections'[p] = projections[p]
    <3>1. ASSUME NEW r \in Runs, BuildProjection(r), job[r].plan = p PROVE FALSE
      <4>1. Planning(job[r])
        BY <3>1 DEF BuildProjection, At, Planning
      <4> QED BY <1>1, <3>1, <4>1 DEF IInv, JobsOK, JobOK
    <3>2. ASSUME NEW d \in Deps, CreateRollbackPlan(d, p) PROVE FALSE
      BY <1>1, <3>2 DEF CreateRollbackPlan, Fresh
    <3> QED BY <3>1, <3>2, ProjectionsMove
  <2> QED BY <2>1, <2>3, <2>4 DEF FromSnapshot, Content
<1>2. ASSUME NEW r \in Runs, PublishPlan(r), plans[p] = None PROVE FALSE
  <2>1. plans' = [plans EXCEPT ![job[r].plan] = DeployPlan]
    BY <1>2 DEF PublishPlan
  <2>2. plans'[p] = DeployPlan
    BY <1>2, <2>1 DEF IInv, Typed, DiskTyped
  <2> QED BY <2>2 DEF DeployPlan
<1>3. ASSUME NEW q \in PlanIds, NEW d \in Deps, CreateRollbackPlan(d, q), plans[p] = None
      PROVE  FromSnapshot(p)'
  <2>1. p = q /\ snapshots[d] # None /\ UNCHANGED snapshots
    BY <1>3 DEF CreateRollbackPlan, IInv, Typed, DiskTyped
  <2>2. plans'[p].parent = d /\ plans'[p].desired = snapshots[d].content
    BY <1>3, <2>1 DEF CreateRollbackPlan, IInv, Typed, DiskTyped
  <2>3. projections'[p].content = snapshots[d].content
    BY <1>3, <2>1 DEF CreateRollbackPlan, IInv, Typed, DiskTyped
  <2> QED BY <2>1, <2>2, <2>3, BoundsInt DEF FromSnapshot, Content
<1> QED BY <1>1, <1>2, <1>3, PlansMove

LEMMA NextHInv == ASSUME IInv, DInv, LInv, OInv, HInv, [Next]_vars PROVE HInv'
BY ResultsStay, EntriesTruthfulStay, RollbackPlansStay DEF HInv

----------------------------------------------------------------------------
(* What the trees hold                                                     *)

\* What a deployment that runs alone has seen of the trees is what they hold.
Seen ==
    \A r \in Runs : job[r].dep \notin overlapped /\ job[r].cmd = "deploy" =>
        /\ At(r, "capture") => job[r].seen = trees["a"]
        /\ At(r, "recheck") => \A s \in Sides : snapshots[job[r].dep].content = trees[s]

\* What it has verified is still so.
Verified ==
    \A r \in Runs : job[r].dep \notin overlapped =>
        /\ At(r, "verify") => \A s \in Sides \ job[r].todo : trees[s] = Content(job[r].plan)
        /\ At(r, "record") /\ job[r].result # "failed" =>
              \A s \in Sides : trees[s] = Content(job[r].plan)

\* Until something else writes the tree, it holds what a recorded success put there.
Told ==
    \A i \in 1..Len(ledger) : \A s \in Sides :
        ledger[i].result # "failed" /\ ledger[i].dep \notin overlapped
        /\ writer[s] = ledger[i].dep => trees[s] = Content(ledger[i].plan)

\* The last entry accounts for what the trees hold.
LastExplains ==
    IF Len(ledger) = 0 THEN \A s \in Sides : trees[s] = Bare
    ELSE \/ ledger[Len(ledger)].result = "failed"
         \/ \A s \in Sides : trees[s] = Content(ledger[Len(ledger)].plan)

Explained ==
    overlapped = {} /\ unrecorded = {} /\ (\A r \in Runs : ~Late(job[r])) => LastExplains

TInv == Seen /\ SnapshotIsPreimage /\ Verified /\ Told /\ Explained

LEMMA InitTInv == Init => TInv
<1> SUFFICES ASSUME Init PROVE TInv
    OBVIOUS
<1>1. /\ Len(ledger) = 0 /\ \A d \in Deps : begun[d] = None
      /\ \A s \in Sides : trees[s] = Bare
      /\ \A r \in Runs : job[r].pc = "idle"
  BY DEF Init, Idle
<1> QED
  BY <1>1 DEF TInv, Seen, SnapshotIsPreimage, Verified, Told, Explained, LastExplains, Begins, At

\* The content of a plan in use stays.
LEMMA ContentStays ==
    ASSUME IInv, [Next]_vars
    PROVE  /\ \A r \in Runs : Engaged(job[r]) =>
                  projections'[job[r].plan] = projections[job[r].plan]
           /\ \A i \in 1..Len(ledger) :
                  projections'[ledger[i].plan] = projections[ledger[i].plan]
<1>1. \A r \in Runs : Engaged(job[r]) => job[r].plan \in PlanIds /\ Settled(job[r].plan)
  BY DEF IInv, JobsOK, JobOK, Bound
<1>2. \A i \in 1..Len(ledger) : ledger[i] \in Entries /\ Settled(ledger[i].plan)
  BY DEF IInv, Typed, LogTyped, EntriesOK
<1>3. \A p \in PlanIds : Settled(p) => projections'[p] = projections[p]
  BY NextGrows DEF Grows
<1> QED BY <1>1, <1>2, <1>3 DEF Entries

LEMMA SeenStays == ASSUME IInv, DInv, OInv, TInv, [Next]_vars PROVE Seen'
<1> SUFFICES ASSUME NEW q \in Runs, job'[q].dep \notin overlapped', job'[q].cmd = "deploy",
                    job'[q].pc \in {"capture", "recheck"}
             PROVE  /\ job'[q].pc = "capture" => job'[q].seen = trees'["a"]
                    /\ job'[q].pc = "recheck" =>
                          \A s \in Sides : snapshots'[job'[q].dep].content = trees'[s]
  BY DEF Seen, At
<1>1. Engaged(job'[q])
  BY DEF Engaged
<1>2. CASE job'[q] = job[q]
  <2>1. job[q].dep \notin overlapped /\ Engaged(job[q]) /\ ~At(q, "sync")
    BY <1>1, <1>2, HistoryGrows DEF At
  <2>2. UNCHANGED trees
    BY <2>1, TreesKept
  <2>3. ASSUME At(q, "recheck") PROVE snapshots'[job[q].dep] = snapshots[job[q].dep]
    <3>1. ASSUME NEW r \in Runs, Capture(r), job[r].dep = job[q].dep PROVE FALSE
      <4>1. Engaged(job[r]) /\ At(r, "capture")
        BY <3>1 DEF Capture, At, Engaged
      <4> QED BY <2>1, <2>3, <3>1, <4>1 DEF DInv, DepsApart, At
    <3> QED BY <2>1, <3>1, EngagedTyped, SnapshotsMove
  <2> QED BY <1>2, <2>1, <2>2, <2>3 DEF TInv, Seen, At
<1>3. CASE Stays(q) /\ Scan(q) /\ job'[q].pc = "capture" /\ job'[q].seen = trees["a"]
  BY <1>3 DEF Scan
<1>4. CASE Stays(q) /\ Capture(q) /\ job'[q].pc = "recheck"
  <2>1. /\ job[q].dep \notin overlapped /\ job[q].cmd = "deploy" /\ job'[q].dep = job[q].dep
        /\ job[q].dep \in Deps
    BY <1>4, HistoryGrows, EngagedTyped DEF Stays
  <2>2. job[q].seen = trees["a"] /\ trees["b"] = job[q].seen /\ UNCHANGED trees
    BY <1>4, <2>1 DEF Capture, TInv, Seen
  <2>3. snapshots'[job[q].dep].content = job[q].seen
    BY <1>4, <2>1 DEF Capture, IInv, Typed, DiskTyped
  <2> QED BY <1>4, <2>1, <2>2, <2>3 DEF Sides
<1> QED BY <1>1, <1>2, <1>3, <1>4, RunMoves DEF Joins

LEMMA PreimageStays == ASSUME IInv, DInv, OInv, TInv, [Next]_vars PROVE SnapshotIsPreimage'
<1> SUFFICES ASSUME NEW d \in Deps, begun'[d] # None, plans'[begun'[d].plan].op = "deploy",
                    d \notin overlapped', NEW s \in Sides
             PROVE  snapshots'[d] # None /\ snapshots'[d].content = begun'[d].pre[s]
  BY DEF SnapshotIsPreimage, Begins
<1>0. d \notin overlapped
  BY HistoryGrows
<1>1. CASE Begins(d)
  <2>1. begun'[d] = begun[d] /\ snapshots'[d] = snapshots[d]
    BY <1>1, BegunIsPast
  <2>2. plans[begun[d].plan].op = "deploy"
    BY <1>1, <2>1, NextGrows, BegunPlan
  <2> QED BY <1>0, <1>1, <2>1, <2>2 DEF TInv, SnapshotIsPreimage
<1>2. CASE ~Begins(d)
  <2>1. PICK r \in Runs : Recheck(r) /\ job[r].dep = d
    BY <1>2, BegunMoves DEF Begins
  <2>2. /\ Engaged(job[r]) /\ At(r, "recheck") /\ UNCHANGED <<snapshots, plans>>
    BY <2>1 DEF Recheck, At, Engaged, disk
  <2>3. begun'[d].pre = trees /\ begun'[d].plan = job[r].plan
    BY <2>1 DEF Recheck, IInv, Typed, BegunTyped
  <2>4. job[r].cmd = "deploy"
    BY <2>2, <2>3, EngagedTyped
  <2>5. snapshots[d] # None
    BY <2>1, <2>2, <2>4 DEF DInv, CapturedJobs, At
  <2>6. snapshots[d].content = trees[s]
    BY <1>0, <2>1, <2>2, <2>4 DEF TInv, Seen
  <2> QED BY <2>2, <2>3, <2>5, <2>6
<1> QED BY <1>1, <1>2

LEMMA VerifiedStays == ASSUME IInv, DInv, OInv, TInv, [Next]_vars PROVE Verified'
<1> SUFFICES ASSUME NEW q \in Runs, job'[q].dep \notin overlapped',
                    job'[q].pc \in {"verify", "record"}, NEW s \in Sides
             PROVE  /\ job'[q].pc = "verify" /\ s \notin job'[q].todo =>
                          trees'[s] = projections'[job'[q].plan].content
                    /\ job'[q].pc = "record" /\ job'[q].result # "failed" =>
                          trees'[s] = projections'[job'[q].plan].content
  BY DEF Verified, At, Content
<1>1. Engaged(job'[q])
  BY DEF Engaged
<1>2. CASE job'[q] = job[q]
  <2>1. job[q].dep \notin overlapped /\ Engaged(job[q]) /\ ~At(q, "sync")
    BY <1>1, <1>2, HistoryGrows DEF At
  <2>2. UNCHANGED trees /\ projections'[job[q].plan] = projections[job[q].plan]
    BY <2>1, TreesKept, ContentStays
  <2> QED BY <1>2, <2>1, <2>2 DEF TInv, Verified, At, Content
<1>3. CASE SyncDone(q) /\ job'[q].pc = "verify" /\ job'[q].todo = Sides
  BY <1>3
<1>4. ASSUME Stays(q), NEW t \in Sides, VerifySide(q, t), job'[q].pc = "verify",
             job'[q].todo = job[q].todo \ {t}
      PROVE  s \notin job'[q].todo => trees'[s] = projections'[job'[q].plan].content
  <2>1. /\ At(q, "verify") /\ trees[t] = Content(job[q].plan) /\ UNCHANGED <<trees, projections>>
        /\ job'[q].plan = job[q].plan /\ job[q].dep \notin overlapped
    BY <1>4, HistoryGrows DEF VerifySide, Stays, disk
  <2> QED BY <1>4, <2>1 DEF TInv, Verified, Content
<1>5. CASE Stays(q) /\ VerifyDone(q) /\ job'[q].pc = "record"
  <2>1. /\ At(q, "verify") /\ job[q].todo = {} /\ UNCHANGED <<trees, projections>>
        /\ job'[q].plan = job[q].plan /\ job[q].dep \notin overlapped
    BY <1>5, HistoryGrows DEF VerifyDone, Stays, disk
  <2> QED BY <1>5, <2>1 DEF TInv, Verified, Content
<1> QED BY <1>1, <1>2, <1>3, <1>4, <1>5, RunMoves DEF Joins

\* How the ledger grows: its entries stay, and a new one is of a run at its end.
LEMMA EntriesMove ==
    ASSUME IInv, [Next]_vars, NEW i \in 1..Len(ledger')
    PROVE  \/ i \in 1..Len(ledger) /\ ledger'[i] = ledger[i]
           \/ /\ i = Len(ledger) + 1 /\ Len(ledger') = Len(ledger) + 1
              /\ \E r \in Runs : /\ At(r, "record")
                                 /\ ledger'[i].dep = job[r].dep /\ ledger'[i].plan = job[r].plan
                                 /\ ledger'[i].result = job[r].result
<1>1. ledger \in Seq(Entries) /\ Len(ledger) \in Nat
  BY DEF IInv, Typed, LogTyped
<1>2. CASE UNCHANGED ledger
  BY <1>2
<1>3. ASSUME NEW r \in Runs, At(r, "record"), ledger' = Append(ledger, NewEntry(r))
      PROVE  \/ i \in 1..Len(ledger) /\ ledger'[i] = ledger[i]
             \/ /\ i = Len(ledger) + 1 /\ Len(ledger') = Len(ledger) + 1
                /\ ledger'[i].dep = job[r].dep /\ ledger'[i].plan = job[r].plan
                /\ ledger'[i].result = job[r].result
  <2>1. PICK e : e = NewEntry(r)
    OBVIOUS
  <2>2. e.dep = job[r].dep /\ e.plan = job[r].plan /\ e.result = job[r].result
    BY <2>1 DEF NewEntry
  <2>3. Len(ledger') = Len(ledger) + 1 /\ ledger'[Len(ledger) + 1] = e
        /\ \A k \in 1..Len(ledger) : ledger'[k] = ledger[k]
    BY <1>1, <1>3, <2>1
  <2> QED BY <1>1, <2>2, <2>3
<1> QED BY <1>2, <1>3, LedgerMoves

\* What a run verified is there when its entry is written.
LEMMA VerifiedAtEnd ==
    ASSUME IInv, DInv, OInv, TInv, [Next]_vars, NEW r \in Runs, At(r, "record"),
           job[r].result # "failed", job[r].dep \notin overlapped, NEW s \in Sides
    PROVE  trees'[s] = projections'[job[r].plan].content
<1>1. Engaged(job[r]) /\ ~At(r, "sync")
  BY DEF At, Engaged
<1>2. UNCHANGED trees /\ projections'[job[r].plan] = projections[job[r].plan]
  BY <1>1, TreesKept, ContentStays
<1> QED BY <1>2 DEF TInv, Verified, Content

LEMMA ToldStays == ASSUME IInv, DInv, OInv, TInv, [Next]_vars PROVE Told'
<1> SUFFICES ASSUME NEW i \in 1..Len(ledger'), NEW s \in Sides, ledger'[i].result # "failed",
                    ledger'[i].dep \notin overlapped', writer'[s] = ledger'[i].dep
             PROVE  trees'[s] = projections'[ledger'[i].plan].content
  BY DEF Told, Content
<1>0. ledger'[i].dep \notin overlapped
  BY HistoryGrows
<1>1. CASE i \in 1..Len(ledger) /\ ledger'[i] = ledger[i]
  <2>1. ASSUME NEW r \in Runs, At(r, "sync"), writer'[s] = job[r].dep PROVE FALSE
    BY <1>1, <2>1 DEF At, Engaged, DInv, NotRecorded
  <2>2. ASSUME NEW x \in stragglers, writer'[s] = x.dep PROVE FALSE
    BY <1>1, <2>2 DEF OInv, StragglersApart
  <2>3. trees'[s] = trees[s] /\ writer'[s] = writer[s]
    BY <2>1, <2>2, TreesMove
  <2>4. projections'[ledger[i].plan] = projections[ledger[i].plan]
    BY <1>1, ContentStays
  <2> QED BY <1>0, <1>1, <2>3, <2>4 DEF TInv, Told, Content
<1>2. CASE \E r \in Runs : /\ At(r, "record")
                           /\ ledger'[i].dep = job[r].dep /\ ledger'[i].plan = job[r].plan
                           /\ ledger'[i].result = job[r].result
  BY <1>0, <1>2, VerifiedAtEnd
<1> QED BY <1>1, <1>2, EntriesMove

LEMMA ExplainedStays == ASSUME IInv, DInv, OInv, TInv, [Next]_vars PROVE Explained'
<1> SUFFICES ASSUME overlapped' = {}, unrecorded' = {}, \A r \in Runs : ~Late(job'[r])
             PROVE  LastExplains'
  BY DEF Explained, Late
<1>1. overlapped = {} /\ unrecorded = {} /\ stragglers = {}
  BY HistoryGrows DEF OInv, StragglersApart
<1>2. ledger \in Seq(Entries) /\ Len(ledger) \in Nat
  BY DEF IInv, Typed, LogTyped
<1>3. CASE UNCHANGED ledger
  <2>1. ASSUME NEW q \in Runs, Late(job[q]) PROVE FALSE
    <3>1. At(q, "record") /\ ledger' = Append(ledger, NewEntry(q))
      BY <2>1, LateEnds
    <3>2. PICK e : e = NewEntry(q)
      OBVIOUS
    <3>3. Len(ledger') = Len(ledger) + 1
      BY <1>2, <3>1, <3>2
    <3> QED BY <1>2, <1>3, <3>3
  <2>2. LastExplains
    BY <1>1, <2>1 DEF TInv, Explained
  <2>3. \A s \in Sides : trees'[s] = trees[s]
    BY <1>1, <2>1, TreesMove DEF At, Late
  <2>4. Len(ledger) # 0 =>
            projections'[ledger[Len(ledger)].plan] = projections[ledger[Len(ledger)].plan]
    BY <1>2, ContentStays
  <2> QED BY <1>3, <2>2, <2>3, <2>4 DEF LastExplains, Content
<1>4. ASSUME NEW r \in Runs, At(r, "record"), ledger' = Append(ledger, NewEntry(r))
      PROVE  LastExplains'
  <2>1. PICK e : e = NewEntry(r)
    OBVIOUS
  <2>2. e.plan = job[r].plan /\ e.result = job[r].result
    BY <2>1 DEF NewEntry
  <2>3. Len(ledger') = Len(ledger) + 1 /\ ledger'[Len(ledger')] = e
    BY <1>2, <1>4, <2>1
  <2>4. Len(ledger') # 0
    BY <1>2, <2>3
  <2>5. e.result # "failed" => \A s \in Sides : trees'[s] = projections'[e.plan].content
    BY <1>1, <1>4, <2>2, VerifiedAtEnd
  <2> QED BY <2>3, <2>4, <2>5 DEF LastExplains, Content
<1> QED BY <1>3, <1>4, LedgerMoves

LEMMA NextTInv == ASSUME IInv, DInv, OInv, TInv, [Next]_vars PROVE TInv'
BY SeenStays, PreimageStays, VerifiedStays, ToldStays, ExplainedStays DEF TInv

----------------------------------------------------------------------------
(* What it gives                                                           *)

SInv == IInv /\ DInv /\ LInv /\ OInv /\ HInv /\ TInv

LEMMA InitSInv == Init => SInv
BY InitIInv, InitDInv, InitLInv, InitOInv, InitHInv, InitTInv DEF SInv

LEMMA NextSInv == ASSUME SInv, [Next]_vars PROVE SInv'
BY NextIInv, NextDInv, NextLInv, NextOInv, NextHInv, NextTInv DEF SInv

LEMMA StateInvariance == Spec => []SInv
<1>1. SInv /\ [Next]_vars => SInv'
  BY NextSInv
<1> QED BY <1>1, InitSInv, PTL DEF Spec

(* The snapshot of a deployment that ran alone is what both trees held     *)
(* when its sync began, although capture reads them one after the other    *)
(* and the sync starts later: it never deploys over trees that differ.     *)
THEOREM SnapshotsArePreimages == Spec => []SnapshotIsPreimage
<1>1. SInv => SnapshotIsPreimage
  BY DEF SInv, TInv
<1> QED BY <1>1, StateInvariance, PTL

\* At rest nobody is in the middle of a deployment.
LEMMA AtRestIsQuiet ==
    ASSUME IInv, AtRest PROVE \A r \in Runs : ~Late(job[r])
<1>1. \A r \in Runs : Engaged(job[r]) => job[r].dep \in Deps
  BY EngagedTyped
<1> QED BY <1>1, BoundsInt DEF AtRest, Late, Engaged

(* The position of the last success, which LatestSuccessful chooses        *)

LEMMA LeastExists ==
    ASSUME NEW T \in SUBSET Nat, T # {}
    PROVE  \E x \in T : \A y \in T : x <= y
<1>1. PICK x \in T : \A y \in T : ~(<<y, x>> \in OpToRel(<, Nat))
  BY NatLessThanWellFounded, WFMin
<1>2. \A y \in T : <<y, x>> \in Nat \X Nat
  OBVIOUS
<1>3. \A y \in T : ~(y < x)
  BY <1>1, <1>2 DEF OpToRel
<1> QED BY <1>3

LEMMA GreatestExists ==
    ASSUME NEW n \in Nat, NEW S \in SUBSET (1..n), S # {}
    PROVE  \E x \in S : \A y \in S : y <= x
<1> DEFINE T == {n - i : i \in S}
<1>1. \A i \in S : i \in 1..n /\ n - i \in Nat /\ n - i \in T
  OBVIOUS
<1>2. T \in SUBSET Nat /\ T # {}
  BY <1>1
<1>3. PICK m \in T : \A y \in T : m <= y
  BY <1>2, LeastExists
<1>4. PICK x \in S : m = n - x
  OBVIOUS
<1>5. ASSUME NEW y \in S PROVE y <= x
  <2>1. m <= n - y
    BY <1>1, <1>3
  <2> QED BY <1>1, <1>4, <2>1
<1> QED BY <1>4, <1>5

NotFailed == {i \in 1..Len(ledger) : ledger[i].result # "failed"}

\* Position i is that of the last success, 0 if there is none.
LastSuccess(i) ==
    IF i = 0 THEN NotFailed = {} ELSE i \in NotFailed /\ \A k \in NotFailed : k <= i

LEMMA LatestIsLast ==
    ASSUME ledger \in Seq(Entries)
    PROVE  LatestSuccessful \in 0..Len(ledger) /\ LastSuccess(LatestSuccessful)
<1>1. Len(ledger) \in Nat /\ NotFailed \in SUBSET (1..Len(ledger))
  BY DEF NotFailed
<1>2. \A i \in 1..Len(ledger) : ledger[i].result \in EntryResults
  <2>1. \A i \in 1..Len(ledger) : ledger[i] \in Entries
    OBVIOUS
  <2> QED BY <2>1 DEF Entries
<1>3. NotFailed = {i \in 1..Len(ledger) : ledger[i].result \in {"succeeded", "rolled_back"}}
  BY <1>2 DEF NotFailed, EntryResults
<1>4. LatestSuccessful =
        IF NotFailed = {} THEN 0 ELSE CHOOSE i \in NotFailed : \A k \in NotFailed : k <= i
  BY <1>3 DEF LatestSuccessful
<1>5. CASE NotFailed = {}
  BY <1>1, <1>4, <1>5 DEF LastSuccess
<1>6. CASE NotFailed # {}
  <2>1. \E i \in NotFailed : \A k \in NotFailed : k <= i
    BY <1>1, <1>6, GreatestExists
  <2>2. LatestSuccessful \in NotFailed /\ \A k \in NotFailed : k <= LatestSuccessful
    BY <1>4, <1>6, <2>1
  <2> QED BY <1>1, <2>2 DEF LastSuccess
<1> QED BY <1>5, <1>6

\* What the last entry explains, the last success does, or a later failure.
LEMMA SuccessExplains ==
    ASSUME ledger \in Seq(Entries), LastExplains, NEW i \in 0..Len(ledger), LastSuccess(i)
    PROVE  \/ \A s \in Sides : trees[s] = IF i = 0 THEN Bare ELSE Content(ledger[i].plan)
           \/ \E k \in (i + 1)..Len(ledger) : ledger[k].result = "failed"
<1>1. Len(ledger) \in Nat
  OBVIOUS
<1>2. CASE Len(ledger) = 0
  BY <1>1, <1>2 DEF LastExplains
<1>3. CASE Len(ledger) # 0 /\ ledger[Len(ledger)].result = "failed"
  <2>1. i # Len(ledger)
    BY <1>1, <1>3 DEF LastSuccess, NotFailed
  <2> QED BY <1>1, <1>3, <2>1
<1>4. CASE Len(ledger) # 0 /\ ledger[Len(ledger)].result # "failed"
  <2>1. Len(ledger) \in NotFailed
    BY <1>1, <1>4 DEF NotFailed
  <2>2. i # 0 /\ Len(ledger) <= i
    BY <2>1 DEF LastSuccess
  <2>3. i = Len(ledger)
    BY <1>1, <2>2
  <2> QED BY <1>4, <2>2, <2>3 DEF LastExplains
<1> QED BY <1>2, <1>3, <1>4

(* At rest, when no deployment overlapped another one or went unrecorded,  *)
(* the trees hold what the latest success put there, or the ledger has a   *)
(* later failure to tell: what status and drift rely on.                   *)
THEOREM DriftsAreExplained == Spec => []DriftExplained
<1>1. ASSUME SInv, AtRest, overlapped = {}, unrecorded = {}
      PROVE  LET i == LatestSuccessful
                 expected == IF i = 0 THEN Bare ELSE Content(ledger[i].plan)
             IN \/ \A s \in Sides : trees[s] = expected
                \/ \E k \in (i + 1)..Len(ledger) : ledger[k].result = "failed"
  <2>1. ledger \in Seq(Entries)
    BY <1>1 DEF SInv, IInv, Typed, LogTyped
  <2>2. LastExplains
    BY <1>1, AtRestIsQuiet DEF SInv, TInv, Explained
  <2>3. LatestSuccessful \in 0..Len(ledger) /\ LastSuccess(LatestSuccessful)
    BY <2>1, LatestIsLast
  <2> QED BY <2>1, <2>2, <2>3, SuccessExplains
<1>2. SInv => DriftExplained
  BY <1>1 DEF DriftExplained
<1> QED BY <1>2, StateInvariance, PTL

\* An entry of a rollback names the deployment whose snapshot it put back.
LEMMA RolledBack ==
    ASSUME SInv, NEW i \in 1..Len(ledger), ledger[i].result = "rolled_back",
           ledger[i].parent \notin overlapped, NEW s \in Sides
    PROVE  Begins(ledger[i].parent) /\ Content(ledger[i].plan) = begun[ledger[i].parent].pre[s]
<1> DEFINE e == ledger[i]
           d == ledger[i].parent
<1>1. e \in Entries /\ e.plan \in PlanIds /\ Settled(e.plan) /\ Truthful(e)
  <2>1. e \in Entries
    BY DEF SInv, IInv, Typed, LogTyped
  <2>2. Settled(e.plan)
    BY DEF SInv, IInv, EntriesOK
  <2>3. Truthful(e)
    BY DEF SInv, HInv, EntriesTruthful
  <2> QED BY <2>1, <2>2, <2>3 DEF Entries
<1>2. plans[e.plan] # None /\ plans[e.plan].op = "rollback" /\ plans[e.plan].parent = d
  BY <1>1 DEF Settled, Truthful
<1>3. d # NoDep /\ Content(e.plan) = snapshots[d].content
  BY <1>1, <1>2 DEF SInv, HInv, RollbackPlansOK, FromSnapshot, Settled
<1>4. PICK k \in 1..Len(ledger) : IsParent(k, d)
  BY <1>1, <1>2, <1>3 DEF SInv, LInv, PlanLineage
<1>5. /\ d \in Deps /\ Begins(d) /\ Truthful(ledger[k]) /\ ledger[k].dep = d
      /\ ledger[k].result = "succeeded"
  BY <1>4, RecordedBegan DEF SInv, HInv, EntriesTruthful, IsParent
<1>6. plans[begun[d].plan].op = "deploy"
  BY <1>5 DEF Truthful
<1>7. snapshots[d].content = begun[d].pre[s]
  BY <1>5, <1>6 DEF SInv, TInv, SnapshotIsPreimage
<1> QED BY <1>3, <1>5, <1>7

(* After a rollback that was recorded as done, and until something else is *)
(* synced, both trees hold what they held before the deployment it rolls   *)
(* back, whatever ran, failed or was killed in between.                    *)
THEOREM RollbacksRestore == Spec => []RollbackRestores
<1>1. ASSUME SInv, NEW i \in 1..Len(ledger), ledger[i].result = "rolled_back",
             ledger[i].dep \notin overlapped, ledger[i].parent \notin overlapped,
             \A s \in Sides : writer[s] = ledger[i].dep
      PROVE  Begins(ledger[i].parent) /\ trees = begun[ledger[i].parent].pre
  <2>1. \A s \in Sides : trees[s] = Content(ledger[i].plan)
    BY <1>1 DEF SInv, TInv, Told
  <2>2. "a" \in Sides
    BY DEF Sides
  <2>3. Begins(ledger[i].parent)
    BY <1>1, <2>2, RolledBack
  <2>4. \A s \in Sides : trees[s] = begun[ledger[i].parent].pre[s]
    BY <1>1, <2>1, RolledBack
  <2>5. ledger[i].parent \in Deps
    <3>1. ledger[i] \in Entries /\ Truthful(ledger[i])
      BY <1>1 DEF SInv, IInv, Typed, LogTyped, HInv, EntriesTruthful
    <3>2. ledger[i].parent # NoDep
      BY <1>1, <3>1 DEF Truthful, SInv, HInv, RollbackPlansOK, FromSnapshot, IInv, EntriesOK,
                        Settled, Entries
    <3> QED BY <3>1, <3>2, BoundsInt DEF Entries
  <2>6. trees \in [Sides -> Contents] /\ begun[ledger[i].parent].pre \in [Sides -> Contents]
    BY <1>1, <2>3, <2>5 DEF SInv, IInv, Typed, TreesTyped, BegunTyped, Begun, Begins
  <2> QED BY <2>3, <2>4, <2>6
<1>2. SInv => RollbackRestores
  BY <1>1 DEF RollbackRestores
<1> QED BY <1>2, StateInvariance, PTL

----------------------------------------------------------------------------
(* Who wrote a tree last, overlapping deployments included                 *)

\* A run writes its plan's content and goes on, or part of it and fails.
LEMMA WritesMove ==
    ASSUME IInv, [Next]_vars, NEW s \in Sides
    PROVE  \/ trees'[s] = trees[s] /\ writer'[s] = writer[s]
           \/ \E r \in Runs : /\ At(r, "sync") /\ writer'[s] = job[r].dep /\ Stays(r)
                              /\ \/ job'[r].pc = "sync" /\ trees'[s] = Content(job[r].plan)
                                 \/ job'[r].pc = "record" /\ job'[r].result = "failed"
           \/ \E x \in stragglers : writer'[s] = x.dep
<1>1. trees \in [Sides -> Contents] /\ writer \in [Sides -> 0..MaxDeps]
  BY DEF IInv, Typed, TreesTyped
<1>2. ASSUME NEW r \in Runs, At(r, "sync"), job'[r].pc \in {"sync", "record"}
      PROVE  job'[r] = job[r] \/ Stays(r)
  BY <1>2, RunMoves DEF Engaged, Joins
<1>3. ASSUME NEW r \in Runs, job'[r] = job[r], At(r, "sync") PROVE Stays(r)
  BY <1>3 DEF Stays, At, Engaged
<1>4. ASSUME NEW r \in Runs, NEW t \in Sides, SyncSide(r, t)
      PROVE  /\ At(r, "sync") /\ Stays(r) /\ job'[r].pc = "sync"
             /\ \/ trees'[s] = trees[s] /\ writer'[s] = writer[s]
                \/ writer'[s] = job[r].dep /\ trees'[s] = Content(job[r].plan)
  <2>1. job[r] \in Jobs /\ job'[r] = [job[r] EXCEPT !.todo = @ \ {t}] /\ At(r, "sync")
    BY <1>4 DEF SyncSide, Become, IInv, JobsOK
  <2>2. job'[r].pc = "sync"
    BY <2>1 DEF Jobs, At
  <2> QED BY <1>1, <1>2, <1>3, <1>4, <2>1, <2>2 DEF SyncSide, Write
<1>5. ASSUME NEW r \in Runs, SyncFails(r)
      PROVE  /\ At(r, "sync") /\ Stays(r) /\ job'[r].pc = "record" /\ job'[r].result = "failed"
             /\ \/ trees'[s] = trees[s] /\ writer'[s] = writer[s]
                \/ writer'[s] = job[r].dep
  <2>1. job[r] \in Jobs /\ At(r, "sync")
        /\ job'[r] = [job[r] EXCEPT !.pc = "record", !.todo = {}, !.result = "failed"]
    BY <1>5 DEF SyncFails, Failed, Become, IInv, JobsOK
  <2>2. job'[r].pc = "record" /\ job'[r].result = "failed" /\ job[r].todo \subseteq Sides
    BY <2>1 DEF Jobs
  <2> QED BY <1>1, <1>2, <1>3, <1>5, <2>1, <2>2 DEF SyncFails, Write
<1>6. CASE \E r \in Runs : SyncFails(r) \/ \E t \in Sides : SyncSide(r, t)
  BY <1>4, <1>5, <1>6
<1>7. ASSUME NEW x \in stragglers, NEW t \in Sides, StragglerWrites(x, t)
      PROVE  \/ trees'[s] = trees[s] /\ writer'[s] = writer[s]
             \/ writer'[s] = x.dep
  BY <1>1, <1>7 DEF StragglerWrites, Write
<1>8. ASSUME NEW r \in Runs, Step(r), ~SyncFails(r), \A t \in Sides : ~SyncSide(r, t)
      PROVE  UNCHANGED <<trees, writer>>
  BY <1>8 DEF Step, BuildProjection, PlanFails, PublishPlan, Authorise, AuthoriseRollback, Scan,
              Capture, Abort, Recheck, VerifySide, SyncDone, VerifyDone, VerifyFails, Record,
              history
<1>9. ASSUME NEW r \in Runs, Start(r) \/ Kill(r) PROVE UNCHANGED <<trees, writer>>
  BY <1>9 DEF Start, PlanLoad, ApplyLoad, RollbackLoad, Kill, history
<1>10. Operator \/ UNCHANGED vars => UNCHANGED <<trees, writer>>
  BY DEF Operator, Decide, CreateRollbackPlan, vars, history
<1>11. ASSUME Environment, \A x \in stragglers : \A t \in Sides : ~StragglerWrites(x, t)
       PROVE  UNCHANGED <<trees, writer>>
  BY <1>11 DEF Environment, EditRegistry, EditAuthority, Tick, StragglerEnds, history
<1> QED BY <1>6, <1>7, <1>8, <1>9, <1>10, <1>11 DEF Next

\* The run r has deployment d under way, and tree s is as d leaves it.
Writing(r, d, s) ==
    /\ Late(job[r]) /\ job[r].dep = d
    /\ \/ trees[s] = Content(job[r].plan)
       \/ At(r, "record") /\ job[r].result = "failed"

\* The entry i is that of deployment d, and tree s is as the entry says.
Accounts(i, d, s) ==
    /\ ledger[i].dep = d
    /\ ledger[i].result # "failed" => trees[s] = Content(ledger[i].plan)

WInv ==
    \A s \in Sides : writer[s] # NoDep =>
        \/ writer[s] \in unrecorded
        \/ \E r \in Runs : Writing(r, writer[s], s)
        \/ \E i \in 1..Len(ledger) : Accounts(i, writer[s], s)

LEMMA InitWInv == Init => WInv
<1> SUFFICES ASSUME Init PROVE WInv
    OBVIOUS
<1> QED BY DEF Init, WInv

\* While nobody writes the tree, its run goes on, or ends with an entry.
LEMMA WritingEnds ==
    ASSUME SInv, [Next]_vars, NEW r \in Runs, NEW d, NEW s \in Sides, Writing(r, d, s),
           trees'[s] = trees[s]
    PROVE  \/ d \in unrecorded' \/ Writing(r, d, s)'
           \/ \E i \in 1..Len(ledger') : Accounts(i, d, s)'
<1>0. /\ IInv /\ Engaged(job[r]) /\ projections'[job[r].plan] = projections[job[r].plan]
      /\ ledger \in Seq(Entries)
  BY ContentStays DEF SInv, Writing, Late, Engaged, IInv, Typed, LogTyped
<1>1. CASE Late(job'[r])
  <2>1. job'[r].dep = job[r].dep /\ job'[r].plan = job[r].plan
    BY <1>0, <1>1, RunMoves DEF Late, Engaged, Joins, Stays
  <2>2. ASSUME At(r, "record"), job[r].result = "failed"
        PROVE  job'[r].pc = "record" /\ job'[r].result = "failed"
    <3>1. Engaged(job'[r]) /\ ~Joins(r)
      BY <1>0, <1>1 DEF Late, Engaged, Joins
    <3> QED BY <1>0, <2>2, <3>1, RunMoves
            DEF At, Scan, Capture, Recheck, SyncDone, VerifySide, VerifyDone
  <2> QED BY <1>0, <1>1, <2>1, <2>2 DEF Writing, Late, At, Content
<1>2. CASE ~Late(job'[r])
  <2>1. CASE At(r, "record") /\ ledger' = Append(ledger, NewEntry(r))
    <3>1. PICK e : e = NewEntry(r)
      OBVIOUS
    <3>2. e.dep = d /\ e.plan = job[r].plan /\ e.result = job[r].result
      BY <3>1 DEF NewEntry, Writing
    <3>3. PICK i \in 1..Len(ledger') : ledger'[i] = e
      <4>1. Len(ledger) + 1 \in 1..Len(ledger') /\ ledger'[Len(ledger) + 1] = e
        BY <1>0, <2>1, <3>1
      <4> QED BY <4>1
    <3>4. e.result # "failed" => trees'[s] = projections'[e.plan].content
      BY <1>0, <3>2 DEF Writing, Content
    <3>5. Accounts(i, d, s)'
      BY <3>2, <3>3, <3>4 DEF Accounts, Content
    <3> QED BY <3>5
  <2> QED BY <1>0, <1>2, <2>1, LateEnds DEF Writing
<1> QED BY <1>1, <1>2

\* An entry accounts for the tree until something writes it.
LEMMA AccountStays ==
    ASSUME IInv, [Next]_vars, NEW i \in 1..Len(ledger), NEW d, NEW s \in Sides,
           Accounts(i, d, s), trees'[s] = trees[s]
    PROVE  i \in 1..Len(ledger') /\ Accounts(i, d, s)'
<1>1. ledger \in Seq(Entries) /\ projections'[ledger[i].plan] = projections[ledger[i].plan]
  BY ContentStays DEF IInv, Typed, LogTyped
<1>2. i \in 1..Len(ledger') /\ ledger'[i] = ledger[i]
  <2>1. ASSUME NEW r \in Runs, ledger' = Append(ledger, NewEntry(r))
        PROVE  i \in 1..Len(ledger') /\ ledger'[i] = ledger[i]
    <3>1. PICK e : e = NewEntry(r)
      OBVIOUS
    <3> QED BY <1>1, <2>1, <3>1
  <2> QED BY <2>1, LedgerMoves
<1> QED BY <1>1, <1>2 DEF Accounts, Content

LEMMA NextWInv == ASSUME SInv, WInv, [Next]_vars PROVE WInv'
<1> SUFFICES ASSUME NEW s \in Sides, NEW d, d = writer'[s], d # NoDep
             PROVE  \/ d \in unrecorded' \/ \E r \in Runs : Writing(r, d, s)'
                    \/ \E i \in 1..Len(ledger') : Accounts(i, d, s)'
  BY DEF WInv, Writing, Accounts, Late, At, Content
<1>0. IInv /\ OInv /\ unrecorded \subseteq unrecorded'
  BY HistoryGrows DEF SInv
<1>1. CASE trees'[s] = trees[s] /\ writer'[s] = writer[s]
  <2>1. \/ d \in unrecorded \/ \E r \in Runs : Writing(r, d, s)
        \/ \E i \in 1..Len(ledger) : Accounts(i, d, s)
    BY <1>1 DEF WInv
  <2> QED BY <1>0, <1>1, <2>1, WritingEnds, AccountStays
<1>2. ASSUME NEW r \in Runs, At(r, "sync"), d = job[r].dep, Stays(r),
             \/ job'[r].pc = "sync" /\ trees'[s] = Content(job[r].plan)
             \/ job'[r].pc = "record" /\ job'[r].result = "failed"
      PROVE  Writing(r, d, s)'
  <2>1. projections'[job[r].plan] = projections[job[r].plan]
    BY <1>0, <1>2, ContentStays DEF Stays
  <2> QED BY <1>2, <2>1 DEF Writing, Stays, Late, At, Content
<1>3. ASSUME NEW x \in stragglers, d = x.dep PROVE d \in unrecorded'
  BY <1>0, <1>3 DEF OInv, StragglersApart
<1> QED BY <1>0, <1>1, <1>2, <1>3, WritesMove

(* Once its run is over, the deployment that wrote a tree last has its     *)
(* entry, and the tree is as the entry says, whatever ran beside it: only  *)
(* an outcome that could not be recorded leaves a tree unaccounted for.    *)
THEOREM TreesAreAccounted == Spec => []WritesAreAccounted
<1>1. WInv => WritesAreAccounted
  BY DEF WInv, Writing, Accounts, WritesAreAccounted
<1>2. SInv /\ WInv /\ [Next]_vars => WInv'
  BY NextWInv
<1> QED BY <1>1, <1>2, InitWInv, StateInvariance, PTL DEF Spec

\* Only a run at its end touches the ledger: its entry is stored, or the log is closed.
LEMMA LogMoves ==
    ASSUME IInv, [Next]_vars
    PROVE  \/ UNCHANGED <<ledger, torn>>
           \/ \E r \in Runs : /\ At(r, "record")
                              /\ \/ UNCHANGED ledger /\ torn' = TRUE
                                 \/ /\ ~torn /\ UNCHANGED torn
                                    /\ ledger' = Append(ledger, NewEntry(r))
<1>1. torn \in BOOLEAN
  BY DEF IInv, Typed, LogTyped
<1>2. ASSUME NEW r \in Runs, Record(r)
      PROVE  \/ UNCHANGED <<ledger, torn>>
             \/ At(r, "record") /\ UNCHANGED ledger /\ torn' = TRUE
             \/ /\ At(r, "record") /\ ~torn /\ UNCHANGED torn
                /\ ledger' = Append(ledger, NewEntry(r))
  <2>1. torn' \in {torn, torn \/ IsWritten(r)} => torn' = torn \/ torn' = TRUE
    BY <1>1 DEF IsWritten, EntryIsMade
  <2> QED BY <1>2, <2>1 DEF Record, IsWritten
<1>3. ASSUME NEW r \in Runs, Kill(r)
      PROVE  \/ UNCHANGED <<ledger, torn>>
             \/ At(r, "record") /\ UNCHANGED ledger /\ torn' = TRUE
             \/ /\ At(r, "record") /\ ~torn /\ UNCHANGED torn
                /\ ledger' = Append(ledger, NewEntry(r))
  <2>1. torn' \in {torn, torn \/ (At(r, "record") /\ IsWritten(r))} =>
            torn' = torn \/ (At(r, "record") /\ torn' = TRUE)
    BY <1>1 DEF IsWritten, EntryIsMade, At
  <2> QED BY <1>3, <2>1 DEF Kill, IsWritten
<1>4. ASSUME NEW r \in Runs, Step(r), ~Record(r) PROVE UNCHANGED <<ledger, torn>>
  BY <1>4 DEF Step, BuildProjection, PlanFails, PublishPlan, Authorise, AuthoriseRollback, Scan,
              Capture, Abort, Recheck, SyncSide, VerifySide, SyncDone, SyncFails, VerifyDone,
              VerifyFails, log
<1>5. ASSUME NEW r \in Runs, Start(r) PROVE UNCHANGED <<ledger, torn>>
  BY <1>5 DEF Start, PlanLoad, ApplyLoad, RollbackLoad, log
<1>6. Operator \/ Environment \/ UNCHANGED vars => UNCHANGED <<ledger, torn>>
  BY DEF Operator, Decide, CreateRollbackPlan, Environment, EditRegistry, EditAuthority, Tick,
         StragglerEnds, StragglerWrites, vars, log
<1> QED BY <1>2, <1>3, <1>4, <1>5, <1>6 DEF Next

----------------------------------------------------------------------------
(* Who meddles with a tree keeps what is known of the deployments          *)

LEMMA MeddleKeeps == ASSUME IInv, NEW s \in Sides, Meddle(s) PROVE IInv'
<1>1. /\ UNCHANGED <<plans, approvals, projections, job, ledger, stragglers, begun>>
      /\ WorldTyped'
  BY BoundsAssumption DEF Meddle, IInv, Typed, WorldTyped, world, disk, log
<1>2. JobsOK'
  BY <1>1, NoGrowth, JobsStay DEF IInv, JobsOK, JobOK
<1>3. TreesTyped'
  BY BoundsAssumption, ValuesAssumption
  DEF Meddle, Write, NoDep, IInv, Typed, TreesTyped
<1>4. Typed'
  BY <1>1, <1>2, <1>3, Quiet DEF Meddle, IInv, Typed, DiskTyped, LogTyped, disk, log
<1> QED BY <1>1, <1>2, <1>4, Quiet DEF IInv

LEMMA ReadNextIInv == ASSUME IInv, [ReadNext]_all PROVE IInv'
<1>1. CASE ReadNext
  <2>1. CASE Command
    BY <2>1, NextIInv DEF Command
  <2>2. CASE \E s \in Sides : Meddle(s)
    BY <2>2, MeddleKeeps
  <2>3. CASE UNCHANGED vars
    BY <2>3, NextIInv
  <2> QED
    BY <1>1, <2>1, <2>2, <2>3
    DEF ReadNext, BeginReport, ReadLedger, FindProjection, DiffSide, Report, ReportFails
<1>2. CASE UNCHANGED all
  BY <1>2, NextIInv DEF all
<1> QED BY <1>1, <1>2

----------------------------------------------------------------------------
(* The reader's invariant                                                  *)

\* The report knows which entry it is about.
Chosen == view.pc \in {"projection", "diff"} \cup Answers
Compared == view.pc \in {"diff", "healthy", "drifted"}

ViewTyped ==
    /\ view \in Views /\ view.entry \in 0..Len(ledger)
    /\ at \in 0..Len(ledger) /\ touched \in BOOLEAN

NotOlder == Chosen => \A i \in (view.entry + 1)..at : ledger[i].result = "failed"

\* What the steps of a report leave behind, whatever else moves.
Progress ==
    /\ Chosen => (view.entry = 0 <=> view.pc = "unmanaged")
    /\ view.pc \in {"ledger", "projection"} => view.todo = Sides /\ ~view.differs
    /\ view.pc \in {"healthy", "drifted"} =>
          view.todo = {} /\ (view.pc = "drifted" <=> view.differs)

\* What is still so if nothing else has moved.
Exact ==
    ~touched =>
        /\ Chosen => LastSuccess(view.entry)
        /\ Compared => (view.differs <=>
              \E s \in Sides \ view.todo : trees[s] # Content(ledger[view.entry].plan))

RInv == ViewTyped /\ NotOlder /\ Progress /\ Exact

LEMMA InitRInv == ASSUME ReadInit PROVE RInv
<1>1. /\ view = NewView /\ at = 0 /\ touched = FALSE /\ Len(ledger) = 0
      /\ view.pc = "idle" /\ view.entry = 0
  BY DEF ReadInit, Init, NewView
<1>2. NewView \in Views
  BY DEF NewView, Views
<1>3. ViewTyped
  <2>1. view \in Views
    BY <1>1, <1>2
  <2>2. view.entry \in 0..Len(ledger) /\ at \in 0..Len(ledger)
    BY <1>1
  <2> QED BY <1>1, <2>1, <2>2 DEF ViewTyped
<1> QED BY <1>1, <1>3 DEF RInv, NotOlder, Progress, Exact, Chosen, Compared, Answers

(* One step of the report, and of anything else                            *)

LEMMA BeginReportRInv == ASSUME IInv, RInv, BeginReport PROVE RInv'
<1>1. /\ view' = [NewView EXCEPT !.pc = "ledger"] /\ at' = Len(ledger) /\ touched' = FALSE
      /\ UNCHANGED <<ledger, trees>> /\ Len(ledger) \in Nat
  BY DEF BeginReport, vars, log, IInv, Typed, LogTyped
<1>2. /\ view'.pc = "ledger" /\ view'.entry = 0 /\ view' \in Views
      /\ view'.todo = Sides /\ ~view'.differs
  BY <1>1 DEF NewView, Views
<1>3. ViewTyped'
  <2>1. view'.entry \in 0..Len(ledger') /\ at' \in 0..Len(ledger')
    BY <1>1, <1>2
  <2> QED BY <1>1, <1>2, <2>1 DEF ViewTyped
<1> QED BY <1>2, <1>3 DEF RInv, NotOlder, Progress, Exact, Chosen, Compared, Answers

LEMMA ReadLedgerRInv == ASSUME IInv, RInv, ReadLedger PROVE RInv'
<1> PICK i : i = LatestSuccessful
  OBVIOUS
<1>1. ledger \in Seq(Entries) /\ Len(ledger) \in Nat
  BY DEF IInv, Typed, LogTyped
<1>2. i \in 0..Len(ledger) /\ LastSuccess(i)
  BY <1>1, LatestIsLast
<1>3. /\ view' = [view EXCEPT !.entry = i, !.pc = IF i = 0 THEN "unmanaged" ELSE "projection"]
      /\ UNCHANGED <<ledger, trees, at, touched>> /\ view.pc = "ledger"
  BY DEF ReadLedger, vars, log
<1>4. view \in Views /\ view.todo = Sides /\ ~view.differs
  BY <1>3 DEF RInv, ViewTyped, Progress
<1>5. /\ view' \in Views /\ view'.entry = i /\ view'.todo = Sides /\ ~view'.differs
      /\ view'.pc = IF i = 0 THEN "unmanaged" ELSE "projection"
  <2> PICK v : v = [view EXCEPT !.entry = i]
    OBVIOUS
  <2>1. v \in Views /\ v.entry = i /\ v.todo = Sides /\ ~v.differs
    BY <1>2, <1>4 DEF Views
  <2>2. view' = [v EXCEPT !.pc = IF i = 0 THEN "unmanaged" ELSE "projection"]
    BY <1>3
  <2> QED BY <2>1, <2>2 DEF Views, Answers
<1>6. ViewTyped'
  BY <1>2, <1>3, <1>5 DEF RInv, ViewTyped
<1>7. NotOlder'
  <2> SUFFICES ASSUME NEW k \in (i + 1)..at PROVE ledger[k].result = "failed"
    BY <1>3, <1>5 DEF NotOlder
  <2>1. k \in 1..Len(ledger) /\ k > i
    BY <1>1, <1>2 DEF RInv, ViewTyped
  <2>2. k \notin NotFailed
    BY <1>1, <1>2, <2>1 DEF LastSuccess, NotFailed
  <2> QED BY <2>1, <2>2 DEF NotFailed
<1>8. LastSuccess(view.entry)'
  BY <1>2, <1>3, <1>5 DEF LastSuccess, NotFailed
<1>9. Progress' /\ Exact'
  BY <1>5, <1>8 DEF Progress, Exact, Chosen, Compared, Answers
<1> QED BY <1>6, <1>7, <1>9 DEF RInv

\* The report goes on about the entry it has chosen.
LEMMA FindProjectionRInv == ASSUME RInv, FindProjection PROVE RInv'
<1>1. /\ view' = [view EXCEPT !.pc = "diff"] /\ view.pc = "projection"
      /\ UNCHANGED <<ledger, trees, projections, at, touched>>
  BY DEF FindProjection, vars, log, disk
<1>2. view \in Views /\ view.todo = Sides /\ ~view.differs
  BY <1>1 DEF RInv, ViewTyped, Progress
<1>3. /\ view' \in Views /\ view'.entry = view.entry /\ view'.todo = Sides /\ ~view'.differs
      /\ view'.pc = "diff"
  BY <1>1, <1>2 DEF Views
<1>4. ViewTyped'
  BY <1>1, <1>3 DEF RInv, ViewTyped
<1>5. LastSuccess(view.entry)' <=> LastSuccess(view.entry)
  BY <1>1, <1>3 DEF LastSuccess, NotFailed
<1> QED
  BY <1>1, <1>3, <1>4, <1>5
  DEF RInv, NotOlder, Progress, Exact, Chosen, Compared, Answers

LEMMA DiffSideRInv == ASSUME RInv, NEW s \in Sides, DiffSide(s) PROVE RInv'
<1> DEFINE Differs(x) == trees[x] # Content(ledger[view.entry].plan)
<1>1. /\ view' = [view EXCEPT !.todo = @ \ {s}, !.differs = @ \/ Differs(s)]
      /\ view.pc = "diff" /\ s \in view.todo
      /\ UNCHANGED <<ledger, trees, projections, at, touched>>
  BY DEF DiffSide, vars, log, disk
<1>2. view \in Views /\ view.todo \in SUBSET Sides
  BY DEF RInv, ViewTyped, Views
<1>3. /\ view' \in Views /\ view'.entry = view.entry /\ view'.pc = "diff"
      /\ view'.todo = view.todo \ {s} /\ (view'.differs <=> view.differs \/ Differs(s))
  BY <1>1, <1>2 DEF Views
<1>4. ViewTyped'
  BY <1>1, <1>3 DEF RInv, ViewTyped
<1>5. LastSuccess(view.entry)' <=> LastSuccess(view.entry)
  BY <1>1, <1>3 DEF LastSuccess, NotFailed
<1>6. \A x : (trees[x] # Content(ledger[view.entry].plan))' <=> Differs(x)
  BY <1>1, <1>3 DEF Content
<1>7. Sides \ view'.todo = (Sides \ view.todo) \cup {s}
  BY <1>1, <1>2, <1>3
<1>8. Exact'
  <2> SUFFICES ASSUME ~touched
               PROVE  /\ LastSuccess(view.entry)'
                      /\ view'.differs <=> \E x \in Sides \ (view'.todo) : Differs(x)
    BY <1>1, <1>3, <1>6 DEF Exact, Chosen, Compared
  <2>1. /\ LastSuccess(view.entry)
        /\ view.differs <=> \E x \in Sides \ view.todo : Differs(x)
    BY <1>1 DEF RInv, Exact, Chosen, Compared
  <2> QED BY <1>3, <1>5, <1>7, <2>1
<1> QED
  BY <1>1, <1>3, <1>4, <1>8 DEF RInv, NotOlder, Progress, Chosen, Answers

LEMMA ReportRInv == ASSUME RInv, Report PROVE RInv'
<1>1. /\ view' = [view EXCEPT !.pc = IF view.differs THEN "drifted" ELSE "healthy"]
      /\ view.pc = "diff" /\ view.todo = {}
      /\ UNCHANGED <<ledger, trees, projections, at, touched>>
  BY DEF Report, vars, log, disk
<1>2. view \in Views
  BY DEF RInv, ViewTyped
<1>3. /\ view' \in Views /\ view'.entry = view.entry /\ view'.todo = {}
      /\ view'.differs = view.differs
      /\ view'.pc = IF view.differs THEN "drifted" ELSE "healthy"
  BY <1>1, <1>2 DEF Views, Answers
<1>4. ViewTyped'
  BY <1>1, <1>3 DEF RInv, ViewTyped
<1>5. LastSuccess(view.entry)' <=> LastSuccess(view.entry)
  BY <1>1, <1>3 DEF LastSuccess, NotFailed
<1>6. Exact'
  BY <1>1, <1>3, <1>5 DEF RInv, Exact, Chosen, Compared, Content
<1> QED
  BY <1>1, <1>3, <1>4, <1>6 DEF RInv, NotOlder, Progress, Chosen, Answers

LEMMA ReportFailsRInv == ASSUME RInv, ReportFails PROVE RInv'
<1>1. view' = NewView /\ UNCHANGED <<ledger, at, touched>>
  BY DEF ReportFails, vars, log
<1>2. NewView \in Views /\ view'.pc = "idle" /\ view'.entry = 0
  BY <1>1 DEF NewView, Views
<1>3. ViewTyped'
  BY <1>1, <1>2 DEF RInv, ViewTyped
<1> QED BY <1>2, <1>3 DEF RInv, NotOlder, Progress, Exact, Chosen, Compared, Answers

\* Others move: the ledger grows at its end, and what is deployed stays described.
LEMMA OthersRInv ==
    ASSUME IInv, RInv, Grows, UNCHANGED <<view, at>>, touched' \in BOOLEAN,
           UNCHANGED ledger \/ \E r \in Runs : ledger' = Append(ledger, NewEntry(r)),
           ~touched' => ~touched /\ UNCHANGED <<trees, ledger>>
    PROVE  RInv'
<1>1. ledger \in Seq(Entries) /\ Len(ledger) \in Nat
  BY DEF IInv, Typed, LogTyped
<1>2. /\ Len(ledger') \in Nat /\ Len(ledger) <= Len(ledger')
      /\ \A k \in 1..Len(ledger) : ledger'[k] = ledger[k]
  <2>1. CASE UNCHANGED ledger
    BY <1>1, <2>1
  <2>2. ASSUME NEW r \in Runs, ledger' = Append(ledger, NewEntry(r))
        PROVE  /\ Len(ledger') \in Nat /\ Len(ledger) <= Len(ledger')
               /\ \A k \in 1..Len(ledger) : ledger'[k] = ledger[k]
    <3> PICK e : e = NewEntry(r)
      OBVIOUS
    <3> QED BY <1>1, <2>2
  <2> QED BY <2>1, <2>2
<1>3. ViewTyped'
  BY <1>1, <1>2 DEF RInv, ViewTyped
<1>4. NotOlder'
  <2> SUFFICES ASSUME Chosen, NEW k \in (view.entry + 1)..at PROVE ledger'[k].result = "failed"
    BY DEF NotOlder, Chosen
  <2>1. k \in 1..Len(ledger)
    BY <1>1 DEF RInv, ViewTyped
  <2> QED BY <1>2, <2>1 DEF RInv, NotOlder
<1>5. Progress'
  BY DEF RInv, Progress, Chosen
<1>6. Exact'
  <2> SUFFICES ASSUME ~touched' PROVE Exact'
    BY DEF Exact
  <2>1. ~touched /\ UNCHANGED <<trees, ledger>>
    OBVIOUS
  <2>2. LastSuccess(view.entry)' <=> LastSuccess(view.entry)
    BY <2>1 DEF LastSuccess, NotFailed
  <2>3. ASSUME Compared
        PROVE  Content(ledger[view.entry].plan)' = Content(ledger[view.entry].plan)
    <3>1. view.entry \in 1..Len(ledger)
      BY <1>1, <2>3 DEF RInv, ViewTyped, Progress, Chosen, Compared, Answers
    <3>2. ledger[view.entry] \in Entries /\ Settled(ledger[view.entry].plan)
      BY <1>1, <3>1 DEF IInv, EntriesOK
    <3>3. ledger[view.entry].plan \in PlanIds
      BY <3>2 DEF Entries
    <3> QED BY <2>1, <3>2, <3>3 DEF Grows, Content
  <2> QED BY <2>1, <2>2, <2>3 DEF RInv, Exact, Chosen, Compared
<1> QED BY <1>3, <1>4, <1>5, <1>6 DEF RInv

LEMMA ReadNextRInv == ASSUME IInv, RInv, [ReadNext]_all PROVE RInv'
<1>1. ASSUME BeginReport \/ ReadLedger \/ FindProjection \/ Report \/ ReportFails
      PROVE  RInv'
  BY <1>1, BeginReportRInv, ReadLedgerRInv, FindProjectionRInv, ReportRInv, ReportFailsRInv
<1>2. ASSUME NEW s \in Sides, DiffSide(s) PROVE RInv'
  BY <1>2, DiffSideRInv
<1>3. ASSUME NEW s \in Sides, Meddle(s) PROVE RInv'
  <2>1. /\ UNCHANGED <<view, at, ledger, plans, approvals, projections>> /\ touched' = TRUE
    BY <1>3 DEF Meddle, disk, log
  <2> QED BY <2>1, NoGrowth, OthersRInv
<1>4. ASSUME Command PROVE RInv'
  <2>1. /\ Next /\ UNCHANGED <<view, at>>
        /\ touched' = (touched \/ trees' # trees \/ log' # log)
    BY <1>4 DEF Command
  <2>2. /\ touched' \in BOOLEAN /\ ~touched' => ~touched /\ UNCHANGED <<trees, ledger>>
    BY <2>1 DEF log
  <2>3. UNCHANGED ledger \/ \E r \in Runs : ledger' = Append(ledger, NewEntry(r))
    BY <2>1, LedgerMoves
  <2> QED BY <2>1, <2>2, <2>3, NextGrows, OthersRInv
<1>5. ASSUME UNCHANGED all PROVE RInv'
  <2>1. /\ UNCHANGED <<view, at, touched, trees, ledger, plans, approvals, projections>>
    BY <1>5 DEF all, reader, vars, log, disk
  <2> QED BY <2>1, NoGrowth, OthersRInv DEF RInv, ViewTyped
<1> QED BY <1>1, <1>2, <1>3, <1>4, <1>5 DEF ReadNext

----------------------------------------------------------------------------
(* What it gives                                                           *)

LEMMA ReadInvariance == ReadSpec => [](IInv /\ RInv)
<1>1. ReadInit => IInv /\ RInv
  BY InitIInv, InitRInv DEF ReadInit
<1>2. IInv /\ RInv /\ [ReadNext]_all => (IInv /\ RInv)'
  BY ReadNextIInv, ReadNextRInv
<1> QED BY <1>1, <1>2, PTL DEF ReadSpec

(* Whatever commands run beside it, and whoever writes the trees: status   *)
(* and drift never speak of a deployment that is older than the last       *)
(* success recorded before they were asked.                                *)
THEOREM ReportsAreNotOlder == ReadSpec => []ReportIsNotOlder
<1>1. RInv => ReportIsNotOlder
  BY DEF RInv, NotOlder, Chosen, Given, ReportIsNotOlder
<1> QED BY <1>1, ReadInvariance, PTL

(* If neither a tree nor the ledger changed while it was made, a report is *)
(* exactly what the ledger and the trees say.                              *)
THEOREM UndisturbedReportsAreExact == ReadSpec => []UndisturbedReportIsExact
<1>1. ASSUME IInv, RInv, Given, ~touched
      PROVE  /\ view.pc = "unmanaged" <=> Successes = {}
             /\ view.pc = "healthy" <=>
                   \E i \in Successes :
                      /\ \A k \in Successes : k <= i
                      /\ \A s \in Sides : trees[s] = Content(ledger[i].plan)
  <2>1. /\ LastSuccess(view.entry) /\ (view.entry = 0 <=> view.pc = "unmanaged")
        /\ Successes \in SUBSET (1..Len(ledger)) /\ Len(ledger) \in Nat
    BY <1>1 DEF RInv, Exact, Progress, Chosen, Given, IInv, Typed, LogTyped, Successes
  <2>2. view.pc = "unmanaged" <=> Successes = {}
    BY <2>1 DEF LastSuccess, Successes, NotFailed
  <2>3. CASE view.pc = "unmanaged"
    BY <2>2, <2>3
  <2>4. CASE view.pc \in {"healthy", "drifted"}
    <3>1. view.pc = "healthy" <=> \A s \in Sides : trees[s] = Content(ledger[view.entry].plan)
      BY <1>1, <2>4 DEF RInv, Exact, Progress, Compared
    <3>2. view.entry \in Successes /\ \A k \in Successes : k <= view.entry
      BY <2>1, <2>4 DEF LastSuccess, Successes, NotFailed
    <3>3. ASSUME NEW i \in Successes, \A k \in Successes : k <= i PROVE i = view.entry
      <4>1. i \in Nat /\ view.entry \in Nat
        BY <3>2 DEF Successes
      <4>2. i <= view.entry /\ view.entry <= i
        BY <3>2, <3>3
      <4> QED BY <4>1, <4>2
    <3> QED BY <2>2, <2>4, <3>1, <3>2, <3>3
  <2> QED BY <1>1, <2>3, <2>4 DEF Given, Answers
<1>2. IInv /\ RInv => UndisturbedReportIsExact
  BY <1>1 DEF UndisturbedReportIsExact
<1> QED BY <1>2, ReadInvariance, PTL

----------------------------------------------------------------------------
(* What a report of drift means                                            *)

\* When nothing is under way neither the trees nor the ledger move.
LEMMA QuietMoves ==
    ASSUME IInv, [Next]_vars, AtRest PROVE UNCHANGED <<trees, ledger, torn>>
<1>1. stragglers = {} /\ \A r \in Runs : ~At(r, "sync") /\ ~At(r, "record")
  BY AtRestIsQuiet DEF AtRest, Late, At
<1>2. \A s \in Sides : trees'[s] = trees[s]
  BY <1>1, TreesMove
<1>3. trees \in [Sides -> Contents] /\ trees' \in [Sides -> Contents]
  BY NextIInv DEF IInv, Typed, TreesTyped
<1>4. UNCHANGED <<ledger, torn>>
  BY <1>1, LogMoves
<1> QED BY <1>2, <1>3, <1>4

\* Deployments leave the trees to nobody else, and while none is under way
\* nothing moves.
UInv ==
    /\ busy \in BOOLEAN /\ meddled \in BOOLEAN
    /\ ~meddled => SInv
    /\ ~busy => AtRest
    /\ ~busy /\ ~meddled => ~touched

LEMMA InitUInv == ASSUME ReadInit PROVE UInv
<1>1. AtRest
  BY DEF ReadInit, Init, Idle, AtRest
<1> QED BY <1>1, InitSInv DEF ReadInit, UInv

LEMMA ReadNextUInv == ASSUME IInv, UInv, [ReadNext]_all PROVE UInv'
<1>1. CASE BeginReport
  <2>1. UNCHANGED <<vars, meddled>> /\ busy' = ~AtRest /\ touched' = FALSE
    BY <1>1 DEF BeginReport
  <2>2. (SInv => SInv') /\ (AtRest <=> AtRest')
    BY <2>1, NextSInv DEF AtRest, vars
  <2>3. busy' \in BOOLEAN
    BY <2>1 DEF AtRest
  <2> QED BY <2>1, <2>2, <2>3 DEF UInv
<1>2. CASE UNCHANGED <<vars, meddled, busy, touched>>
  <2>1. (SInv => SInv') /\ (AtRest <=> AtRest')
    BY <1>2, NextSInv DEF AtRest, vars
  <2> QED BY <1>2, <2>1 DEF UInv
<1>3. CASE Command
  <2>1. /\ Next /\ UNCHANGED meddled
        /\ busy' = (busy \/ ~AtRest') /\ touched' = (touched \/ trees' # trees \/ log' # log)
    BY <1>3 DEF Command
  <2>2. SInv => SInv'
    BY <2>1, NextSInv
  <2>3. busy' \in BOOLEAN /\ (~busy' => ~busy /\ AtRest')
    BY <2>1 DEF UInv, AtRest
  <2>4. AtRest => trees' = trees /\ log' = log
    BY <2>1, QuietMoves DEF log
  <2>5. ~busy' /\ ~meddled' => ~touched'
    BY <2>1, <2>3, <2>4 DEF UInv
  <2> QED BY <2>1, <2>2, <2>3, <2>5 DEF UInv
<1>4. ASSUME NEW s \in Sides, Meddle(s) PROVE UInv'
  <2>1. meddled' = TRUE /\ UNCHANGED <<busy, job, stragglers>>
    BY <1>4 DEF Meddle
  <2>2. AtRest <=> AtRest'
    BY <2>1 DEF AtRest
  <2> QED BY <2>1, <2>2 DEF UInv
<1>5. CASE UNCHANGED all
  BY <1>2, <1>5 DEF all, reader
<1> QED
  BY <1>1, <1>2, <1>3, <1>4, <1>5
  DEF ReadNext, ReadLedger, FindProjection, DiffSide, Report, ReportFails

(* A target whose trees only skillctl writes is called drifted for a       *)
(* reason: a deployment under way since the report began, a later one that *)
(* failed, deployments that overlapped, or a lost outcome.                 *)
THEOREM DriftsHaveACause == ReadSpec => []DriftHasACause
<1>1. ReadSpec => []UInv
  <2>1. ReadInit => IInv /\ UInv
    BY InitIInv, InitUInv DEF ReadInit
  <2>2. IInv /\ UInv /\ [ReadNext]_all => (IInv /\ UInv)'
    BY ReadNextIInv, ReadNextUInv
  <2> QED BY <2>1, <2>2, PTL DEF ReadSpec
<1>2. ASSUME IInv, RInv, UInv, view.pc = "drifted", ~meddled, ~busy, overlapped = {},
             unrecorded = {}
      PROVE  \E k \in (view.entry + 1)..Len(ledger) : ledger[k].result = "failed"
  <2>1. SInv /\ AtRest /\ ~touched
    BY <1>2 DEF UInv
  <2>2. LastExplains
    BY <1>2, <2>1, AtRestIsQuiet DEF SInv, TInv, Explained
  <2>3. LastSuccess(view.entry) /\ view.entry # 0 /\ view.entry \in 0..Len(ledger)
    BY <1>2, <2>1 DEF RInv, ViewTyped, Progress, Exact, Chosen, Answers
  <2>4. \E s \in Sides : trees[s] # Content(ledger[view.entry].plan)
    BY <1>2, <2>1 DEF RInv, Progress, Exact, Compared
  <2>5. ledger \in Seq(Entries)
    BY <1>2 DEF IInv, Typed, LogTyped
  <2> QED BY <2>2, <2>3, <2>4, <2>5, SuccessExplains
<1>3. IInv /\ RInv /\ UInv => DriftHasACause
  BY <1>2 DEF DriftHasACause
<1> QED BY <1>1, <1>3, ReadInvariance, PTL

=============================================================================
