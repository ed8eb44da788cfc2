------------------------- MODULE Deployment_proofs -------------------------
(***************************************************************************)
(* Proofs about Deployment, for any number of runs, plans, registry        *)
(* versions, deployments, edits and kills.  From one inductive invariant:  *)
(* type correctness and AuthorisedMutation.  From invariants that rest on  *)
(* it: a deployment id belongs to one run, nothing is deployed without a   *)
(* timely snapshot (CapturedInTime), every rollback in the ledger has a    *)
(* proper parent (RollbackLineage), and a plan's projection is of the      *)
(* registry version it was made from (ProjectionMatchesPlan).              *)
(***************************************************************************)
EXTENDS Deployment, TLAPS

----------------------------------------------------------------------------
(* The invariant, in parts                                                 *)

Planning(j) == j.pc \in {"build", "publish"}

\* A run that was allocated a deployment id has passed every check.
Engaged(j) == j.pc \in {"scan", "capture", "recheck", "sync", "verify", "record"}

Bound(j) == j.pc = "authorise" \/ Engaged(j)

\* A plan that can be carried out stays as it is, and so does its projection.
Settled(p) == plans[p] # None /\ projections[p] # None

\* What apply and rollback have checked before they allocate a deployment id.
Permitted(p, cmd, version) ==
    /\ plans[p] # None /\ approvals[p] # None
    /\ approvals[p].decision = "approved" /\ approvals[p].plan = plans[p]
    /\ plans[p].op = cmd
    /\ cmd = "deploy" => plans[p].desired = version

JobOK(j) ==
    /\ Planning(j) => j.plan \in PlanIds /\ j.version \in Versions /\ plans[j.plan] = None
    /\ Bound(j) => /\ j.plan \in PlanIds /\ plans[j.plan] # None
                   /\ j.cmd \in {"deploy", "rollback"} /\ j.version \in Versions
    /\ Engaged(j) => /\ j.dep \in Deps
                     /\ Settled(j.plan) /\ Permitted(j.plan, j.cmd, j.version)
    /\ j.pc = "capture" => j.seen \in Contents
    /\ j.pc = "record" => j.result \in EntryResults

\* The run that makes a plan is alone in using its id.
PlannersApart ==
    \A r, q \in Runs : Planning(job[r]) /\ job[q].plan = job[r].plan => q = r

JobsOK ==
    /\ job \in [Runs -> Jobs]
    /\ \A r \in Runs : JobOK(job[r])
    /\ PlannersApart

WorldTyped ==
    /\ registry \in Versions /\ authority \in Contents /\ now \in 0..MaxTime
    /\ nextDep \in 1..(MaxDeps + 1) /\ edits \in 0..MaxEdits /\ kills \in 0..MaxKills

DiskTyped ==
    /\ plans \in [PlanIds -> Plans \cup {None}]
    /\ approvals \in [PlanIds -> Approvals \cup {None}]
    /\ projections \in [PlanIds -> Projections \cup {None}]
    /\ snapshots \in [Deps -> Snapshots \cup {None}]

TreesTyped ==
    /\ trees \in [Sides -> Contents]
    /\ writer \in [Sides -> 0..MaxDeps]

LogTyped ==
    /\ ledger \in Seq(Entries) /\ torn \in BOOLEAN
    /\ unrecorded \in SUBSET Deps /\ overlapped \in SUBSET Deps

BegunTyped == begun \in [Deps -> Begun \cup {None}]

\* Deployments are to registry versions, rollbacks to snapshots.
PlansOK ==
    \A p \in PlanIds : plans[p] # None =>
        IF plans[p].op = "deploy" THEN plans[p].desired \in Versions
                                  ELSE plans[p].desired \in Contents

EntriesOK == \A i \in 1..Len(ledger) : Settled(ledger[i].plan)

StragglersOK ==
    /\ stragglers \in SUBSET Stragglers
    /\ \A x \in stragglers : Settled(x.plan)

Typed == WorldTyped /\ DiskTyped /\ TreesTyped /\ LogTyped /\ BegunTyped

IInv == Typed /\ JobsOK /\ PlansOK /\ EntriesOK /\ StragglersOK /\ AuthorisedMutation

----------------------------------------------------------------------------
LEMMA NoneIsNoPlan == None \notin PlanIds
BY ValuesAssumption

(* What every step keeps: a plan, an approval, the projection of a plan    *)

Grows ==
    \A p \in PlanIds :
        /\ plans[p] # None => plans'[p] = plans[p]
        /\ approvals[p] # None => approvals'[p] = approvals[p]
        /\ Settled(p) => projections'[p] = projections[p]

LEMMA SettledStays == ASSUME Grows, NEW p \in PlanIds, Settled(p) PROVE Settled(p)'
BY DEF Grows, Settled

LEMMA PermittedStays ==
    ASSUME Grows, NEW p \in PlanIds, NEW cmd, NEW version, Permitted(p, cmd, version)
    PROVE  Permitted(p, cmd, version)'
BY DEF Grows, Permitted

LEMMA JobStays ==
    ASSUME Grows, NEW j, JobOK(j), Planning(j) => plans'[j.plan] = None
    PROVE  JobOK(j)'
<1>1. Bound(j) => plans'[j.plan] # None
  BY DEF JobOK, Grows
<1>2. Engaged(j) => Settled(j.plan)' /\ Permitted(j.plan, j.cmd, j.version)'
  BY SettledStays, PermittedStays DEF JobOK, Bound
<1> QED BY <1>1, <1>2 DEF JobOK, Planning, Bound, Engaged

\* A step that changes one job.
LEMMA JobStep ==
    ASSUME IInv, Grows, NEW r \in Runs, NEW j \in Jobs, Become(r, j), JobOK(j)',
           \A q \in Runs \ {r} : Planning(job[q]) => plans'[job[q].plan] = None,
           \A q \in Runs \ {r} : Planning(job[q]) \/ Planning(j) => job[q].plan # j.plan
    PROVE  JobsOK'
<1>1. job' \in [Runs -> Jobs] /\ job'[r] = j /\ \A q \in Runs \ {r} : job'[q] = job[q]
  BY DEF IInv, JobsOK, Become
<1>2. ASSUME NEW q \in Runs PROVE JobOK(job[q])'
  <2>1. CASE q = r
    BY <1>1, <2>1 DEF JobOK, Planning, Bound, Engaged, Settled, Permitted
  <2>2. CASE q # r
    <3> PICK k : k = job[q]
      OBVIOUS
    <3>1. JobOK(k) /\ (Planning(k) => plans'[k.plan] = None)
      BY <2>2 DEF IInv, JobsOK
    <3>2. JobOK(k)'
      BY <3>1, JobStays
    <3> QED BY <1>1, <2>2, <3>2 DEF JobOK, Planning, Bound, Engaged, Settled, Permitted
  <2> QED BY <2>1, <2>2
<1>3. PlannersApart'
  BY <1>1 DEF IInv, JobsOK, PlannersApart, Planning
<1> QED BY <1>1, <1>2, <1>3 DEF JobsOK

\* A step that changes no job.
LEMMA JobsStay ==
    ASSUME IInv, Grows, UNCHANGED job,
           \A q \in Runs : Planning(job[q]) => plans'[job[q].plan] = None
    PROVE  JobsOK'
<1>1. ASSUME NEW q \in Runs PROVE JobOK(job[q])'
  <2> PICK k : k = job[q]
    OBVIOUS
  <2>1. JobOK(k)'
    BY JobStays DEF IInv, JobsOK
  <2> QED BY <2>1 DEF JobOK, Planning, Bound, Engaged, Settled, Permitted
<1> QED BY <1>1 DEF IInv, JobsOK, PlannersApart, Planning

LEMMA EntriesStay == ASSUME IInv, Grows, UNCHANGED ledger PROVE EntriesOK'
<1>1. \A i \in 1..Len(ledger) : ledger[i].plan \in PlanIds
  <2>1. \A i \in 1..Len(ledger) : ledger[i] \in Entries
    BY DEF IInv, Typed, LogTyped
  <2> QED BY <2>1 DEF Entries
<1> QED BY <1>1, SettledStays DEF IInv, EntriesOK, Settled, Grows

LEMMA StragglersStay == ASSUME IInv, Grows, UNCHANGED stragglers PROVE StragglersOK'
<1>1. \A x \in stragglers : x.plan \in PlanIds
  BY DEF IInv, StragglersOK, Stragglers
<1> QED BY <1>1 DEF IInv, StragglersOK, Settled, Grows

LEMMA BegunStays ==
    ASSUME IInv, Grows, UNCHANGED begun
    PROVE  BegunTyped' /\ AuthorisedMutation'
<1>1. \A d \in Deps : Begins(d) => begun[d].plan \in PlanIds
  BY DEF IInv, Typed, BegunTyped, Begun, Begins
<1> QED BY <1>1 DEF IInv, Typed, BegunTyped, AuthorisedMutation, Begins, Grows

LEMMA NoGrowth == UNCHANGED <<plans, approvals, projections>> => Grows
BY DEF Grows

\* A run that goes on with what it has, or with a plan that is there, past
\* checks it has passed.
LEMMA JobGoesOn ==
    ASSUME IInv, NEW r \in Runs, NEW j \in Jobs, Become(r, j), JobOK(j),
           UNCHANGED <<plans, approvals, projections>>,
           \/ j = Idle
           \/ j.plan = job[r].plan /\ (Planning(j) => Planning(job[r]))
           \/ plans[j.plan] # None /\ ~Planning(j)
    PROVE  JobsOK'
<1>1. Grows
  BY NoGrowth
<1>2. \A q \in Runs \ {r} : Planning(job[q]) => plans'[job[q].plan] = None
  BY DEF IInv, JobsOK, JobOK
<1>3. \A q \in Runs \ {r} : Planning(job[q]) \/ Planning(j) => job[q].plan # j.plan
  BY NoneIsNoPlan DEF IInv, JobsOK, JobOK, PlannersApart, Idle, Planning
<1>4. JobOK(j)'
  BY DEF JobOK, Settled, Permitted
<1> QED BY <1>1, <1>2, <1>3, <1>4, JobStep

\* A run that ends: returns, fails or is killed.
LEMMA IdleOK == Idle \in Jobs /\ JobOK(Idle)
<1>1. NoDep \in 0..MaxDeps
  BY BoundsAssumption DEF NoDep
<1> QED BY <1>1 DEF Idle, Jobs, Pcs, JobOK, Planning, Bound, Engaged

LEMMA JobEnds ==
    ASSUME IInv, NEW r \in Runs, Return(r), UNCHANGED <<plans, approvals, projections>>
    PROVE  JobsOK'
BY IdleOK, JobGoesOn DEF Return

\* What follows when nothing on disk, no entry and no straggler changes.
LEMMA Quiet ==
    ASSUME IInv, JobsOK', UNCHANGED <<plans, approvals, projections, ledger, stragglers, begun>>
    PROVE  BegunTyped' /\ PlansOK' /\ EntriesOK' /\ StragglersOK' /\ AuthorisedMutation'
<1>1. Grows
  BY NoGrowth
<1> QED BY <1>1, EntriesStay, StragglersStay, BegunStays DEF IInv, PlansOK

----------------------------------------------------------------------------
(* The steps of a run, one by one                                          *)

LEMMA ScanKeeps == ASSUME IInv, NEW r \in Runs, Scan(r) PROVE IInv'
<1> PICK j : j = [job[r] EXCEPT !.pc = "capture", !.seen = trees["a"]]
  OBVIOUS
<1>1. Become(r, j) /\ UNCHANGED <<plans, approvals, projections, ledger, stragglers, begun>>
  BY DEF Scan, disk, log, history
<1>2. job[r] \in Jobs /\ JobOK(job[r])
  BY DEF IInv, JobsOK
<1>3. j \in Jobs
  BY <1>2 DEF Scan, Jobs, Pcs, IInv, Typed, TreesTyped, Sides
<1>4. JobOK(j) /\ j.plan = job[r].plan /\ ~Planning(j)
  BY <1>2, <1>3 DEF Scan, At, Jobs, JobOK, Planning, Bound, Engaged, IInv, Typed, TreesTyped, Sides
<1>5. JobsOK'
  BY <1>1, <1>3, <1>4, JobGoesOn
<1>6. Typed'
  BY <1>1, <1>5, Quiet DEF Scan, IInv, Typed, WorldTyped, DiskTyped, TreesTyped, LogTyped, world, disk, log, bounds, history
<1> QED BY <1>1, <1>5, <1>6, Quiet DEF IInv

LEMMA SyncDoneKeeps == ASSUME IInv, NEW r \in Runs, SyncDone(r) PROVE IInv'
<1> PICK j : j = [job[r] EXCEPT !.pc = "verify", !.todo = Sides]
  OBVIOUS
<1>1. Become(r, j) /\ UNCHANGED <<plans, approvals, projections, ledger, stragglers, begun>>
  BY DEF SyncDone, disk, log, history
<1>2. job[r] \in Jobs /\ JobOK(job[r])
  BY DEF IInv, JobsOK
<1>3. j \in Jobs
  BY <1>2 DEF SyncDone, Jobs, Pcs
<1>4. JobOK(j) /\ j.plan = job[r].plan /\ ~Planning(j)
  BY <1>2, <1>3 DEF SyncDone, At, Jobs, JobOK, Planning, Bound, Engaged
<1>5. JobsOK'
  BY <1>1, <1>3, <1>4, JobGoesOn
<1>6. Typed'
  BY <1>1, <1>5, Quiet DEF SyncDone, IInv, Typed, WorldTyped, DiskTyped, TreesTyped, LogTyped, world, disk, log, bounds, history
<1> QED BY <1>1, <1>5, <1>6, Quiet DEF IInv

LEMMA VerifySideKeeps == ASSUME IInv, NEW r \in Runs, NEW s \in Sides, VerifySide(r, s) PROVE IInv'
<1> PICK j : j = [job[r] EXCEPT !.todo = @ \ {s}]
  OBVIOUS
<1>1. Become(r, j) /\ UNCHANGED <<plans, approvals, projections, ledger, stragglers, begun>>
  BY DEF VerifySide, disk, log, history
<1>2. job[r] \in Jobs /\ JobOK(job[r])
  BY DEF IInv, JobsOK
<1>3. j \in Jobs
  BY <1>2 DEF VerifySide, Jobs, Pcs
<1>4. JobOK(j) /\ j.plan = job[r].plan /\ ~Planning(j)
  BY <1>2, <1>3 DEF VerifySide, At, Jobs, JobOK, Planning, Bound, Engaged
<1>5. JobsOK'
  BY <1>1, <1>3, <1>4, JobGoesOn
<1>6. Typed'
  BY <1>1, <1>5, Quiet DEF VerifySide, IInv, Typed, WorldTyped, DiskTyped, TreesTyped, LogTyped, world, disk, log, bounds, history
<1> QED BY <1>1, <1>5, <1>6, Quiet DEF IInv

LEMMA VerifyDoneKeeps == ASSUME IInv, NEW r \in Runs, VerifyDone(r) PROVE IInv'
<1> PICK j : j = [job[r] EXCEPT !.pc = "record",
                  !.result = IF job[r].cmd = "deploy" THEN "succeeded" ELSE "rolled_back"]
  OBVIOUS
<1>1. Become(r, j) /\ UNCHANGED <<plans, approvals, projections, ledger, stragglers, begun>>
  BY DEF VerifyDone, disk, log, history
<1>2. job[r] \in Jobs /\ JobOK(job[r])
  BY DEF IInv, JobsOK
<1>3. j \in Jobs
  <2>1. "record" \in Pcs /\ {"succeeded", "rolled_back"} \subseteq EntryResults
    BY DEF Pcs, EntryResults
  <2> QED BY <1>2, <2>1 DEF Jobs
<1>4. JobOK(j) /\ j.plan = job[r].plan /\ ~Planning(j)
  BY <1>2, <1>3 DEF VerifyDone, At, Jobs, JobOK, Planning, Bound, Engaged, EntryResults
<1>5. JobsOK'
  BY <1>1, <1>3, <1>4, JobGoesOn
<1>6. Typed'
  BY <1>1, <1>5, Quiet DEF VerifyDone, IInv, Typed, WorldTyped, DiskTyped, TreesTyped, LogTyped, world, disk, log, bounds, history
<1> QED BY <1>1, <1>5, <1>6, Quiet DEF IInv

LEMMA VerifyFailsKeeps == ASSUME IInv, NEW r \in Runs, VerifyFails(r) PROVE IInv'
<1> PICK j : j = [job[r] EXCEPT !.pc = "record", !.todo = {}, !.result = "failed"]
  OBVIOUS
<1>1. Become(r, j) /\ UNCHANGED <<plans, approvals, projections, ledger, stragglers, begun>>
  BY DEF VerifyFails, Failed, disk, log, history
<1>2. job[r] \in Jobs /\ JobOK(job[r])
  BY DEF IInv, JobsOK
<1>3. j \in Jobs
  BY <1>2 DEF VerifyFails, Failed, Jobs, Pcs, EntryResults
<1>4. JobOK(j) /\ j.plan = job[r].plan /\ ~Planning(j)
  BY <1>2, <1>3 DEF VerifyFails, Failed, At, Jobs, JobOK, Planning, Bound, Engaged, EntryResults
<1>5. JobsOK'
  BY <1>1, <1>3, <1>4, JobGoesOn
<1>6. Typed'
  BY <1>1, <1>5, Quiet DEF VerifyFails, Failed, IInv, Typed, WorldTyped, DiskTyped, TreesTyped, LogTyped, world, disk, log, bounds, history
<1> QED BY <1>1, <1>5, <1>6, Quiet DEF IInv

LEMMA SyncSideKeeps == ASSUME IInv, NEW r \in Runs, NEW s \in Sides, SyncSide(r, s) PROVE IInv'
<1> PICK j : j = [job[r] EXCEPT !.todo = @ \ {s}]
  OBVIOUS
<1>1. Become(r, j) /\ UNCHANGED <<plans, approvals, projections, ledger, stragglers, begun>>
  BY DEF SyncSide, disk, log, history
<1>2. job[r] \in Jobs /\ JobOK(job[r])
  BY DEF IInv, JobsOK
<1>3. j \in Jobs
  BY <1>2 DEF SyncSide, Jobs, Pcs
<1>4. JobOK(j) /\ j.plan = job[r].plan /\ ~Planning(j)
  BY <1>2, <1>3 DEF SyncSide, At, Jobs, JobOK, Planning, Bound, Engaged
<1>5. JobsOK'
  BY <1>1, <1>3, <1>4, JobGoesOn
<1>6. Typed'
  <2>0. job[r].plan \in PlanIds /\ projections[job[r].plan] # None
    BY <1>2 DEF SyncSide, At, JobOK, Bound, Engaged, Settled
  <2>1. projections[job[r].plan] \in Projections
    BY <2>0 DEF IInv, Typed, DiskTyped
  <2>2. Content(job[r].plan) \in Contents /\ job[r].dep \in 0..MaxDeps /\ Mixed \in Contents
    BY <1>2, <2>1, ValuesAssumption DEF Content, Projections, Jobs
  <2>3. TreesTyped'
    BY <2>2 DEF SyncSide, Write, IInv, Typed, TreesTyped
  <2> QED BY <1>1, <1>5, <2>3, Quiet
          DEF SyncSide, IInv, Typed, WorldTyped, DiskTyped, TreesTyped, LogTyped, world, disk, log, bounds, history
<1> QED BY <1>1, <1>5, <1>6, Quiet DEF IInv

LEMMA SyncFailsKeeps == ASSUME IInv, NEW r \in Runs, SyncFails(r) PROVE IInv'
<1> PICK j : j = [job[r] EXCEPT !.pc = "record", !.todo = {}, !.result = "failed"]
  OBVIOUS
<1>1. Become(r, j) /\ UNCHANGED <<plans, approvals, projections, ledger, stragglers, begun>>
  BY DEF SyncFails, Failed, disk, log, history
<1>2. job[r] \in Jobs /\ JobOK(job[r])
  BY DEF IInv, JobsOK
<1>3. j \in Jobs
  BY <1>2 DEF SyncFails, Failed, Jobs, Pcs, EntryResults
<1>4. JobOK(j) /\ j.plan = job[r].plan /\ ~Planning(j)
  BY <1>2, <1>3 DEF SyncFails, Failed, At, Jobs, JobOK, Planning, Bound, Engaged, EntryResults
<1>5. JobsOK'
  BY <1>1, <1>3, <1>4, JobGoesOn
<1>6. Typed'
  <2>0. job[r].plan \in PlanIds /\ projections[job[r].plan] # None
    BY <1>2 DEF SyncFails, At, JobOK, Bound, Engaged, Settled
  <2>1. projections[job[r].plan] \in Projections
    BY <2>0 DEF IInv, Typed, DiskTyped
  <2>2. Content(job[r].plan) \in Contents /\ job[r].dep \in 0..MaxDeps /\ Mixed \in Contents
    BY <1>2, <2>1, ValuesAssumption DEF Content, Projections, Jobs
  <2>3. TreesTyped'
    BY <2>2 DEF SyncFails, Write, IInv, Typed, TreesTyped
  <2> QED BY <1>1, <1>5, <2>3, Quiet
          DEF SyncFails, Failed, IInv, Typed, WorldTyped, DiskTyped, TreesTyped, LogTyped, world, disk, log, bounds, history
<1> QED BY <1>1, <1>5, <1>6, Quiet DEF IInv

LEMMA AbortKeeps == ASSUME IInv, NEW r \in Runs, Abort(r) PROVE IInv'
<1>1. Return(r) /\ UNCHANGED <<plans, approvals, projections, ledger, stragglers, begun>>
  BY DEF Abort, disk, log, history
<1>2. JobsOK'
  BY <1>1, JobEnds
<1>3. Typed'
  BY <1>1, <1>2, Quiet
  DEF Abort, IInv, Typed, WorldTyped, DiskTyped, TreesTyped, LogTyped, world, disk, log, bounds, history
<1> QED BY <1>1, <1>2, <1>3, Quiet DEF IInv

LEMMA ApplyLoadKeeps ==
    ASSUME IInv, NEW r \in Runs, NEW p \in PlanIds, ApplyLoad(r, p)
    PROVE  IInv'
<1> PICK j : j = [Idle EXCEPT !.pc = "authorise", !.cmd = "deploy", !.plan = p,
                              !.version = registry]
  OBVIOUS
<1>1. Become(r, j) /\ UNCHANGED <<plans, approvals, projections, ledger, stragglers, begun>>
  BY DEF ApplyLoad, disk, log, history
<1>2. j \in Jobs
  BY IdleOK DEF Idle, Jobs, Pcs, IInv, Typed, WorldTyped
<1>3. JobOK(j) /\ plans[j.plan] # None /\ ~Planning(j)
  BY DEF ApplyLoad, Idle, JobOK, Planning, Bound, Engaged, IInv, Typed, WorldTyped
<1>4. JobsOK'
  BY <1>1, <1>2, <1>3, JobGoesOn
<1>5. Typed'
  BY <1>1, <1>4, Quiet
  DEF ApplyLoad, IInv, Typed, WorldTyped, DiskTyped, TreesTyped, LogTyped, world, disk, log, bounds, history
<1> QED BY <1>1, <1>4, <1>5, Quiet DEF IInv

LEMMA RollbackLoadKeeps ==
    ASSUME IInv, NEW r \in Runs, NEW d \in Deps, NEW p \in PlanIds, RollbackLoad(r, d, p)
    PROVE  IInv'
<1> PICK j : j = [Idle EXCEPT !.pc = "authorise", !.cmd = "rollback", !.plan = p,
                              !.parent = d, !.version = registry]
  OBVIOUS
<1>1. Become(r, j) /\ UNCHANGED <<plans, approvals, projections, ledger, stragglers, begun>>
  BY DEF RollbackLoad, disk, log, history
<1>2. j \in Jobs
  <2>1. d \in 0..MaxDeps
    BY BoundsAssumption DEF Deps
  <2> QED BY <2>1, IdleOK DEF Idle, Jobs, Pcs, IInv, Typed, WorldTyped
<1>3. JobOK(j) /\ plans[j.plan] # None /\ ~Planning(j)
  BY DEF RollbackLoad, Idle, JobOK, Planning, Bound, Engaged, IInv, Typed, WorldTyped
<1>4. JobsOK'
  BY <1>1, <1>2, <1>3, JobGoesOn
<1>5. Typed'
  BY <1>1, <1>4, Quiet
  DEF RollbackLoad, IInv, Typed, WorldTyped, DiskTyped, TreesTyped, LogTyped, world, disk, log, bounds, history
<1> QED BY <1>1, <1>4, <1>5, Quiet DEF IInv

\* The id that a run is allocated, and the runs that are then under way.
LEMMA AllocateTyped ==
    ASSUME IInv, NEW r \in Runs, NEW pc, Allocate(r, pc)
    PROVE  nextDep' \in 1..(MaxDeps + 1) /\ overlapped' \in SUBSET Deps
<1>1. nextDep' \in 1..(MaxDeps + 1) /\ nextDep \in Deps
  BY BoundsAssumption DEF Allocate, Deps
<1>2. \A q \in Runs : job[q].dep \in 0..MaxDeps
  BY DEF IInv, JobsOK, Jobs
<1>3. \A x \in stragglers : x.dep \in Deps
  BY DEF IInv, StragglersOK, Stragglers
<1>4. UnderWay \ {NoDep} \subseteq Deps
  BY <1>2, <1>3, BoundsAssumption DEF UnderWay, NoDep, Deps
<1> QED BY <1>1, <1>4 DEF Allocate, IInv, Typed, LogTyped

LEMMA AuthoriseKeeps == ASSUME IInv, NEW r \in Runs, Authorise(r) PROVE IInv'
<1> PICK j : j = [job[r] EXCEPT !.pc = "scan", !.dep = nextDep]
  OBVIOUS
<1>1. Become(r, j) /\ UNCHANGED <<plans, approvals, projections, ledger, stragglers, begun>>
  BY DEF Authorise, Allocate, disk, log
<1>2. /\ job[r] \in Jobs /\ job[r].plan \in PlanIds /\ plans[job[r].plan] # None
      /\ job[r].version \in Versions /\ nextDep \in Deps
  BY DEF IInv, JobsOK, JobOK, Authorise, Allocate, At, Bound
<1>3. j \in Jobs
  <2>1. nextDep \in 0..MaxDeps
    BY <1>2, BoundsAssumption DEF Deps
  <2> QED BY <1>2, <2>1 DEF Jobs, Pcs
<1>4. Settled(j.plan) /\ Permitted(j.plan, j.cmd, j.version)
  <2>1. j.plan = job[r].plan /\ j.cmd = job[r].cmd /\ j.version = job[r].version
    BY <1>2 DEF Jobs
  <2>2. plans[j.plan] \in Plans
    BY <1>2, <2>1 DEF IInv, Typed, DiskTyped
  <2>3. plans[j.plan].op = j.cmd
    BY <1>2, <2>1, <2>2, ValuesAssumption DEF Authorise, FreshState, IInv, PlansOK, Plans
  <2> QED BY <1>2, <2>1, <2>3 DEF Authorise, Approved, Settled, Permitted, FreshState
<1>5. JobOK(j) /\ j.plan = job[r].plan /\ ~Planning(j)
  BY <1>2, <1>3, <1>4 DEF Authorise, At, Jobs, JobOK, Planning, Bound, Engaged
<1>6. JobsOK'
  BY <1>1, <1>3, <1>5, JobGoesOn
<1>7. nextDep' \in 1..(MaxDeps + 1) /\ overlapped' \in SUBSET Deps
  BY AllocateTyped DEF Authorise
<1>8. Typed'
  BY <1>1, <1>6, <1>7, Quiet
  DEF Authorise, IInv, Typed, WorldTyped, DiskTyped, TreesTyped, LogTyped, world, disk, log, bounds, history
<1> QED BY <1>1, <1>6, <1>8, Quiet DEF IInv

LEMMA AuthoriseRollbackKeeps == ASSUME IInv, NEW r \in Runs, AuthoriseRollback(r) PROVE IInv'
<1> PICK j : j = [job[r] EXCEPT !.pc = "recheck", !.dep = nextDep]
  OBVIOUS
<1>1. Become(r, j) /\ UNCHANGED <<plans, approvals, projections, ledger, stragglers, begun>>
  BY DEF AuthoriseRollback, Allocate, disk, log
<1>2. /\ job[r] \in Jobs /\ job[r].plan \in PlanIds /\ plans[job[r].plan] # None
      /\ job[r].version \in Versions /\ nextDep \in Deps
  BY DEF IInv, JobsOK, JobOK, AuthoriseRollback, Allocate, At, Bound
<1>3. j \in Jobs
  <2>1. nextDep \in 0..MaxDeps
    BY <1>2, BoundsAssumption DEF Deps
  <2> QED BY <1>2, <2>1 DEF Jobs, Pcs
<1>4. Settled(j.plan) /\ Permitted(j.plan, j.cmd, j.version)
  <2>1. j.plan = job[r].plan /\ j.cmd = job[r].cmd /\ j.version = job[r].version
    BY <1>2 DEF Jobs
  <2>2. plans[j.plan] \in Plans
    BY <1>2, <2>1 DEF IInv, Typed, DiskTyped
  <2>3. plans[j.plan].op = j.cmd
    BY <2>1 DEF AuthoriseRollback, RollbackOf
  <2> QED BY <1>2, <2>1, <2>3 DEF AuthoriseRollback, Approved, Settled, Permitted, FreshState
<1>5. JobOK(j) /\ j.plan = job[r].plan /\ ~Planning(j)
  BY <1>2, <1>3, <1>4 DEF AuthoriseRollback, At, Jobs, JobOK, Planning, Bound, Engaged
<1>6. JobsOK'
  BY <1>1, <1>3, <1>5, JobGoesOn
<1>7. nextDep' \in 1..(MaxDeps + 1) /\ overlapped' \in SUBSET Deps
  BY AllocateTyped DEF AuthoriseRollback
<1>8. Typed'
  BY <1>1, <1>6, <1>7, Quiet
  DEF AuthoriseRollback, IInv, Typed, WorldTyped, DiskTyped, TreesTyped, LogTyped, world, disk, log, bounds, history
<1> QED BY <1>1, <1>6, <1>8, Quiet DEF IInv

LEMMA CaptureKeeps == ASSUME IInv, NEW r \in Runs, Capture(r) PROVE IInv'
<1> PICK j : j = [job[r] EXCEPT !.pc = "recheck"]
  OBVIOUS
<1>1. /\ Become(r, j) \/ Return(r)
      /\ UNCHANGED <<plans, approvals, projections, ledger, stragglers, begun>>
  BY DEF Capture, Goto, log, history
<1>2. job[r] \in Jobs /\ JobOK(job[r]) /\ job[r].seen \in Contents /\ job[r].dep \in Deps
  BY DEF IInv, JobsOK, JobOK, Capture, At, Engaged
<1>3. j \in Jobs
  BY <1>2 DEF Jobs, Pcs
<1>4. JobOK(j) /\ j.plan = job[r].plan /\ ~Planning(j)
  BY <1>2, <1>3 DEF Capture, At, Jobs, JobOK, Planning, Bound, Engaged
<1>5. JobsOK'
  BY <1>1, <1>3, <1>4, JobGoesOn, JobEnds
<1>6. snapshots' \in [Deps -> Snapshots \cup {None}]
  <2>1. now \in Nat
    BY BoundsAssumption DEF IInv, Typed, WorldTyped
  <2>2. [content |-> job[r].seen, at |-> now] \in Snapshots
    BY <1>2, <2>1 DEF Snapshots
  <2> QED BY <1>2, <2>2 DEF Capture, IInv, Typed, DiskTyped
<1>7. Typed'
  BY <1>1, <1>5, <1>6, Quiet
  DEF Capture, IInv, Typed, WorldTyped, DiskTyped, TreesTyped, LogTyped, world, disk, log, bounds, history
<1> QED BY <1>1, <1>5, <1>7, Quiet DEF IInv

LEMMA RecheckKeeps == ASSUME IInv, NEW r \in Runs, Recheck(r) PROVE IInv'
<1> PICK j : j = [job[r] EXCEPT !.pc = "sync", !.todo = Sides]
  OBVIOUS
<1> PICK b : b = [plan |-> job[r].plan, cmd |-> job[r].cmd, pre |-> trees, checked |-> now,
                  version |-> job[r].version]
  OBVIOUS
<1>1. /\ Become(r, j)
      /\ UNCHANGED <<plans, approvals, projections, ledger, stragglers>>
      /\ begun' = [begun EXCEPT ![job[r].dep] = b]
      /\ now < plans[job[r].plan].expires
  BY DEF Recheck, Unexpired, disk, log
<1>2. /\ job[r] \in Jobs /\ JobOK(job[r])
      /\ job[r].dep \in Deps /\ job[r].plan \in PlanIds /\ job[r].version \in Versions
      /\ job[r].cmd \in {"deploy", "rollback"}
      /\ Permitted(job[r].plan, job[r].cmd, job[r].version)
  BY DEF IInv, JobsOK, JobOK, Recheck, At, Bound, Engaged
<1>3. j \in Jobs
  BY <1>2 DEF Jobs, Pcs
<1>4. JobOK(j) /\ j.plan = job[r].plan /\ ~Planning(j)
  BY <1>2, <1>3 DEF Recheck, At, Jobs, JobOK, Planning, Bound, Engaged
<1>5. JobsOK'
  BY <1>1, <1>3, <1>4, JobGoesOn
<1>6. b \in Begun
  <2>1. now \in Nat
    BY BoundsAssumption DEF IInv, Typed, WorldTyped
  <2> QED BY <1>2, <2>1 DEF Begun, IInv, Typed, TreesTyped
<1>7. BegunTyped'
  BY <1>1, <1>2, <1>6 DEF BegunTyped, IInv, Typed
<1>8. AuthorisedMutation'
  <2> SUFFICES ASSUME NEW d \in Deps, begun'[d] # None
               PROVE  LET p == begun'[d].plan IN
                      /\ plans[p] # None /\ approvals[p] # None
                      /\ approvals[p].decision = "approved" /\ approvals[p].plan = plans[p]
                      /\ begun'[d].checked < plans[p].expires
                      /\ plans[p].op = begun'[d].cmd
                      /\ begun'[d].cmd = "deploy" => plans[p].desired = begun'[d].version
    BY <1>1 DEF AuthorisedMutation, Begins
  <2>1. CASE d = job[r].dep
    <3>1. begun'[d] = b
      BY <1>1, <2>1 DEF IInv, Typed, BegunTyped
    <3> QED BY <1>1, <1>2, <3>1 DEF Permitted
  <2>2. CASE d # job[r].dep
    <3>1. begun'[d] = begun[d]
      BY <1>1, <2>2 DEF IInv, Typed, BegunTyped
    <3> QED BY <3>1 DEF IInv, AuthorisedMutation, Begins
  <2> QED BY <2>1, <2>2
<1>9. Grows
  BY <1>1, NoGrowth
<1>10. PlansOK' /\ EntriesOK' /\ StragglersOK'
  BY <1>1, <1>9, EntriesStay, StragglersStay DEF IInv, PlansOK
<1>11. Typed'
  BY <1>1, <1>7
  DEF Recheck, IInv, Typed, WorldTyped, DiskTyped, TreesTyped, LogTyped, world, disk, log, bounds, history
<1> QED BY <1>5, <1>8, <1>10, <1>11 DEF IInv

\* A run whose entry is stored, or is not: Record and Kill.
LEMMA StoredKeeps ==
    ASSUME IInv, NEW r \in Runs, At(r, "record"), ledger' = Append(ledger, NewEntry(r)), Grows
    PROVE  ledger' \in Seq(Entries) /\ EntriesOK'
<1> PICK e : e = NewEntry(r)
  OBVIOUS
<1>1. /\ job[r] \in Jobs /\ job[r].plan \in PlanIds /\ job[r].dep \in Deps
      /\ job[r].result \in EntryResults /\ Settled(job[r].plan)
  BY DEF IInv, JobsOK, JobOK, At, Bound, Engaged
<1>2. plans[job[r].plan] \in Plans
  BY <1>1 DEF Settled, IInv, Typed, DiskTyped
<1>3. e \in Entries /\ e.plan = job[r].plan
  BY <1>1, <1>2 DEF NewEntry, Entries, Plans
<1>4. ledger \in Seq(Entries)
  BY DEF IInv, Typed, LogTyped
<1>5. ledger' = Append(ledger, e) /\ ledger' \in Seq(Entries)
  BY <1>3, <1>4
<1>6. ASSUME NEW i \in 1..Len(ledger') PROVE ledger'[i].plan \in PlanIds /\ Settled(ledger'[i].plan)
  <2>1. CASE i = Len(ledger) + 1
    BY <1>1, <1>3, <1>4, <1>5, <2>1
  <2>2. CASE i # Len(ledger) + 1
    <3>1. i \in 1..Len(ledger) /\ ledger'[i] = ledger[i]
      BY <1>3, <1>4, <1>5, <2>2
    <3>2. ledger[i] \in Entries
      BY <1>4, <3>1
    <3> QED BY <3>1, <3>2 DEF IInv, EntriesOK, Entries
  <2> QED BY <2>1, <2>2
<1> QED BY <1>5, <1>6 DEF EntriesOK, Settled, Grows

LEMMA RecordKeeps == ASSUME IInv, NEW r \in Runs, Record(r) PROVE IInv'
<1>1. Return(r) /\ UNCHANGED <<plans, approvals, projections, stragglers, begun>> /\ Grows
  BY NoGrowth DEF Record, disk
<1>2. JobsOK'
  BY <1>1, JobEnds
<1>3. ledger' \in Seq(Entries) /\ EntriesOK'
  <2>1. CASE ledger' = Append(ledger, NewEntry(r))
    BY <1>1, <2>1, StoredKeeps DEF Record
  <2>2. CASE UNCHANGED ledger
    BY <1>1, <2>2, EntriesStay DEF IInv, Typed, LogTyped
  <2> QED BY <2>1, <2>2 DEF Record
<1>4. job[r].dep \in Deps
  BY DEF IInv, JobsOK, JobOK, Record, At, Engaged
<1>5. LogTyped'
  BY <1>3, <1>4 DEF Record, IInv, Typed, LogTyped
<1>6. PlansOK' /\ StragglersOK' /\ BegunTyped' /\ AuthorisedMutation'
  BY <1>1, StragglersStay, BegunStays DEF IInv, PlansOK
<1>7. Typed'
  BY <1>5, <1>6
  DEF Record, IInv, Typed, WorldTyped, DiskTyped, TreesTyped, world, disk, bounds
<1> QED BY <1>2, <1>3, <1>6, <1>7 DEF IInv

LEMMA KillKeeps == ASSUME IInv, NEW r \in Runs, Kill(r) PROVE IInv'
<1>1. Return(r) /\ UNCHANGED <<plans, approvals, projections, begun>> /\ Grows
  BY NoGrowth DEF Kill, disk
<1>2. JobsOK'
  BY <1>1, JobEnds
<1>3. ledger' \in Seq(Entries) /\ EntriesOK'
  <2>1. CASE At(r, "record") /\ ledger' = Append(ledger, NewEntry(r))
    BY <1>1, <2>1, StoredKeeps
  <2>2. CASE UNCHANGED ledger
    BY <1>1, <2>2, EntriesStay DEF IInv, Typed, LogTyped
  <2> QED BY <2>1, <2>2 DEF Kill
<1>4. Engaged(job[r]) => /\ job[r].dep \in Deps /\ job[r].plan \in PlanIds
                         /\ Settled(job[r].plan) /\ job[r].todo \in SUBSET Sides
  BY DEF IInv, JobsOK, JobOK, Bound, Jobs
<1>5. LogTyped'
  BY <1>3, <1>4 DEF Kill, IInv, Typed, LogTyped, Engaged
<1>6. StragglersOK'
  <2>1. CASE UNCHANGED stragglers
    BY <1>1, <2>1, StragglersStay
  <2>2. CASE /\ At(r, "sync")
             /\ stragglers' = stragglers \cup
                    {[dep |-> job[r].dep, plan |-> job[r].plan, todo |-> job[r].todo]}
    <3>1. [dep |-> job[r].dep, plan |-> job[r].plan, todo |-> job[r].todo] \in Stragglers
      BY <1>4, <2>2 DEF At, Engaged, Stragglers
    <3>2. Settled(job[r].plan)
      BY <1>4, <2>2 DEF At, Engaged
    <3> QED BY <1>1, <2>2, <3>1, <3>2 DEF IInv, StragglersOK, Settled
  <2> QED BY <2>1, <2>2 DEF Kill
<1>7. PlansOK' /\ BegunTyped' /\ AuthorisedMutation'
  BY <1>1, BegunStays DEF IInv, PlansOK
<1>8. Typed'
  <2>1. kills' \in 0..MaxKills
    BY BoundsAssumption DEF Kill, IInv, Typed, WorldTyped
  <2> QED BY <1>5, <1>7, <2>1
          DEF Kill, IInv, Typed, WorldTyped, DiskTyped, TreesTyped, world, disk
<1> QED BY <1>2, <1>3, <1>6, <1>7, <1>8 DEF IInv

----------------------------------------------------------------------------
(* Planning: the steps that write plans and projections                    *)

LEMMA PlanLoadKeeps ==
    ASSUME IInv, NEW r \in Runs, NEW p \in PlanIds, PlanLoad(r, p)
    PROVE  IInv'
<1> PICK j : j = [Idle EXCEPT !.pc = "build", !.cmd = "plan", !.plan = p, !.version = registry]
  OBVIOUS
<1>1. /\ Become(r, j)
      /\ UNCHANGED <<plans, approvals, projections, ledger, stragglers, begun>> /\ Grows
      /\ plans[p] = None /\ \A q \in Runs : job[q].plan # p
  BY NoGrowth DEF PlanLoad, Fresh, disk, log, history
<1>2. j \in Jobs /\ j.plan = p
  BY IdleOK DEF Idle, Jobs, Pcs, IInv, Typed, WorldTyped
<1>3. JobOK(j)'
  BY <1>1 DEF Idle, JobOK, Planning, Bound, Engaged, IInv, Typed, WorldTyped
<1>4. \A q \in Runs \ {r} : Planning(job[q]) => plans'[job[q].plan] = None
  BY <1>1 DEF IInv, JobsOK, JobOK
<1>5. JobsOK'
  BY <1>1, <1>2, <1>3, <1>4, JobStep
<1>6. Typed'
  BY <1>1, <1>5, Quiet
  DEF PlanLoad, IInv, Typed, WorldTyped, DiskTyped, TreesTyped, LogTyped, world, disk, log, bounds, history
<1> QED BY <1>1, <1>5, <1>6, Quiet DEF IInv

\* What the planning run knows of its plan id.
LEMMA PlannerAlone ==
    ASSUME IInv, NEW r \in Runs, Planning(job[r])
    PROVE  /\ job[r] \in Jobs /\ job[r].plan \in PlanIds /\ job[r].version \in Versions
           /\ plans[job[r].plan] = None
           /\ \A q \in Runs \ {r} : job[q].plan # job[r].plan
           /\ \A q \in Runs \ {r} : Planning(job[q]) =>
                  plans[job[q].plan] = None /\ job[q].plan \in PlanIds
BY DEF IInv, JobsOK, JobOK, PlannersApart

\* A step that changes no plan, and only the projection of a plan in the making.
LEMMA ProjectionChanges ==
    ASSUME IInv, NEW r \in Runs, Planning(job[r]), NEW x,
           projections' = [projections EXCEPT ![job[r].plan] = x],
           UNCHANGED <<plans, approvals>>
    PROVE  Grows
BY PlannerAlone DEF Grows, Settled, IInv, Typed, DiskTyped

LEMMA BuildProjectionKeeps == ASSUME IInv, NEW r \in Runs, BuildProjection(r) PROVE IInv'
<1> PICK j : j = [job[r] EXCEPT !.pc = "publish"]
  OBVIOUS
<1> PICK x : x = [content |-> authority, version |-> job[r].version]
  OBVIOUS
<1>1. /\ Become(r, j) /\ UNCHANGED <<plans, approvals, ledger, stragglers, begun>>
      /\ projections' = [projections EXCEPT ![job[r].plan] = x]
      /\ Planning(job[r])
  BY DEF BuildProjection, Goto, At, Planning, log, history
<1>2. Grows
  BY <1>1, ProjectionChanges
<1>3. j \in Jobs /\ j.plan = job[r].plan /\ Planning(j) /\ j.version = job[r].version
  BY <1>1, PlannerAlone DEF Jobs, Pcs, Planning
<1>4. JobOK(j)'
  BY <1>1, <1>3, PlannerAlone DEF JobOK, Planning, Bound, Engaged
<1>5. JobsOK'
  <2>1. /\ \A q \in Runs \ {r} : Planning(job[q]) => plans'[job[q].plan] = None
        /\ \A q \in Runs \ {r} : job[q].plan # j.plan
    BY <1>1, <1>3, PlannerAlone
  <2> QED BY <1>1, <1>2, <1>3, <1>4, <2>1, JobStep
<1>6. projections' \in [PlanIds -> Projections \cup {None}]
  <2>1. x \in Projections
    BY <1>1, PlannerAlone DEF Projections, IInv, Typed, WorldTyped
  <2> QED BY <1>1, <2>1 DEF IInv, Typed, DiskTyped
<1>7. BegunTyped' /\ PlansOK' /\ EntriesOK' /\ StragglersOK' /\ AuthorisedMutation'
  BY <1>1, <1>2, EntriesStay, StragglersStay, BegunStays DEF IInv, PlansOK
<1>8. Typed'
  BY <1>6, <1>7
  DEF BuildProjection, IInv, Typed, WorldTyped, DiskTyped, TreesTyped, LogTyped, world, disk, log, bounds, history
<1> QED BY <1>5, <1>7, <1>8 DEF IInv

LEMMA PlanFailsKeeps == ASSUME IInv, NEW r \in Runs, PlanFails(r) PROVE IInv'
<1>1. /\ Become(r, Idle) /\ UNCHANGED <<plans, approvals, ledger, stragglers, begun>>
      /\ projections' = [projections EXCEPT ![job[r].plan] = None]
      /\ Planning(job[r])
  BY DEF PlanFails, Return, At, Planning, log, history
<1>2. Grows
  BY <1>1, ProjectionChanges
<1> PICK j : j = Idle
  OBVIOUS
<1>3. j \in Jobs /\ JobOK(j)' /\ ~Planning(j) /\ Become(r, j) /\ j.plan = None
  BY <1>1, IdleOK DEF Idle, JobOK, Planning, Bound, Engaged
<1>4. JobsOK'
  BY <1>1, <1>2, <1>3, PlannerAlone, NoneIsNoPlan, JobStep
<1>5. projections' \in [PlanIds -> Projections \cup {None}]
  BY <1>1 DEF IInv, Typed, DiskTyped
<1>6. BegunTyped' /\ PlansOK' /\ EntriesOK' /\ StragglersOK' /\ AuthorisedMutation'
  BY <1>1, <1>2, EntriesStay, StragglersStay, BegunStays DEF IInv, PlansOK
<1>7. Typed'
  BY <1>5, <1>6
  DEF PlanFails, IInv, Typed, WorldTyped, DiskTyped, TreesTyped, LogTyped, world, disk, log, bounds, history
<1> QED BY <1>4, <1>6, <1>7 DEF IInv

LEMMA PublishPlanKeeps == ASSUME IInv, NEW r \in Runs, PublishPlan(r) PROVE IInv'
<1> PICK x : x = DeployPlan
  OBVIOUS
<1>1. /\ Become(r, Idle) /\ UNCHANGED <<approvals, ledger, stragglers, begun>>
      /\ plans' = [plans EXCEPT ![job[r].plan] = x]
      /\ \/ UNCHANGED projections
         \/ projections' = [projections EXCEPT ![job[r].plan] = None]
      /\ Planning(job[r])
  BY DEF PublishPlan, Return, At, Planning, log, history
<1>2. x \in Plans /\ x.op = "deploy" /\ x.desired \in Versions
  <2>1. now + Ttl \in Nat /\ NoDep \in 0..MaxDeps
    BY BoundsAssumption DEF IInv, Typed, WorldTyped, NoDep
  <2> QED BY <2>1 DEF DeployPlan, Plans, IInv, Typed, WorldTyped
<1>3. Grows
  BY <1>1, PlannerAlone DEF Grows, Settled, IInv, Typed, DiskTyped
<1> PICK j : j = Idle
  OBVIOUS
<1>4. j \in Jobs /\ JobOK(j)' /\ ~Planning(j) /\ Become(r, j) /\ j.plan = None
  BY <1>1, IdleOK DEF Idle, JobOK, Planning, Bound, Engaged
<1>5. \A q \in Runs \ {r} : Planning(job[q]) => plans'[job[q].plan] = None
  BY <1>1, PlannerAlone DEF IInv, Typed, DiskTyped
<1>6. JobsOK'
  BY <1>3, <1>4, <1>5, PlannerAlone, NoneIsNoPlan, JobStep
<1>7. /\ plans' \in [PlanIds -> Plans \cup {None}]
      /\ projections' \in [PlanIds -> Projections \cup {None}]
  BY <1>1, <1>2 DEF IInv, Typed, DiskTyped
<1>8. PlansOK'
  BY <1>1, <1>2 DEF IInv, PlansOK, Typed, DiskTyped
<1>9. BegunTyped' /\ EntriesOK' /\ StragglersOK' /\ AuthorisedMutation'
  BY <1>1, <1>3, EntriesStay, StragglersStay, BegunStays
<1>10. Typed'
  BY <1>7, <1>9
  DEF PublishPlan, IInv, Typed, WorldTyped, DiskTyped, TreesTyped, LogTyped, world, disk, log, bounds, history
<1> QED BY <1>6, <1>8, <1>9, <1>10 DEF IInv

----------------------------------------------------------------------------
(* Decisions and rollback plans                                            *)

LEMMA DecideKeeps ==
    ASSUME IInv, NEW p \in PlanIds, NEW decision \in {"approved", "rejected"}, Decide(p, decision)
    PROVE  IInv'
<1> PICK x : x = [decision |-> decision, plan |-> plans[p]]
  OBVIOUS
<1>1. /\ UNCHANGED <<plans, projections, job, ledger, stragglers, begun>>
      /\ approvals' = [approvals EXCEPT ![p] = x] /\ approvals[p] = None
  BY DEF Decide, log, history
<1>2. x \in Approvals
  BY DEF Decide, Approvals, IInv, Typed, DiskTyped
<1>3. Grows
  BY <1>1 DEF Grows, IInv, Typed, DiskTyped
<1>4. JobsOK'
  BY <1>1, <1>3, JobsStay DEF IInv, JobsOK, JobOK
<1>5. approvals' \in [PlanIds -> Approvals \cup {None}]
  BY <1>1, <1>2 DEF IInv, Typed, DiskTyped
<1>6. BegunTyped' /\ PlansOK' /\ EntriesOK' /\ StragglersOK' /\ AuthorisedMutation'
  BY <1>1, <1>3, EntriesStay, StragglersStay, BegunStays DEF IInv, PlansOK
<1>7. Typed'
  BY <1>5, <1>6
  DEF Decide, IInv, Typed, WorldTyped, DiskTyped, TreesTyped, LogTyped, world, disk, log, bounds, history
<1> QED BY <1>4, <1>6, <1>7 DEF IInv

\* The entry found under an id that is in the ledger.
LEMMA EntryOfRecorded ==
    ASSUME ledger \in Seq(Entries), NEW d \in Recorded
    PROVE  \E i \in 1..Len(ledger) : EntryOf(d) = ledger[i] /\ ledger[i].dep = d
<1>1. \E i \in 1..Len(ledger) : ledger[i].dep = d
  BY DEF Recorded
<1> QED BY <1>1 DEF EntryOf

LEMMA CreateRollbackPlanKeeps ==
    ASSUME IInv, NEW d \in Deps, NEW p \in PlanIds, CreateRollbackPlan(d, p)
    PROVE  IInv'
<1> PICK x : x = [content |-> snapshots[d].content, version |-> None]
  OBVIOUS
<1> PICK y : y = [op |-> "rollback", source |-> plans[EntryOf(d).plan].desired,
                  desired |-> snapshots[d].content, parent |-> d, expires |-> now + Ttl]
  OBVIOUS
<1>1. /\ UNCHANGED <<approvals, job, ledger, stragglers, begun>>
      /\ projections' = [projections EXCEPT ![p] = x]
      /\ UNCHANGED plans \/ plans' = [plans EXCEPT ![p] = y]
      /\ plans[p] = None /\ \A q \in Runs : job[q].plan # p
      /\ d \in Recorded /\ snapshots[d] # None
  BY DEF CreateRollbackPlan, Fresh, log, history
<1>2. snapshots[d].content \in Contents
  BY <1>1 DEF IInv, Typed, DiskTyped, Snapshots
<1>3. x \in Projections
  BY <1>2 DEF Projections
<1>4. y \in Plans
  <2>1. PICK i \in 1..Len(ledger) : EntryOf(d) = ledger[i]
    BY <1>1, EntryOfRecorded DEF IInv, Typed, LogTyped
  <2>2. ledger[i] \in Entries /\ Settled(ledger[i].plan)
    BY DEF IInv, Typed, LogTyped, EntriesOK
  <2>3. plans[ledger[i].plan] \in Plans
    BY <2>2 DEF Entries, Settled, IInv, Typed, DiskTyped
  <2>4. now + Ttl \in Nat /\ d \in 0..MaxDeps
    BY BoundsAssumption DEF IInv, Typed, WorldTyped, Deps
  <2> QED BY <1>2, <2>1, <2>3, <2>4 DEF Plans
<1>5. Grows
  BY <1>1 DEF Grows, Settled, IInv, Typed, DiskTyped
<1>6. \A q \in Runs : Planning(job[q]) => plans'[job[q].plan] = None
  BY <1>1 DEF IInv, JobsOK, JobOK, Typed, DiskTyped
<1>7. JobsOK'
  BY <1>1, <1>5, <1>6, JobsStay
<1>8. /\ plans' \in [PlanIds -> Plans \cup {None}]
      /\ projections' \in [PlanIds -> Projections \cup {None}]
  BY <1>1, <1>3, <1>4 DEF IInv, Typed, DiskTyped
<1>9. PlansOK'
  BY <1>1, <1>2 DEF IInv, PlansOK, Typed, DiskTyped
<1>10. BegunTyped' /\ EntriesOK' /\ StragglersOK' /\ AuthorisedMutation'
  BY <1>1, <1>5, EntriesStay, StragglersStay, BegunStays
<1>11. Typed'
  BY <1>8, <1>10
  DEF CreateRollbackPlan, IInv, Typed, WorldTyped, DiskTyped, TreesTyped, LogTyped, world, disk, log, bounds, history
<1> QED BY <1>7, <1>9, <1>10, <1>11 DEF IInv

----------------------------------------------------------------------------
(* The environment                                                         *)

LEMMA EnvironmentKeeps == ASSUME IInv, Environment PROVE IInv'
<1>1. ASSUME NEW v \in Versions, EditRegistry(v) PROVE IInv'
  <2>1. WorldTyped' /\ UNCHANGED <<plans, approvals, projections, job, ledger, stragglers, begun>>
    BY <1>1, BoundsAssumption DEF EditRegistry, IInv, Typed, WorldTyped, disk, log, history
  <2>2. JobsOK'
    BY <2>1, NoGrowth, JobsStay DEF IInv, JobsOK, JobOK
  <2>3. Typed'
    BY <1>1, <2>1, <2>2, Quiet
    DEF EditRegistry, IInv, Typed, DiskTyped, TreesTyped, LogTyped, disk, log, history
  <2> QED BY <2>1, <2>2, <2>3, Quiet DEF IInv
<1>2. ASSUME NEW c \in Contents, EditAuthority(c) PROVE IInv'
  <2>1. WorldTyped' /\ UNCHANGED <<plans, approvals, projections, job, ledger, stragglers, begun>>
    BY <1>2, BoundsAssumption DEF EditAuthority, IInv, Typed, WorldTyped, disk, log, history
  <2>2. JobsOK'
    BY <2>1, NoGrowth, JobsStay DEF IInv, JobsOK, JobOK
  <2>3. Typed'
    BY <1>2, <2>1, <2>2, Quiet
    DEF EditAuthority, IInv, Typed, DiskTyped, TreesTyped, LogTyped, disk, log, history
  <2> QED BY <2>1, <2>2, <2>3, Quiet DEF IInv
<1>3. CASE Tick
  <2>1. WorldTyped' /\ UNCHANGED <<plans, approvals, projections, job, ledger, stragglers, begun>>
    BY <1>3, BoundsAssumption DEF Tick, IInv, Typed, WorldTyped, disk, log, bounds, history
  <2>2. JobsOK'
    BY <2>1, NoGrowth, JobsStay DEF IInv, JobsOK, JobOK
  <2>3. Typed'
    BY <1>3, <2>1, <2>2, Quiet
    DEF Tick, IInv, Typed, DiskTyped, TreesTyped, LogTyped, disk, log, history
  <2> QED BY <2>1, <2>2, <2>3, Quiet DEF IInv
<1>4. ASSUME NEW x \in stragglers, StragglerEnds(x) PROVE IInv'
  <2>1. /\ UNCHANGED <<plans, approvals, projections, job, ledger, begun>> /\ Grows
        /\ stragglers' = stragglers \ {x}
    BY <1>4, NoGrowth DEF StragglerEnds, disk, log, history
  <2>2. JobsOK'
    BY <2>1, JobsStay DEF IInv, JobsOK, JobOK
  <2>3. StragglersOK'
    BY <2>1 DEF IInv, StragglersOK, Settled
  <2>4. BegunTyped' /\ PlansOK' /\ EntriesOK' /\ AuthorisedMutation'
    BY <2>1, EntriesStay, BegunStays DEF IInv, PlansOK
  <2>5. Typed'
    BY <1>4, <2>4
    DEF StragglerEnds, IInv, Typed, WorldTyped, DiskTyped, TreesTyped, LogTyped, world, disk, log, bounds, history
  <2> QED BY <2>2, <2>3, <2>4, <2>5 DEF IInv
<1>5. ASSUME NEW x \in stragglers, NEW s \in Sides, StragglerWrites(x, s) PROVE IInv'
  <2> PICK y : y = [x EXCEPT !.todo = @ \ {s}]
    OBVIOUS
  <2>1. /\ UNCHANGED <<plans, approvals, projections, job, ledger, begun>> /\ Grows
        /\ stragglers' = (stragglers \ {x}) \cup {y}
    BY <1>5, NoGrowth DEF StragglerWrites, disk, log
  <2>2. JobsOK'
    BY <2>1, JobsStay DEF IInv, JobsOK, JobOK
  <2>3. x \in Stragglers /\ Settled(x.plan)
    BY DEF IInv, StragglersOK
  <2>4. y \in Stragglers /\ y.plan = x.plan
    BY <2>3 DEF Stragglers
  <2>5. StragglersOK'
    BY <2>1, <2>3, <2>4 DEF IInv, StragglersOK, Settled
  <2>6. BegunTyped' /\ PlansOK' /\ EntriesOK' /\ AuthorisedMutation'
    BY <2>1, EntriesStay, BegunStays DEF IInv, PlansOK
  <2>7. TreesTyped'
    <3>1. projections[x.plan] \in Projections
      BY <2>3 DEF Settled, Stragglers, IInv, Typed, DiskTyped
    <3>2. Content(x.plan) \in Contents /\ x.dep \in 0..MaxDeps
      BY <2>3, <3>1, BoundsAssumption DEF Content, Projections, Stragglers, Deps
    <3> QED BY <1>5, <3>2 DEF StragglerWrites, Write, IInv, Typed, TreesTyped
  <2>8. Typed'
    BY <1>5, <2>6, <2>7
    DEF StragglerWrites, IInv, Typed, WorldTyped, DiskTyped, LogTyped, world, disk, log, bounds
  <2> QED BY <2>2, <2>5, <2>6, <2>8 DEF IInv
<1> QED
  BY <1>1, <1>2, <1>3, <1>4, <1>5 DEF Environment

----------------------------------------------------------------------------
(* The invariant, and what it gives                                        *)

LEMMA InitIInv == Init => IInv
<1> SUFFICES ASSUME Init PROVE IInv
    OBVIOUS
<1>1. JobsOK
  <2>1. job \in [Runs -> Jobs] /\ \A r \in Runs : JobOK(job[r])
    BY IdleOK DEF Init
  <2>2. \A r \in Runs : ~Planning(job[r])
    BY DEF Init, Idle, Planning
  <2> QED BY <2>1, <2>2 DEF JobsOK, PlannersApart
<1>2. WorldTyped
  BY BoundsAssumption DEF Init, WorldTyped
<1>3. DiskTyped /\ BegunTyped /\ LogTyped
  <2>1. DiskTyped /\ BegunTyped
    BY DEF Init, DiskTyped, BegunTyped
  <2>2. LogTyped
    <3>1. ledger \in Seq(Entries)
      BY DEF Init
    <3>2. torn = FALSE /\ unrecorded = {} /\ overlapped = {}
      BY DEF Init
    <3> QED BY <3>1, <3>2 DEF LogTyped
  <2> QED BY <2>1, <2>2
<1>4. TreesTyped
  BY ValuesAssumption, BoundsAssumption DEF Init, TreesTyped, NoDep
<1>5. PlansOK /\ EntriesOK /\ StragglersOK /\ AuthorisedMutation
  BY DEF Init, PlansOK, EntriesOK, StragglersOK, AuthorisedMutation, Begins
<1> QED BY <1>1, <1>2, <1>3, <1>4, <1>5 DEF IInv, Typed

LEMMA StepKeeps == ASSUME IInv, NEW r \in Runs, Step(r) PROVE IInv'
<1>1. ASSUME NEW s \in Sides, SyncSide(r, s) \/ VerifySide(r, s) PROVE IInv'
  BY <1>1, SyncSideKeeps, VerifySideKeeps
<1> QED
  BY <1>1, BuildProjectionKeeps, PlanFailsKeeps, PublishPlanKeeps, AuthoriseKeeps,
     AuthoriseRollbackKeeps, ScanKeeps, CaptureKeeps, AbortKeeps, RecheckKeeps,
     SyncDoneKeeps, SyncFailsKeeps, VerifyDoneKeeps, VerifyFailsKeeps, RecordKeeps
  DEF Step

LEMMA StartKeeps == ASSUME IInv, NEW r \in Runs, Start(r) PROVE IInv'
BY PlanLoadKeeps, ApplyLoadKeeps, RollbackLoadKeeps DEF Start

LEMMA OperatorKeeps == ASSUME IInv, Operator PROVE IInv'
BY DecideKeeps, CreateRollbackPlanKeeps DEF Operator

LEMMA StutterKeeps == ASSUME IInv, UNCHANGED vars PROVE IInv'
<1>1. UNCHANGED <<plans, approvals, projections, job, ledger, stragglers, begun>>
  BY DEF vars, disk, log, history
<1>2. JobsOK'
  BY <1>1, NoGrowth, JobsStay DEF IInv, JobsOK, JobOK
<1>3. Typed'
  BY <1>1, <1>2, Quiet
  DEF vars, IInv, Typed, WorldTyped, DiskTyped, TreesTyped, LogTyped, world, disk, log,
      bounds, history
<1> QED BY <1>1, <1>2, <1>3, Quiet DEF IInv

LEMMA NextIInv == ASSUME IInv, [Next]_vars PROVE IInv'
BY StepKeeps, StartKeeps, KillKeeps, OperatorKeeps, EnvironmentKeeps, StutterKeeps DEF Next

(* The inductive invariant holds of every behaviour.                       *)
LEMMA Invariance == Spec => []IInv
BY InitIInv, NextIInv, PTL DEF Spec

(* Deployment is type correct.                                             *)
THEOREM TypeCorrect == Spec => []TypeOK
<1>1. IInv => TypeOK
  BY DEF IInv, Typed, WorldTyped, DiskTyped, TreesTyped, LogTyped, BegunTyped, JobsOK,
         StragglersOK, TypeOK
<1> QED BY <1>1, Invariance, PTL

(* The runtime is changed only under an approval of exactly the plan that  *)
(* is carried out, before it expires, for the registry version the run     *)
(* loaded -- whatever other runs, decisions, edits and deaths come between *)
(* the checks and the sync.                                                *)
THEOREM MutationsAreAuthorised == Spec => []AuthorisedMutation
<1>1. IInv => AuthorisedMutation
  BY DEF IInv
<1> QED BY <1>1, Invariance, PTL

----------------------------------------------------------------------------
(* Plans, approvals and projections in use are immutable                   *)

LEMMA NextGrows == ASSUME IInv, [Next]_vars PROVE Grows
<1>1. ASSUME NEW r \in Runs, BuildProjection(r) \/ PlanFails(r) PROVE Grows
  <2>1. Planning(job[r]) /\ UNCHANGED <<plans, approvals>>
    BY <1>1 DEF BuildProjection, PlanFails, At, Planning
  <2>2. CASE projections' = [projections EXCEPT ![job[r].plan] =
                                [content |-> authority, version |-> job[r].version]]
    BY <2>1, <2>2, ProjectionChanges
  <2>3. CASE projections' = [projections EXCEPT ![job[r].plan] = None]
    BY <2>1, <2>3, ProjectionChanges
  <2> QED BY <1>1, <2>2, <2>3 DEF BuildProjection, PlanFails
<1>2. ASSUME NEW r \in Runs, PublishPlan(r) PROVE Grows
  <2>1. /\ Planning(job[r]) /\ UNCHANGED approvals
        /\ plans' = [plans EXCEPT ![job[r].plan] = DeployPlan]
        /\ \/ UNCHANGED projections
           \/ projections' = [projections EXCEPT ![job[r].plan] = None]
    BY <1>2 DEF PublishPlan, At, Planning
  <2> QED BY <2>1, PlannerAlone DEF Grows, Settled, IInv, Typed, DiskTyped
<1>3. ASSUME NEW p \in PlanIds, NEW decision, Decide(p, decision) PROVE Grows
  <2>1. /\ UNCHANGED <<plans, projections>> /\ approvals[p] = None
        /\ approvals' = [approvals EXCEPT ![p] = [decision |-> decision, plan |-> plans[p]]]
    BY <1>3 DEF Decide
  <2> QED BY <2>1 DEF Grows, IInv, Typed, DiskTyped
<1>4. ASSUME NEW p \in PlanIds, NEW d \in Deps, CreateRollbackPlan(d, p) PROVE Grows
  <2>1. /\ UNCHANGED approvals /\ plans[p] = None
        /\ \A q \in PlanIds \ {p} : plans'[q] = plans[q] /\ projections'[q] = projections[q]
    BY <1>4 DEF CreateRollbackPlan, Fresh, IInv, Typed, DiskTyped
  <2> QED BY <2>1 DEF Grows, Settled
<1>5. ASSUME NEW r \in Runs, Step(r), ~BuildProjection(r), ~PlanFails(r), ~PublishPlan(r)
      PROVE  UNCHANGED <<plans, approvals, projections>>
  BY <1>5 DEF Step, Authorise, AuthoriseRollback, Scan, Capture, Abort, Recheck, SyncSide,
              VerifySide, SyncDone, SyncFails, VerifyDone, VerifyFails, Record, disk
<1>6. ASSUME NEW r \in Runs, Start(r) \/ Kill(r)
      PROVE  UNCHANGED <<plans, approvals, projections>>
  BY <1>6 DEF Start, PlanLoad, ApplyLoad, RollbackLoad, Kill, disk
<1>7. Environment => UNCHANGED <<plans, approvals, projections>>
  BY DEF Environment, EditRegistry, EditAuthority, Tick, StragglerEnds, StragglerWrites, disk
<1>8. UNCHANGED vars => UNCHANGED <<plans, approvals, projections>>
  BY DEF vars, disk
<1> QED
  BY <1>1, <1>2, <1>3, <1>4, <1>5, <1>6, <1>7, <1>8, NoGrowth DEF Next, Operator

----------------------------------------------------------------------------
(* Deployment ids                                                          *)

\* The run's sync has not begun.
Early(j) == j.pc \in {"scan", "capture", "recheck"}

DepsApart ==
    \A r, q \in Runs : Engaged(job[r]) /\ Engaged(job[q]) /\ job[r].dep = job[q].dep => r = q

DepsAllocated ==
    /\ \A r \in Runs : Engaged(job[r]) => job[r].dep < nextDep
    /\ \A d \in Deps : Begins(d) => d < nextDep
    /\ \A i \in 1..Len(ledger) : ledger[i].dep < nextDep

NotBegun == \A r \in Runs : Early(job[r]) => ~Begins(job[r].dep)

NotRecorded ==
    \A r \in Runs : Engaged(job[r]) => \A i \in 1..Len(ledger) : ledger[i].dep # job[r].dep

EntriesApart == \A i, k \in 1..Len(ledger) : ledger[i].dep = ledger[k].dep => i = k

SnapshotTimes == \A d \in Deps : snapshots[d] # None => snapshots[d].at <= now

CapturedJobs ==
    \A r \in Runs : job[r].pc = "recheck" /\ job[r].cmd = "deploy" => snapshots[job[r].dep] # None

DInv ==
    /\ DepsApart /\ DepsAllocated /\ NotBegun /\ NotRecorded /\ EntriesApart
    /\ SnapshotTimes /\ CapturedJobs /\ CapturedInTime

LEMMA InitDInv == Init => DInv
<1> SUFFICES ASSUME Init PROVE DInv
    OBVIOUS
<1>1. \A r \in Runs : ~Engaged(job[r]) /\ ~Early(job[r]) /\ job[r].pc # "recheck"
  BY DEF Init, Idle, Engaged, Early
<1>2. ledger = <<>> /\ Len(ledger) = 0
  BY DEF Init
<1>3. \A d \in Deps : begun[d] = None /\ snapshots[d] = None
  BY DEF Init
<1> QED
  BY <1>1, <1>2, <1>3
  DEF DInv, DepsApart, DepsAllocated, NotBegun, NotRecorded, EntriesApart, SnapshotTimes,
      CapturedJobs, CapturedInTime, Begins

\* Facts about one run that the proofs below use.
LEMMA EngagedTyped ==
    ASSUME IInv, NEW r \in Runs, Engaged(job[r])
    PROVE  /\ job[r] \in Jobs /\ job[r].dep \in Deps /\ job[r].dep \in Nat
           /\ job[r].plan \in PlanIds /\ plans[job[r].plan] # None
           /\ plans[job[r].plan].op = job[r].cmd
BY BoundsAssumption DEF IInv, JobsOK, JobOK, Bound, Permitted, Deps

LEMMA BegunPlan ==
    ASSUME IInv, Grows, NEW d \in Deps, Begins(d)
    PROVE  begun[d].plan \in PlanIds /\ plans'[begun[d].plan] = plans[begun[d].plan]
BY DEF IInv, Typed, BegunTyped, Begun, Begins, AuthorisedMutation, Grows

\* A step that allocates, begins, captures and records nothing.
LEMMA CalmKeeps ==
    ASSUME IInv, DInv, Grows, UNCHANGED <<snapshots, begun, ledger, nextDep>>,
           now \in Int, now' \in Int, now <= now',
           \A r \in Runs : Engaged(job'[r]) =>
              /\ Engaged(job[r]) /\ job'[r].dep = job[r].dep /\ job'[r].cmd = job[r].cmd
              /\ Early(job'[r]) => Early(job[r])
              /\ job'[r].pc = "recheck" => job[r].pc = "recheck"
    PROVE  DInv'
<1>1. \A r \in Runs : Early(job'[r]) \/ job'[r].pc = "recheck" => Engaged(job'[r])
  BY DEF Early, Engaged
<1>2. DepsApart' /\ DepsAllocated' /\ NotBegun' /\ NotRecorded' /\ EntriesApart'
  BY <1>1 DEF DInv, DepsApart, DepsAllocated, NotBegun, NotRecorded, EntriesApart, Begins
<1>3. SnapshotTimes'
  <2>1. \A d \in Deps : snapshots[d] # None => snapshots[d].at \in Int
    BY DEF IInv, Typed, DiskTyped, Snapshots
  <2> QED BY <2>1 DEF DInv, SnapshotTimes
<1>4. CapturedJobs'
  BY <1>1 DEF DInv, CapturedJobs
<1>5. CapturedInTime'
  BY BegunPlan DEF DInv, CapturedInTime, Begins
<1> QED BY <1>2, <1>3, <1>4, <1>5 DEF DInv

\* A run that ends with its entry stored.
LEMMA StoredDInv ==
    ASSUME IInv, DInv, Grows, UNCHANGED <<snapshots, begun, nextDep, now>>,
           NEW r \in Runs, At(r, "record"), Return(r), ledger' = Append(ledger, NewEntry(r))
    PROVE  DInv'
<1> PICK e : e = NewEntry(r)
  OBVIOUS
<1>1. Engaged(job[r]) /\ job[r].dep \in Deps /\ e.dep = job[r].dep
  BY EngagedTyped DEF At, Engaged, NewEntry
<1>2. ledger \in Seq(Entries) /\ ledger' = Append(ledger, e) /\ Len(ledger) \in Nat
  BY DEF IInv, Typed, LogTyped
<1>3. /\ Len(ledger') = Len(ledger) + 1 /\ ledger'[Len(ledger) + 1] = e
      /\ \A i \in 1..Len(ledger) : ledger'[i] = ledger[i]
  BY <1>2
<1>4. ~Engaged(job'[r]) /\ \A q \in Runs \ {r} : job'[q] = job[q]
  BY DEF Return, Become, Idle, Engaged, IInv, JobsOK
<1>5. \A q \in Runs : Early(job'[q]) \/ job'[q].pc = "recheck" => Engaged(job'[q])
  BY DEF Early, Engaged
<1>6. DepsApart' /\ NotBegun'
  BY <1>4, <1>5 DEF DInv, DepsApart, NotBegun, Begins
<1>7. DepsAllocated'
  BY <1>1, <1>2, <1>3, <1>4 DEF DInv, DepsAllocated, Begins
<1>8. NotRecorded'
  BY <1>1, <1>2, <1>3, <1>4 DEF DInv, NotRecorded, DepsApart
<1>9. EntriesApart'
  BY <1>1, <1>2, <1>3 DEF DInv, EntriesApart, NotRecorded
<1>10. SnapshotTimes' /\ CapturedJobs'
  BY <1>4, <1>5 DEF DInv, SnapshotTimes, CapturedJobs
<1>11. CapturedInTime'
  BY BegunPlan DEF DInv, CapturedInTime, Begins
<1> QED BY <1>6, <1>7, <1>8, <1>9, <1>10, <1>11 DEF DInv

\* The snapshot is stored; the run goes on to the second look at the clock, or ends.
LEMMA CaptureDInv == ASSUME IInv, DInv, NEW r \in Runs, Capture(r) PROVE DInv'
<1> DEFINE d == job[r].dep
<1>1. Engaged(job[r]) /\ Early(job[r]) /\ d \in Deps /\ ~Begins(d)
  BY EngagedTyped DEF Capture, At, Engaged, Early, DInv, NotBegun
<1>2. /\ UNCHANGED <<plans, begun, ledger, nextDep, now>> /\ Grows
      /\ snapshots' = [snapshots EXCEPT ![d] = [content |-> job[r].seen, at |-> now]]
      /\ Goto(r, "recheck") \/ Return(r)
  BY NoGrowth DEF Capture, world, log, bounds, history
<1>3. /\ job[r] \in Jobs /\ \A q \in Runs \ {r} : job'[q] = job[q]
      /\ job'[r] = Idle \/ job'[r] = [job[r] EXCEPT !.pc = "recheck"]
  BY <1>2 DEF Goto, Return, Become, IInv, JobsOK
<1>4. Engaged(job'[r]) => job'[r].dep = d /\ job'[r].cmd = job[r].cmd /\ Early(job'[r])
  BY <1>3 DEF Idle, Engaged, Early, Jobs
<1>5. \A q \in Runs : Early(job'[q]) \/ job'[q].pc = "recheck" => Engaged(job'[q])
  BY DEF Early, Engaged
<1>6. snapshots'[d] # None /\ snapshots'[d].at = now /\ now \in Int
      /\ \A c \in Deps \ {d} : snapshots'[c] = snapshots[c]
  <2>1. snapshots'[d] = [content |-> job[r].seen, at |-> now]
    BY <1>1, <1>2 DEF IInv, Typed, DiskTyped
  <2>2. now \in Nat /\ job[r].seen \in Contents
    BY BoundsAssumption DEF IInv, Typed, WorldTyped, JobsOK, JobOK, Capture, At
  <2>3. snapshots'[d] \in Snapshots
    BY <2>1, <2>2 DEF Snapshots
  <2> QED BY <1>1, <1>2, <2>1, <2>2, <2>3, NoneIsNoRecord DEF IInv, Typed, DiskTyped
<1>7. DepsApart' /\ DepsAllocated' /\ NotRecorded' /\ EntriesApart'
  BY <1>1, <1>2, <1>3, <1>4
  DEF DInv, DepsApart, DepsAllocated, NotRecorded, EntriesApart, Begins
<1>8. NotBegun'
  BY <1>1, <1>2, <1>3, <1>4, <1>5 DEF DInv, NotBegun, Begins
<1>9. SnapshotTimes'
  BY <1>2, <1>6 DEF DInv, SnapshotTimes
<1>10. CapturedJobs'
  <2> SUFFICES ASSUME NEW q \in Runs, job'[q].pc = "recheck", job'[q].cmd = "deploy"
               PROVE  snapshots'[job'[q].dep] # None
    BY DEF CapturedJobs
  <2>1. CASE q = r
    BY <1>4, <1>5, <1>6, <2>1
  <2>2. CASE q # r
    <3>1. Engaged(job[q]) /\ job'[q] = job[q]
      BY <1>3, <1>5, <2>2
    <3>2. job[q].dep \in Deps /\ job[q].dep # d
      BY <1>1, <2>2, <3>1, EngagedTyped DEF DInv, DepsApart
    <3> QED BY <1>6, <3>1, <3>2 DEF DInv, CapturedJobs
  <2> QED BY <2>1, <2>2
<1>11. CapturedInTime'
  BY <1>1, <1>2, <1>6, BegunPlan DEF DInv, CapturedInTime, Begins
<1> QED BY <1>7, <1>8, <1>9, <1>10, <1>11 DEF DInv

\* The sync begins.
LEMMA RecheckDInv == ASSUME IInv, DInv, NEW r \in Runs, Recheck(r) PROVE DInv'
<1> DEFINE d == job[r].dep
           p == job[r].plan
<1>1. /\ Engaged(job[r]) /\ Early(job[r]) /\ d \in Deps /\ p \in PlanIds
      /\ job[r] \in Jobs /\ plans[p].op = job[r].cmd /\ now < plans[p].expires
  BY EngagedTyped DEF Recheck, At, Engaged, Early, Unexpired
<1>2. /\ UNCHANGED <<plans, snapshots, ledger, nextDep, now>> /\ Grows
      /\ job' = [job EXCEPT ![r] = [job[r] EXCEPT !.pc = "sync", !.todo = Sides]]
  BY NoGrowth DEF Recheck, Become, world, disk, log, bounds
<1>3. /\ \A q \in Runs \ {r} : job'[q] = job[q]
      /\ job'[r].dep = d /\ job'[r].pc = "sync" /\ Engaged(job'[r])
  BY <1>1, <1>2 DEF IInv, JobsOK, Jobs, Engaged
<1>4. /\ begun'[d].plan = p /\ \A c \in Deps \ {d} : begun'[c] = begun[c]
  BY <1>1 DEF Recheck, IInv, Typed, BegunTyped
<1>5. \A q \in Runs : Early(job'[q]) \/ job'[q].pc = "recheck" => Engaged(job'[q]) /\ q # r
  BY <1>3 DEF Early, Engaged
<1>6. DepsApart' /\ NotRecorded' /\ EntriesApart' /\ SnapshotTimes'
  BY <1>1, <1>2, <1>3 DEF DInv, DepsApart, NotRecorded, EntriesApart, SnapshotTimes
<1>7. DepsAllocated'
  BY <1>1, <1>2, <1>3, <1>4 DEF DInv, DepsAllocated, Begins
<1>8. NotBegun'
  <2> SUFFICES ASSUME NEW q \in Runs, Early(job'[q]) PROVE begun'[job'[q].dep] = None
    BY DEF NotBegun, Begins
  <2>1. q # r /\ job'[q] = job[q] /\ Engaged(job[q])
    BY <1>3, <1>5
  <2>2. job[q].dep \in Deps /\ job[q].dep # d
    BY <1>1, <2>1, EngagedTyped DEF DInv, DepsApart
  <2> QED BY <1>4, <2>1, <2>2 DEF DInv, NotBegun, Begins
<1>9. CapturedJobs'
  BY <1>2, <1>3, <1>5 DEF DInv, CapturedJobs
<1>10. CapturedInTime'
  <2> SUFFICES ASSUME NEW c \in Deps, begun'[c] # None, plans[begun'[c].plan].op = "deploy"
               PROVE  snapshots[c] # None /\ snapshots[c].at < plans[begun'[c].plan].expires
    BY <1>2 DEF CapturedInTime, Begins
  <2>1. CASE c = d
    <3>1. snapshots[d] # None
      BY <1>1, <1>4, <2>1 DEF DInv, CapturedJobs, Recheck, At
    <3>2. snapshots[d].at <= now /\ snapshots[d].at \in Int
      BY <1>1, <3>1 DEF DInv, SnapshotTimes, IInv, Typed, DiskTyped, Snapshots
    <3>3. now \in Int /\ plans[p].expires \in Int
      <4>1. plans[p] \in Plans
        BY <1>1, EngagedTyped DEF IInv, Typed, DiskTyped
      <4> QED BY <4>1, BoundsAssumption DEF Plans, IInv, Typed, WorldTyped
    <3> QED BY <1>1, <1>4, <2>1, <3>1, <3>2, <3>3
  <2>2. CASE c # d
    BY <1>4, <2>2 DEF DInv, CapturedInTime, Begins
  <2> QED BY <2>1, <2>2
<1> QED BY <1>6, <1>7, <1>8, <1>9, <1>10 DEF DInv

\* A run that is given a deployment id nobody had.
LEMMA AllocateDInv ==
    ASSUME IInv, DInv, NEW r \in Runs, ~Engaged(job[r]), job[r] \in Jobs,
           UNCHANGED <<plans, snapshots, begun, ledger, now>>,
           \/ Allocate(r, "scan")
           \/ Allocate(r, "recheck") /\ job[r].cmd # "deploy"
    PROVE  DInv'
<1>1. nextDep \in Deps /\ nextDep \in Int /\ nextDep' = nextDep + 1
  BY BoundsAssumption DEF Allocate, Deps
<1>2. /\ \A q \in Runs \ {r} : job'[q] = job[q]
      /\ job'[r].dep = nextDep
      /\ job'[r].pc = "recheck" => job'[r].cmd # "deploy"
  BY DEF Allocate, Become, IInv, JobsOK, Jobs
<1>3. \A q \in Runs : Early(job'[q]) \/ job'[q].pc = "recheck" => Engaged(job'[q])
  BY DEF Early, Engaged
<1>4. \A q \in Runs \ {r} : Engaged(job[q]) => job[q].dep \in Int /\ job[q].dep < nextDep
  BY EngagedTyped DEF DInv, DepsAllocated
<1>5. ~Begins(nextDep) /\ \A i \in 1..Len(ledger) : ledger[i].dep # nextDep
  BY <1>1 DEF DInv, DepsAllocated
<1>6. DepsApart'
  BY <1>1, <1>2, <1>4 DEF DInv, DepsApart
<1>7. DepsAllocated'
  <2>1. \A q \in Runs : Engaged(job'[q]) => job'[q].dep < nextDep'
    BY <1>1, <1>2, <1>4
  <2>2. \A d \in Deps : Begins(d) => d < nextDep'
    BY <1>1, BoundsAssumption DEF DInv, DepsAllocated, Deps
  <2>3. \A i \in 1..Len(ledger) : ledger[i].dep < nextDep'
    <3>1. \A i \in 1..Len(ledger) : ledger[i] \in Entries
      BY DEF IInv, Typed, LogTyped
    <3> QED BY <1>1, <3>1, BoundsAssumption DEF DInv, DepsAllocated, Entries, Deps
  <2> QED BY <2>1, <2>2, <2>3 DEF DepsAllocated, Begins
<1>8. NotBegun' /\ NotRecorded'
  BY <1>2, <1>3, <1>5 DEF DInv, NotBegun, NotRecorded, Begins
<1>9. EntriesApart' /\ SnapshotTimes' /\ CapturedInTime'
  BY DEF DInv, EntriesApart, SnapshotTimes, CapturedInTime, Begins
<1>10. CapturedJobs'
  BY <1>2, <1>3 DEF DInv, CapturedJobs
<1> QED BY <1>6, <1>7, <1>8, <1>9, <1>10 DEF DInv

\* The clock does not go back.
LEMMA ClockMoves == ASSUME IInv, [Next]_vars PROVE now \in Int /\ now' \in Int /\ now <= now'
<1>1. now \in Int /\ now' \in Int
  BY NextIInv, BoundsAssumption DEF IInv, Typed, WorldTyped
<1>2. now' = now \/ now' = now + 1
  <2>1. Environment => now' = now \/ now' = now + 1
    BY DEF Environment, EditRegistry, EditAuthority, Tick, StragglerEnds, StragglerWrites, world
  <2>2. ASSUME NEW r \in Runs, Start(r) \/ Kill(r) PROVE now' = now
    BY <2>2 DEF Start, PlanLoad, ApplyLoad, RollbackLoad, Kill, world
  <2>3. ASSUME NEW r \in Runs, Step(r) PROVE now' = now
    BY <2>3 DEF Step, BuildProjection, PlanFails, PublishPlan, Authorise, AuthoriseRollback,
           Scan, Capture, Abort, Recheck, SyncSide, SyncDone, SyncFails, VerifySide,
           VerifyDone, VerifyFails, Record, world
  <2>4. Operator \/ UNCHANGED vars => now' = now
    BY DEF Operator, Decide, CreateRollbackPlan, vars, world
  <2> QED BY <2>1, <2>2, <2>3, <2>4 DEF Next
<1> QED BY <1>1, <1>2

\* A run whose step neither allocates, captures, begins nor records.
LEMMA CalmRun ==
    ASSUME IInv, DInv, [Next]_vars, NEW r \in Runs, NEW j, Become(r, j),
           UNCHANGED <<snapshots, begun, ledger, nextDep>>,
           Engaged(j) =>
              /\ Engaged(job[r]) /\ j.dep = job[r].dep /\ j.cmd = job[r].cmd
              /\ Early(j) => Early(job[r])
              /\ j.pc = "recheck" => job[r].pc = "recheck"
    PROVE  DInv'
<1>1. job'[r] = j /\ \A q \in Runs \ {r} : job'[q] = job[q]
  BY DEF Become, IInv, JobsOK
<1>2. \A q \in Runs : Engaged(job'[q]) =>
              /\ Engaged(job[q]) /\ job'[q].dep = job[q].dep /\ job'[q].cmd = job[q].cmd
              /\ Early(job'[q]) => Early(job[q])
              /\ job'[q].pc = "recheck" => job[q].pc = "recheck"
  BY <1>1
<1>3. Grows /\ now \in Int /\ now' \in Int /\ now <= now'
  BY NextGrows, ClockMoves
<1> QED BY <1>2, <1>3, CalmKeeps

\* A step of nobody's run.
LEMMA CalmWorld ==
    ASSUME IInv, DInv, [Next]_vars, UNCHANGED <<job, snapshots, begun, ledger, nextDep>>
    PROVE  DInv'
BY NextGrows, ClockMoves, CalmKeeps

LEMMA StepDInv == ASSUME IInv, DInv, NEW r \in Runs, Step(r) PROVE DInv'
<1>0. job[r] \in Jobs /\ [Next]_vars /\ Grows
  BY NextGrows DEF Next, IInv, JobsOK
<1>1. CASE BuildProjection(r)
  <2> PICK j : j = [job[r] EXCEPT !.pc = "publish"]
    OBVIOUS
  <2>1. Become(r, j) /\ UNCHANGED <<snapshots, begun, ledger, nextDep>>
    BY <1>1 DEF BuildProjection, Goto, disk, log, bounds, history
  <2>2. Engaged(j) =>
            /\ Engaged(job[r]) /\ j.dep = job[r].dep /\ j.cmd = job[r].cmd
            /\ Early(j) => Early(job[r])
            /\ j.pc = "recheck" => job[r].pc = "recheck"
    BY <1>0, <1>1 DEF BuildProjection, At, Jobs, Engaged, Early
  <2> QED BY <1>0, <2>1, <2>2, CalmRun
<1>2. CASE Scan(r)
  <2> PICK j : j = [job[r] EXCEPT !.pc = "capture", !.seen = trees["a"]]
    OBVIOUS
  <2>1. Become(r, j) /\ UNCHANGED <<snapshots, begun, ledger, nextDep>>
    BY <1>2 DEF Scan, disk, log, bounds, history
  <2>2. Engaged(j) =>
            /\ Engaged(job[r]) /\ j.dep = job[r].dep /\ j.cmd = job[r].cmd
            /\ Early(j) => Early(job[r])
            /\ j.pc = "recheck" => job[r].pc = "recheck"
    BY <1>0, <1>2 DEF Scan, At, Jobs, Engaged, Early
  <2> QED BY <1>0, <2>1, <2>2, CalmRun
<1>3. CASE SyncDone(r)
  <2> PICK j : j = [job[r] EXCEPT !.pc = "verify", !.todo = Sides]
    OBVIOUS
  <2>1. Become(r, j) /\ UNCHANGED <<snapshots, begun, ledger, nextDep>>
    BY <1>3 DEF SyncDone, disk, log, bounds, history
  <2>2. Engaged(j) =>
            /\ Engaged(job[r]) /\ j.dep = job[r].dep /\ j.cmd = job[r].cmd
            /\ Early(j) => Early(job[r])
            /\ j.pc = "recheck" => job[r].pc = "recheck"
    BY <1>0, <1>3 DEF SyncDone, At, Jobs, Engaged, Early
  <2> QED BY <1>0, <2>1, <2>2, CalmRun
<1>4. CASE SyncFails(r)
  <2> PICK j : j = [job[r] EXCEPT !.pc = "record", !.todo = {}, !.result = "failed"]
    OBVIOUS
  <2>1. Become(r, j) /\ UNCHANGED <<snapshots, begun, ledger, nextDep>>
    BY <1>4 DEF SyncFails, Failed, disk, log, bounds, history
  <2>2. Engaged(j) =>
            /\ Engaged(job[r]) /\ j.dep = job[r].dep /\ j.cmd = job[r].cmd
            /\ Early(j) => Early(job[r])
            /\ j.pc = "recheck" => job[r].pc = "recheck"
    BY <1>0, <1>4 DEF SyncFails, At, Jobs, Engaged, Early
  <2> QED BY <1>0, <2>1, <2>2, CalmRun
<1>5. CASE VerifyDone(r)
  <2> PICK j : j = [job[r] EXCEPT !.pc = "record",
             !.result = IF job[r].cmd = "deploy" THEN "succeeded" ELSE "rolled_back"]
    OBVIOUS
  <2>1. Become(r, j) /\ UNCHANGED <<snapshots, begun, ledger, nextDep>>
    BY <1>5 DEF VerifyDone, disk, log, bounds, history
  <2>2. Engaged(j) =>
            /\ Engaged(job[r]) /\ j.dep = job[r].dep /\ j.cmd = job[r].cmd
            /\ Early(j) => Early(job[r])
            /\ j.pc = "recheck" => job[r].pc = "recheck"
    BY <1>0, <1>5 DEF VerifyDone, At, Jobs, Engaged, Early
  <2> QED BY <1>0, <2>1, <2>2, CalmRun
<1>6. CASE VerifyFails(r)
  <2> PICK j : j = [job[r] EXCEPT !.pc = "record", !.todo = {}, !.result = "failed"]
    OBVIOUS
  <2>1. Become(r, j) /\ UNCHANGED <<snapshots, begun, ledger, nextDep>>
    BY <1>6 DEF VerifyFails, Failed, disk, log, bounds, history
  <2>2. Engaged(j) =>
            /\ Engaged(job[r]) /\ j.dep = job[r].dep /\ j.cmd = job[r].cmd
            /\ Early(j) => Early(job[r])
            /\ j.pc = "recheck" => job[r].pc = "recheck"
    BY <1>0, <1>6 DEF VerifyFails, At, Jobs, Engaged, Early
  <2> QED BY <1>0, <2>1, <2>2, CalmRun
<1>7. ASSUME NEW s \in Sides, SyncSide(r, s) \/ VerifySide(r, s) PROVE DInv'
  <2> PICK j : j = [job[r] EXCEPT !.todo = @ \ {s}]
    OBVIOUS
  <2>1. Become(r, j) /\ UNCHANGED <<snapshots, begun, ledger, nextDep>>
    BY <1>7 DEF SyncSide, VerifySide, disk, log, bounds, history
  <2>2. Engaged(j) =>
            /\ Engaged(job[r]) /\ j.dep = job[r].dep /\ j.cmd = job[r].cmd
            /\ Early(j) => Early(job[r])
            /\ j.pc = "recheck" => job[r].pc = "recheck"
    BY <1>0 DEF Jobs, Engaged, Early
  <2> QED BY <1>0, <2>1, <2>2, CalmRun
<1>8. CASE PlanFails(r) \/ PublishPlan(r) \/ Abort(r) \/ (Record(r) /\ UNCHANGED ledger)
  <2>1. Become(r, Idle) /\ UNCHANGED <<snapshots, begun, ledger, nextDep>>
    BY <1>8 DEF PlanFails, PublishPlan, Abort, Record, Return, disk, log, bounds, history
  <2>2. ~Engaged(Idle)
    BY DEF Idle, Engaged
  <2> QED BY <1>0, <2>1, <2>2, CalmRun
<1>9. CASE Record(r) /\ ledger' = Append(ledger, NewEntry(r))
  BY <1>0, <1>9, StoredDInv DEF Record, world, disk, bounds
<1>10. CASE Authorise(r)
  BY <1>0, <1>10, AllocateDInv DEF Authorise, At, Engaged, world, disk, log
<1>11. CASE AuthoriseRollback(r)
  BY <1>0, <1>11, AllocateDInv DEF AuthoriseRollback, At, Engaged, world, disk, log
<1>12. CASE Capture(r)
  BY <1>12, CaptureDInv
<1>13. CASE Recheck(r)
  BY <1>13, RecheckDInv
<1>14. Record(r) => UNCHANGED ledger \/ ledger' = Append(ledger, NewEntry(r))
  BY DEF Record
<1> QED
  BY <1>1, <1>2, <1>3, <1>4, <1>5, <1>6, <1>7, <1>8, <1>9, <1>10, <1>11, <1>12, <1>13, <1>14 DEF Step

LEMMA StartDInv == ASSUME IInv, DInv, NEW r \in Runs, Start(r) PROVE DInv'
<1>1. [Next]_vars
  BY DEF Next
<1>2. ASSUME NEW j, Become(r, j), ~Engaged(j), UNCHANGED <<snapshots, begun, ledger, nextDep>>
      PROVE  DInv'
  BY <1>1, <1>2, CalmRun
<1>3. ASSUME NEW p \in PlanIds, PlanLoad(r, p) PROVE DInv'
  <2>1. ~Engaged([Idle EXCEPT !.pc = "build", !.cmd = "plan", !.plan = p, !.version = registry])
    BY DEF Idle, Engaged
  <2> QED BY <1>2, <1>3, <2>1 DEF PlanLoad, disk, log, bounds, history
<1>4. ASSUME NEW p \in PlanIds, ApplyLoad(r, p) PROVE DInv'
  <2>1. ~Engaged([Idle EXCEPT !.pc = "authorise", !.cmd = "deploy", !.plan = p,
                              !.version = registry])
    BY DEF Idle, Engaged
  <2> QED BY <1>2, <1>4, <2>1 DEF ApplyLoad, disk, log, bounds, history
<1>5. ASSUME NEW p \in PlanIds, NEW d \in Deps, RollbackLoad(r, d, p) PROVE DInv'
  <2>1. ~Engaged([Idle EXCEPT !.pc = "authorise", !.cmd = "rollback", !.plan = p,
                              !.parent = d, !.version = registry])
    BY DEF Idle, Engaged
  <2> QED BY <1>2, <1>5, <2>1 DEF RollbackLoad, disk, log, bounds, history
<1> QED BY <1>3, <1>4, <1>5 DEF Start

LEMMA KillDInv == ASSUME IInv, DInv, NEW r \in Runs, Kill(r) PROVE DInv'
<1>1. [Next]_vars /\ Grows
  BY NextGrows DEF Next
<1>2. CASE At(r, "record") /\ ledger' = Append(ledger, NewEntry(r))
  BY <1>1, <1>2, StoredDInv DEF Kill, world, disk
<1>3. CASE UNCHANGED ledger
  <2>1. Become(r, Idle) /\ UNCHANGED <<snapshots, begun, ledger, nextDep>>
    BY <1>3 DEF Kill, Return, disk
  <2>2. ~Engaged(Idle)
    BY DEF Idle, Engaged
  <2> QED BY <1>1, <2>1, <2>2, CalmRun
<1> QED BY <1>2, <1>3 DEF Kill

LEMMA NextDInv == ASSUME IInv, DInv, [Next]_vars PROVE DInv'
<1>1. CASE Operator \/ Environment \/ UNCHANGED vars
  <2>1. UNCHANGED <<job, snapshots, begun, ledger, nextDep>>
    BY <1>1 DEF Operator, Environment, Decide, CreateRollbackPlan, EditRegistry, EditAuthority,
                Tick, StragglerEnds, StragglerWrites, vars, disk, log, bounds, history
  <2> QED BY <2>1, CalmWorld
<1> QED BY <1>1, StepDInv, StartDInv, KillDInv DEF Next

LEMMA DepsInvariance == Spec => []DInv
<1>1. Init => IInv /\ DInv
  BY InitIInv, InitDInv
<1>2. IInv /\ DInv /\ [Next]_vars => (IInv /\ DInv)'
  BY NextIInv, NextDInv
<1> QED BY <1>1, <1>2, PTL DEF Spec

(* Nothing is deployed without a runtime snapshot that was complete before *)
(* the plan expired.                                                       *)
THEOREM SnapshotsAreInTime == Spec => []CapturedInTime
<1>1. DInv => CapturedInTime
  BY DEF DInv
<1> QED BY <1>1, DepsInvariance, PTL

----------------------------------------------------------------------------
(* Lineage                                                                 *)

\* Entry k is of a deployment d that succeeded and is no rollback.
IsParent(k, d) ==
    ledger[k].dep = d /\ ledger[k].result = "succeeded" /\ ledger[k].parent = NoDep

PlanLineage ==
    \A p \in PlanIds : plans[p] # None /\ plans[p].parent # NoDep =>
        \E k \in 1..Len(ledger) : IsParent(k, plans[p].parent)

EntryLineage ==
    \A i \in 1..Len(ledger) : ledger[i].parent # NoDep =>
        \E k \in 1..(i - 1) : IsParent(k, ledger[i].parent)

LInv == PlanLineage /\ EntryLineage

\* The ledger changes at its end only, by the entry of a run at its end.
LEMMA LedgerMoves ==
    ASSUME [Next]_vars
    PROVE  \/ UNCHANGED ledger
           \/ \E r \in Runs : /\ At(r, "record") /\ ledger' = Append(ledger, NewEntry(r))
                              /\ UNCHANGED plans
<1>1. ASSUME NEW r \in Runs, Record(r) \/ Kill(r)
      PROVE  UNCHANGED ledger \/ (/\ At(r, "record") /\ ledger' = Append(ledger, NewEntry(r))
                                  /\ UNCHANGED plans)
  BY <1>1 DEF Record, Kill, disk
<1>2. ASSUME NEW r \in Runs, Step(r), ~Record(r) PROVE UNCHANGED ledger
  BY <1>2 DEF Step, BuildProjection, PlanFails, PublishPlan, Authorise, AuthoriseRollback, Scan,
              Capture, Abort, Recheck, SyncSide, VerifySide, SyncDone, SyncFails, VerifyDone,
              VerifyFails, log
<1>3. ASSUME NEW r \in Runs, Start(r) PROVE UNCHANGED ledger
  BY <1>3 DEF Start, PlanLoad, ApplyLoad, RollbackLoad, log
<1>4. Operator \/ Environment \/ UNCHANGED vars => UNCHANGED ledger
  BY DEF Operator, Decide, CreateRollbackPlan, Environment, EditRegistry, EditAuthority, Tick,
         StragglerEnds, StragglerWrites, vars, log
<1> QED BY <1>1, <1>2, <1>3, <1>4 DEF Next

\* A plan appears by being published or as a rollback plan.
LEMMA PlansMove ==
    ASSUME [Next]_vars
    PROVE  \/ UNCHANGED plans
           \/ \E r \in Runs : PublishPlan(r)
           \/ \E p \in PlanIds, d \in Deps : CreateRollbackPlan(d, p)
<1>1. ASSUME NEW r \in Runs, Step(r), ~PublishPlan(r) PROVE UNCHANGED plans
  BY <1>1 DEF Step, BuildProjection, PlanFails, Authorise, AuthoriseRollback, Scan, Capture,
              Abort, Recheck, SyncSide, VerifySide, SyncDone, SyncFails, VerifyDone,
              VerifyFails, Record, disk
<1>2. ASSUME NEW r \in Runs, Start(r) \/ Kill(r) PROVE UNCHANGED plans
  BY <1>2 DEF Start, PlanLoad, ApplyLoad, RollbackLoad, Kill, disk
<1>3. ASSUME NEW p \in PlanIds, NEW decision, Decide(p, decision) PROVE UNCHANGED plans
  BY <1>3 DEF Decide
<1>4. Environment \/ UNCHANGED vars => UNCHANGED plans
  BY DEF Environment, EditRegistry, EditAuthority, Tick, StragglerEnds, StragglerWrites, vars, disk
<1> QED BY <1>1, <1>2, <1>3, <1>4 DEF Next, Operator

LEMMA InitLInv == Init => LInv
<1> SUFFICES ASSUME Init PROVE LInv
    OBVIOUS
<1>1. ledger = <<>> /\ Len(ledger) = 0 /\ \A p \in PlanIds : plans[p] = None
  BY DEF Init
<1> QED BY <1>1 DEF LInv, PlanLineage, EntryLineage

\* An entry is appended: what was a parent stays one, and the new entry's
\* parent is that of its plan.
LEMMA AppendLInv ==
    ASSUME IInv, LInv, NEW r \in Runs, At(r, "record"), ledger' = Append(ledger, NewEntry(r)),
           UNCHANGED plans
    PROVE  LInv'
<1> PICK e : e = NewEntry(r)
  OBVIOUS
<1>1. /\ Engaged(job[r]) /\ job[r].plan \in PlanIds /\ plans[job[r].plan] # None
      /\ e.parent = plans[job[r].plan].parent
  BY EngagedTyped DEF At, Engaged, NewEntry
<1>2. ledger \in Seq(Entries) /\ Len(ledger) \in Nat /\ ledger' = Append(ledger, e)
  BY DEF IInv, Typed, LogTyped
<1>3. /\ Len(ledger') = Len(ledger) + 1 /\ ledger'[Len(ledger) + 1] = e
      /\ \A i \in 1..Len(ledger) : ledger'[i] = ledger[i]
  BY <1>2
<1>4. \A k \in 1..Len(ledger) : \A d : IsParent(k, d) =>
          /\ ledger'[k].dep = d /\ ledger'[k].result = "succeeded" /\ ledger'[k].parent = NoDep
  BY <1>3 DEF IsParent
<1>5. PlanLineage'
  BY <1>2, <1>3, <1>4 DEF LInv, PlanLineage, IsParent
<1>6. EntryLineage'
  <2> SUFFICES ASSUME NEW i \in 1..Len(ledger'), ledger'[i].parent # NoDep
               PROVE  \E k \in 1..(i - 1) :
                         /\ ledger'[k].dep = ledger'[i].parent
                         /\ ledger'[k].result = "succeeded" /\ ledger'[k].parent = NoDep
    BY DEF EntryLineage, IsParent
  <2>1. CASE i = Len(ledger) + 1
    <3>1. PICK k \in 1..Len(ledger) : IsParent(k, e.parent)
      BY <1>1, <1>3, <2>1 DEF LInv, PlanLineage
    <3>2. k \in 1..(i - 1)
      BY <1>2, <2>1
    <3> QED BY <1>3, <1>4, <2>1, <3>1, <3>2
  <2>2. CASE i # Len(ledger) + 1
    <3>1. i \in 1..Len(ledger) /\ ledger'[i] = ledger[i]
      BY <1>2, <1>3, <2>2
    <3>2. PICK k \in 1..(i - 1) : IsParent(k, ledger[i].parent)
      BY <3>1 DEF LInv, EntryLineage
    <3>3. k \in 1..Len(ledger)
      BY <1>2, <3>1, <3>2
    <3> QED BY <1>4, <3>1, <3>2, <3>3
  <2> QED BY <2>1, <2>2
<1> QED BY <1>5, <1>6 DEF LInv

LEMMA NextLInv == ASSUME IInv, LInv, [Next]_vars PROVE LInv'
<1>1. CASE \E r \in Runs : /\ At(r, "record") /\ ledger' = Append(ledger, NewEntry(r))
                           /\ UNCHANGED plans
  BY <1>1, AppendLInv
<1>2. CASE UNCHANGED ledger
  <2>1. EntryLineage'
    BY <1>2 DEF LInv, EntryLineage, IsParent
  <2>2. ASSUME NEW p \in PlanIds, plans'[p] # None, plans'[p].parent # NoDep
        PROVE  \E k \in 1..Len(ledger) : IsParent(k, plans'[p].parent)
    <3>1. CASE plans'[p] = plans[p]
      BY <2>2, <3>1 DEF LInv, PlanLineage
    <3>2. ASSUME NEW r \in Runs, PublishPlan(r), plans'[p] # plans[p] PROVE FALSE
      <4>1. plans' = [plans EXCEPT ![job[r].plan] = DeployPlan]
        BY <3>2 DEF PublishPlan
      <4>2. plans'[p] = DeployPlan
        BY <3>2, <4>1 DEF IInv, Typed, DiskTyped
      <4> QED BY <2>2, <4>2 DEF DeployPlan
    <3>3. ASSUME NEW q \in PlanIds, NEW d \in Deps, CreateRollbackPlan(d, q), plans'[p] # plans[p]
          PROVE  \E k \in 1..Len(ledger) : IsParent(k, plans'[p].parent)
      <4>1. plans'[p].parent = d
        BY <3>3 DEF CreateRollbackPlan, IInv, Typed, DiskTyped
      <4>2. PICK k \in 1..Len(ledger) : EntryOf(d) = ledger[k] /\ ledger[k].dep = d
        BY <3>3, EntryOfRecorded DEF CreateRollbackPlan, IInv, Typed, LogTyped
      <4> QED BY <3>3, <4>1, <4>2 DEF CreateRollbackPlan, CanRollBack, IsParent
    <3> QED BY <3>1, <3>2, <3>3, PlansMove
  <2>3. PlanLineage'
    BY <1>2, <2>2 DEF PlanLineage, IsParent
  <2> QED BY <2>1, <2>3 DEF LInv
<1> QED BY <1>1, <1>2, LedgerMoves

(* Every deployment has at most one entry, and one that rolls back comes   *)
(* after the entry of a deployment that succeeded and is no rollback.      *)
THEOREM RollbacksHaveLineage == Spec => []RollbackLineage
<1>1. Init => IInv /\ LInv
  BY InitIInv, InitLInv
<1>2. IInv /\ LInv /\ [Next]_vars => (IInv /\ LInv)'
  BY NextIInv, NextLInv
<1>3. DInv /\ LInv => RollbackLineage
  BY DEF DInv, EntriesApart, LInv, EntryLineage, IsParent, RollbackLineage
<1> QED BY <1>1, <1>2, <1>3, DepsInvariance, PTL DEF Spec

----------------------------------------------------------------------------
(* The projection of a plan                                                *)

\* The projection that a planning run has built is of the version it loaded.
BuiltFromLoaded ==
    \A r \in Runs : At(r, "publish") /\ projections[job[r].plan] # None =>
        projections[job[r].plan].version = job[r].version

PInv == BuiltFromLoaded /\ ProjectionMatchesPlan

LEMMA InitPInv == Init => PInv
BY DEF Init, PInv, BuiltFromLoaded, ProjectionMatchesPlan, At, Idle

\* A run comes to publish by building its projection.
LEMMA PublishersMove ==
    ASSUME IInv, [Next]_vars, NEW q \in Runs, job'[q].pc = "publish", ~BuildProjection(q)
    PROVE  job'[q] = job[q]
<1>1. job \in [Runs -> Jobs]
  BY DEF IInv, JobsOK
<1>2. ASSUME NEW r \in Runs, Step(r), ~BuildProjection(r), r = q PROVE job'[q].pc # "publish"
  <2>0. job[q] \in Jobs /\ \A j : Become(q, j) => job'[q] = j
    BY <1>1 DEF Become
  <2>1. Become(q, Idle) => job'[q].pc # "publish"
    BY <2>0 DEF Idle
  <2>2. \A pc \in Pcs : Goto(q, pc) => job'[q].pc = pc
    BY <2>0 DEF Goto, Jobs
  <2>3. CASE PlanFails(r) \/ PublishPlan(r) \/ Abort(r) \/ Record(r) \/ Capture(r)
    BY <1>2, <2>1, <2>2, <2>3
    DEF PlanFails, PublishPlan, Abort, Record, Capture, Return, Pcs
  <2>4. CASE Authorise(r) \/ AuthoriseRollback(r)
    BY <1>2, <2>0, <2>4 DEF Authorise, AuthoriseRollback, Allocate, Jobs
  <2>5. CASE Scan(r) \/ Recheck(r) \/ SyncDone(r)
    BY <1>2, <2>0, <2>5 DEF Scan, Recheck, SyncDone, Jobs
  <2>6. CASE SyncFails(r) \/ VerifyDone(r) \/ VerifyFails(r)
    BY <1>2, <2>0, <2>6 DEF SyncFails, VerifyDone, VerifyFails, Failed, Jobs
  <2>7. ASSUME NEW s \in Sides, SyncSide(r, s) \/ VerifySide(r, s)
        PROVE  job'[q].pc # "publish"
    BY <1>2, <2>0, <2>7 DEF SyncSide, VerifySide, At, Jobs
  <2> QED BY <1>2, <2>3, <2>4, <2>5, <2>6, <2>7 DEF Step
<1>3. ASSUME NEW r \in Runs, Step(r), r # q PROVE job'[q] = job[q]
  BY <1>1, <1>3
  DEF Step, BuildProjection, PlanFails, PublishPlan, Authorise, AuthoriseRollback, Allocate,
      Scan, Capture, Abort, Recheck, SyncSide, VerifySide, SyncDone, SyncFails, VerifyDone,
      VerifyFails, Failed, Record, Return, Become, Goto
<1>4. ASSUME NEW r \in Runs, Start(r) \/ Kill(r) PROVE job'[q].pc # "publish" \/ job'[q] = job[q]
  <2>1. ASSUME NEW j, Become(r, j), j.pc # "publish"
        PROVE  job'[q].pc # "publish" \/ job'[q] = job[q]
    BY <1>1, <2>1 DEF Become
  <2>2. CASE Kill(r)
    BY <2>1, <2>2 DEF Kill, Return, Idle
  <2>3. ASSUME NEW p \in PlanIds, PlanLoad(r, p)
        PROVE  job'[q].pc # "publish" \/ job'[q] = job[q]
    BY <2>1, <2>3 DEF PlanLoad, Idle
  <2>4. ASSUME NEW p \in PlanIds, ApplyLoad(r, p)
        PROVE  job'[q].pc # "publish" \/ job'[q] = job[q]
    BY <2>1, <2>4 DEF ApplyLoad, Idle
  <2>5. ASSUME NEW p \in PlanIds, NEW d \in Deps, RollbackLoad(r, d, p)
        PROVE  job'[q].pc # "publish" \/ job'[q] = job[q]
    BY <2>1, <2>5 DEF RollbackLoad, Idle
  <2> QED BY <1>4, <2>2, <2>3, <2>4, <2>5 DEF Start
<1>5. Operator \/ Environment \/ UNCHANGED vars => UNCHANGED job
  BY DEF Operator, Decide, CreateRollbackPlan, Environment, EditRegistry, EditAuthority, Tick,
         StragglerEnds, StragglerWrites, vars
<1> QED BY <1>2, <1>3, <1>4, <1>5 DEF Next

\* A projection appears by being built, or for a rollback plan; else it goes.
LEMMA ProjectionsMove ==
    ASSUME IInv, [Next]_vars, NEW p \in PlanIds, projections'[p] # None
    PROVE  \/ projections'[p] = projections[p]
           \/ \E r \in Runs : BuildProjection(r) /\ job[r].plan = p
           \/ \E d \in Deps : CreateRollbackPlan(d, p)
<1>1. projections \in [PlanIds -> Projections \cup {None}]
  BY DEF IInv, Typed, DiskTyped
<1>2. ASSUME NEW r \in Runs, BuildProjection(r), job[r].plan # p PROVE projections'[p] = projections[p]
  BY <1>1, <1>2 DEF BuildProjection
<1>3. ASSUME NEW r \in Runs, PlanFails(r) \/ PublishPlan(r) PROVE projections'[p] = projections[p]
  BY <1>1, <1>3 DEF PlanFails, PublishPlan
<1>4. ASSUME NEW r \in Runs, Step(r), ~BuildProjection(r), ~PlanFails(r), ~PublishPlan(r)
      PROVE  UNCHANGED projections
  BY <1>4 DEF Step, Authorise, AuthoriseRollback, Scan, Capture, Abort, Recheck, SyncSide,
              VerifySide, SyncDone, SyncFails, VerifyDone, VerifyFails, Record, disk
<1>5. ASSUME NEW r \in Runs, Start(r) \/ Kill(r) PROVE UNCHANGED projections
  BY <1>5 DEF Start, PlanLoad, ApplyLoad, RollbackLoad, Kill, disk
<1>6. ASSUME NEW q \in PlanIds, NEW d \in Deps, CreateRollbackPlan(d, q), q # p
      PROVE  projections'[p] = projections[p]
  BY <1>1, <1>6 DEF CreateRollbackPlan
<1>7. ASSUME NEW q \in PlanIds, NEW decision, Decide(q, decision) PROVE UNCHANGED projections
  BY <1>7 DEF Decide
<1>8. Environment \/ UNCHANGED vars => UNCHANGED projections
  BY DEF Environment, EditRegistry, EditAuthority, Tick, StragglerEnds, StragglerWrites, vars, disk
<1> QED BY <1>2, <1>3, <1>4, <1>5, <1>6, <1>7, <1>8 DEF Next, Operator

LEMMA NextPInv == ASSUME IInv, PInv, [Next]_vars PROVE PInv'
<1>1. ASSUME NEW r \in Runs, BuildProjection(r)
      PROVE  /\ projections'[job[r].plan].version = job[r].version
             /\ job'[r].plan = job[r].plan /\ job'[r].version = job[r].version
             /\ Planning(job[r]) /\ UNCHANGED plans
  BY <1>1, PlannerAlone
  DEF BuildProjection, Goto, Become, At, Planning, IInv, JobsOK, Jobs, Typed, DiskTyped
<1>2. BuiltFromLoaded'
  <2> SUFFICES ASSUME NEW q \in Runs, job'[q].pc = "publish", projections'[job'[q].plan] # None
               PROVE  projections'[job'[q].plan].version = job'[q].version
    BY DEF BuiltFromLoaded, At
  <2>1. CASE BuildProjection(q)
    BY <1>1, <2>1
  <2>2. CASE ~BuildProjection(q)
    <3>1. job'[q] = job[q] /\ At(q, "publish") /\ Planning(job[q]) /\ job[q].plan \in PlanIds
      BY <2>2, PublishersMove, PlannerAlone DEF At, Planning
    <3>2. ASSUME NEW r \in Runs, BuildProjection(r), job[r].plan = job[q].plan PROVE FALSE
      BY <1>1, <2>2, <3>1, <3>2, PlannerAlone
    <3>3. ASSUME NEW d \in Deps, CreateRollbackPlan(d, job[q].plan) PROVE FALSE
      BY <3>3 DEF CreateRollbackPlan, Fresh
    <3>4. projections'[job[q].plan] = projections[job[q].plan]
      BY <3>1, <3>2, <3>3, ProjectionsMove
    <3> QED BY <3>1, <3>4 DEF PInv, BuiltFromLoaded
  <2> QED BY <2>1, <2>2
<1>3. ProjectionMatchesPlan'
  <2> SUFFICES ASSUME NEW p \in PlanIds, plans'[p] # None, projections'[p] # None,
                      plans'[p].op = "deploy"
               PROVE  ChangesOf[projections'[p].version] = ChangesOf[plans'[p].source]
    BY DEF ProjectionMatchesPlan
  <2>1. ASSUME NEW r \in Runs, BuildProjection(r), job[r].plan = p PROVE FALSE
    BY <1>1, <2>1, PlannerAlone
  <2>2. ASSUME NEW d \in Deps, CreateRollbackPlan(d, p) PROVE FALSE
    <3>1. plans'[p] = plans[p] \/ plans'[p].op = "rollback"
      BY <2>2 DEF CreateRollbackPlan, IInv, Typed, DiskTyped
    <3> QED BY <2>2, <3>1 DEF CreateRollbackPlan, Fresh
  <2>3. projections'[p] = projections[p]
    BY <2>1, <2>2, ProjectionsMove
  <2>4. CASE plans'[p] = plans[p]
    BY <2>3, <2>4 DEF PInv, ProjectionMatchesPlan
  <2>5. ASSUME NEW r \in Runs, PublishPlan(r), plans'[p] # plans[p]
        PROVE  ChangesOf[projections'[p].version] = ChangesOf[plans'[p].source]
    <3>1. /\ plans' = [plans EXCEPT ![job[r].plan] = DeployPlan]
          /\ ChangesOf[registry] = ChangesOf[job[r].version] /\ At(r, "publish")
      BY <2>5 DEF PublishPlan
    <3>2. job[r].plan = p /\ plans'[p] = DeployPlan
      BY <2>5, <3>1 DEF IInv, Typed, DiskTyped
    <3>3. projections[p].version = job[r].version
      BY <2>3, <3>1, <3>2 DEF PInv, BuiltFromLoaded
    <3> QED BY <2>3, <3>1, <3>2, <3>3 DEF DeployPlan
  <2>6. ASSUME NEW q \in PlanIds, NEW d \in Deps, CreateRollbackPlan(d, q), q # p
        PROVE  plans'[p] = plans[p]
    BY <2>6 DEF CreateRollbackPlan, IInv, Typed, DiskTyped
  <2> QED BY <2>2, <2>4, <2>5, <2>6, PlansMove
<1> QED BY <1>2, <1>3 DEF PInv

(* A plan that can be applied has the projection of a registry version     *)
(* that asked for the same changes, although plan reads the registry twice *)
(* while its owners edit it.                                               *)
THEOREM ProjectionsMatch == Spec => []ProjectionMatchesPlan
<1>1. Init => IInv /\ PInv
  BY InitIInv, InitPInv
<1>2. IInv /\ PInv /\ [Next]_vars => (IInv /\ PInv)'
  BY NextIInv, NextPInv
<1>3. PInv => ProjectionMatchesPlan
  BY DEF PInv
<1> QED BY <1>1, <1>2, <1>3, PTL DEF Spec

=============================================================================
