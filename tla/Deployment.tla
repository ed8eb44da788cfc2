----------------------------- MODULE Deployment -----------------------------
(***************************************************************************)
(* The life of a plan: skillctl plan, approve, apply and rollback as the   *)
(* steps of concurrent CLI processes over the state they share -- the      *)
(* governance registry, the authority's skill files, the plans, approvals  *)
(* and projections on disk, the runtime snapshots, the deployment ledger   *)
(* and the two runtime trees of a target that Skillshare writes.           *)
(*                                                                         *)
(* One target is modelled; distinct targets have distinct runtime roots.   *)
(* The contents of a tree are one value.  Publishing a record and          *)
(* appending to the ledger are single steps with the outcomes that         *)
(* RecordStore and DeploymentLedger give them.                             *)
(***************************************************************************)
EXTENDS Integers, Sequences, FiniteSets

CONSTANTS Runs,        \* slots for concurrent skillctl processes
          PlanIds,     \* plan ids
          Versions,    \* states of the governance registry, as the digests see them
          ChangesOf,   \* the changes that a registry version asks for
          Malformed,   \* versions with a selector that only desired_assets refuses
          Contents,    \* contents a tree can have
          Bare,        \* what the trees hold before anything was deployed
          Mixed,       \* what an interrupted sync leaves in a tree
          None,        \* "not there"
          Ttl,         \* lifetime of a plan
          MaxTime, MaxDeps, MaxEdits, MaxKills   \* bounds

ASSUME ValuesAssumption ==
    /\ Bare \in Contents /\ Mixed \in Contents
    /\ None \notin Contents \cup Versions \cup PlanIds
    /\ Versions \cap Contents = {}
    /\ ChangesOf \in [Versions -> Versions]
    /\ Malformed \subseteq Versions
ASSUME BoundsAssumption ==
    /\ Ttl \in Nat \ {0}
    /\ MaxTime \in Nat /\ MaxDeps \in Nat /\ MaxEdits \in Nat /\ MaxKills \in Nat

VARIABLES registry,    \* the version that load_snapshot reads
          authority,   \* the skill's files under the authority root
          now,         \* the clock
          plans,       \* plans[p]: the plan record, or None
          approvals,   \* approvals[p]: the approval record, or None
          projections, \* projections[p]: the projection of plan p, or None
          snapshots,   \* snapshots[d]: the runtime snapshot of deployment d, or None
          trees,       \* trees[s]: what the runtime tree of side s holds
          ledger, torn,\* the entries of the deployment ledger; does a cut-off line follow?
          job,         \* job[r]: the command that run r executes
          stragglers,  \* Skillshare commands that outlived the process that ran them
          nextDep, edits, kills,
          \* history, which no step reads:
          begun,       \* begun[d]: what was true when deployment d's sync began, or None
          writer,      \* writer[s]: the last deployment that wrote the tree of side s
          unrecorded,  \* deployments that began and whose outcome was never recorded
          overlapped   \* deployments that ran while another one was under way

disk == <<plans, approvals, projections, snapshots>>
history == <<begun, writer, unrecorded, overlapped>>
bounds == <<nextDep, edits, kills>>
world == <<registry, authority, now>>
log == <<ledger, torn>>
vars == <<world, disk, trees, log, job, stragglers, bounds, history>>

Sides == {"a", "b"}          \* target-a and target-b, in the order capture scans them
Deps == 1..MaxDeps
NoDep == 0

Plans == [op : {"deploy", "rollback"}, source : Versions \cup Contents,
          desired : Versions \cup Contents, parent : 0..MaxDeps, expires : Nat]
Approvals == [decision : {"approved", "rejected"}, plan : Plans]
\* "version" is history: the registry version the projection was built from.
Projections == [content : Contents, version : Versions \cup {None}]
\* "at" is history: the time at which the snapshot was taken.
Snapshots == [content : Contents, at : Nat]
EntryResults == {"succeeded", "failed", "rolled_back"}
Entries == [dep : Deps, plan : PlanIds, parent : 0..MaxDeps, result : EntryResults]
Begun == [plan : PlanIds, cmd : {"deploy", "rollback"}, pre : [Sides -> Contents],
          checked : Nat, version : Versions]

Pcs == {"idle", "build", "publish", "authorise", "scan", "capture", "recheck",
        "sync", "verify", "record"}
Jobs == [pc : Pcs, cmd : {"none", "plan", "deploy", "rollback"}, plan : PlanIds \cup {None},
         parent : 0..MaxDeps, version : Versions \cup {None}, dep : 0..MaxDeps,
         seen : Contents \cup {None}, todo : SUBSET Sides, result : EntryResults \cup {"none"}]

Idle == [pc |-> "idle", cmd |-> "none", plan |-> None, parent |-> NoDep, version |-> None,
         dep |-> NoDep, seen |-> None, todo |-> {}, result |-> "none"]

Stragglers == [dep : Deps, plan : PlanIds, todo : SUBSET Sides]

ASSUME NoneIsNoRecord == None \notin Plans \cup Approvals \cup Projections \cup Snapshots \cup Begun

TypeOK ==
    /\ registry \in Versions /\ authority \in Contents /\ now \in 0..MaxTime
    /\ plans \in [PlanIds -> Plans \cup {None}]
    /\ approvals \in [PlanIds -> Approvals \cup {None}]
    /\ projections \in [PlanIds -> Projections \cup {None}]
    /\ snapshots \in [Deps -> Snapshots \cup {None}]
    /\ trees \in [Sides -> Contents]
    /\ ledger \in Seq(Entries) /\ torn \in BOOLEAN
    /\ job \in [Runs -> Jobs]
    /\ stragglers \in SUBSET Stragglers
    /\ nextDep \in 1..(MaxDeps + 1) /\ edits \in 0..MaxEdits /\ kills \in 0..MaxKills
    /\ begun \in [Deps -> Begun \cup {None}]
    /\ writer \in [Sides -> 0..MaxDeps]
    /\ unrecorded \in SUBSET Deps /\ overlapped \in SUBSET Deps

Init ==
    /\ registry \in Versions /\ authority \in Contents \ {Bare, Mixed} /\ now = 0
    /\ plans = [p \in PlanIds |-> None]
    /\ approvals = [p \in PlanIds |-> None]
    /\ projections = [p \in PlanIds |-> None]
    /\ snapshots = [d \in Deps |-> None]
    /\ trees = [s \in Sides |-> Bare]
    /\ ledger = <<>> /\ torn = FALSE
    /\ job = [r \in Runs |-> Idle]
    /\ stragglers = {}
    /\ nextDep = 1 /\ edits = 0 /\ kills = 0
    /\ begun = [d \in Deps |-> None]
    /\ writer = [s \in Sides |-> NoDep]
    /\ unrecorded = {} /\ overlapped = {}

At(r, pc) == job[r].pc = pc
Become(r, j) == job' = [job EXCEPT ![r] = j]
Goto(r, pc) == Become(r, [job[r] EXCEPT !.pc = pc])
Return(r) == Become(r, Idle)
Content(p) == projections[p].content

----------------------------------------------------------------------------
(* The environment                                                         *)

EditRegistry(v) ==
    /\ edits < MaxEdits /\ v # registry
    /\ registry' = v /\ edits' = edits + 1
    /\ UNCHANGED <<authority, now, disk, trees, log, job, stragglers, nextDep, kills, history>>

EditAuthority(c) ==
    /\ edits < MaxEdits /\ c \notin {authority, Bare, Mixed}
    /\ authority' = c /\ edits' = edits + 1
    /\ UNCHANGED <<registry, now, disk, trees, log, job, stragglers, nextDep, kills, history>>

Tick ==
    /\ now < MaxTime
    /\ now' = now + 1
    /\ UNCHANGED <<registry, authority, disk, trees, log, job, stragglers, bounds, history>>

----------------------------------------------------------------------------
(* skillctl plan: GovernanceRuntime.create_plan                            *)

\* plan-<uuid4>: an id nobody has used.
Fresh(p) ==
    /\ plans[p] = None /\ projections[p] = None
    /\ \A r \in Runs : job[r].plan # p

\* First load_snapshot: it decides which projection is built.
PlanLoad(r, p) ==
    /\ At(r, "idle") /\ Fresh(p)
    /\ Become(r, [Idle EXCEPT !.pc = "build", !.cmd = "plan", !.plan = p, !.version = registry])
    /\ UNCHANGED <<world, disk, trees, log, stragglers, bounds, history>>

\* ProjectionBuilder.build copies the authority's files; ProjectionLocator.save.
BuildProjection(r) ==
    /\ At(r, "build") /\ job[r].version \notin Malformed
    /\ projections' = [projections EXCEPT ![job[r].plan] =
                          [content |-> authority, version |-> job[r].version]]
    /\ Goto(r, "publish")
    /\ UNCHANGED <<world, plans, approvals, snapshots, trees, log, stragglers, bounds, history>>

\* Any error, the dry run's included: the projection is removed again.
PlanFails(r) ==
    /\ At(r, "build") \/ At(r, "publish")
    /\ projections' = [projections EXCEPT ![job[r].plan] = None]
    /\ Return(r)
    /\ UNCHANGED <<world, plans, approvals, snapshots, trees, log, stragglers, bounds, history>>

DeployPlan == [op |-> "deploy", source |-> registry, desired |-> registry,
               parent |-> NoDep, expires |-> now + Ttl]

\* Mutant: the changes of the dry run are not compared.
PublishPlanUnchecked(r) ==
    /\ At(r, "publish") /\ registry \notin Malformed
    /\ plans' = [plans EXCEPT ![job[r].plan] = DeployPlan]
    /\ \/ UNCHANGED projections
       \/ projections' = [projections EXCEPT ![job[r].plan] = None]
    /\ Return(r)
    /\ UNCHANGED <<world, approvals, snapshots, trees, log, stragglers, bounds, history>>

\* Second load_snapshot, in PlanService.create: the changes must be those the
\* dry run was made for.  create_plan can report a failure after the record
\* was linked; the projection is removed all the same.
PublishPlan(r) ==
    /\ At(r, "publish") /\ registry \notin Malformed
    /\ ChangesOf[registry] = ChangesOf[job[r].version]
    /\ plans' = [plans EXCEPT ![job[r].plan] = DeployPlan]
    /\ \/ UNCHANGED projections
       \/ projections' = [projections EXCEPT ![job[r].plan] = None]
    /\ Return(r)
    /\ UNCHANGED <<world, approvals, snapshots, trees, log, stragglers, bounds, history>>

----------------------------------------------------------------------------
(* skillctl approve and the Portal's decision: ApprovalService.record      *)

\* The time of the decision was read before the record is written.  A second
\* decision finds the name taken.
Decide(p, decision) ==
    /\ plans[p] # None /\ approvals[p] = None
    /\ \E decided \in 0..now : decided < plans[p].expires
    /\ approvals' = [approvals EXCEPT ![p] = [decision |-> decision, plan |-> plans[p]]]
    /\ UNCHANGED <<world, plans, projections, snapshots, trees, log, job, stragglers, bounds,
                   history>>

----------------------------------------------------------------------------
(* skillctl apply: DeploymentService.apply up to the adapter               *)

\* get_plan and load_snapshot.
ApplyLoad(r, p) ==
    /\ At(r, "idle") /\ plans[p] # None
    /\ Become(r, [Idle EXCEPT !.pc = "authorise", !.cmd = "deploy", !.plan = p,
                             !.version = registry])
    /\ UNCHANGED <<world, disk, trees, log, stragglers, bounds, history>>

\* Mutant: any recorded decision counts as an approval.
Decided(p) == approvals[p] # None /\ approvals[p].plan = plans[p]

\* get_approval and the first look at the clock.
Approved(p) ==
    /\ approvals[p] # None
    /\ approvals[p].decision = "approved"
    /\ approvals[p].plan = plans[p]

Unexpired(p) == now < plans[p].expires

\* _validate_fresh_state, against the registry version this run loaded.
FreshState(p, version) ==
    /\ version \notin Malformed
    /\ plans[p].source = version /\ plans[p].desired = version

\* A new deployment id, which makes the run one that is under way.
UnderWay == {job[q].dep : q \in Runs} \cup {x.dep : x \in stragglers}

Allocate(r, pc) ==
    /\ nextDep \in Deps
    /\ nextDep' = nextDep + 1
    /\ Become(r, [job[r] EXCEPT !.pc = pc, !.dep = nextDep])
    /\ overlapped' = overlapped \cup
          (IF UnderWay \ {NoDep} = {} THEN {} ELSE (UnderWay \ {NoDep}) \cup {nextDep})

Authorise(r) ==
    LET p == job[r].plan IN
    /\ At(r, "authorise") /\ job[r].cmd = "deploy"
    /\ Approved(p) /\ Unexpired(p)
    /\ projections[p] # None
    /\ FreshState(p, job[r].version)
    /\ Allocate(r, "scan")
    /\ UNCHANGED <<world, disk, trees, log, stragglers, edits, kills, begun, writer, unrecorded>>

\* FileRuntimeSnapshotStore.capture scans target-a, then target-b, and keeps
\* the tree if they agree.
Scan(r) ==
    /\ At(r, "scan")
    /\ Become(r, [job[r] EXCEPT !.pc = "capture", !.seen = trees["a"]])
    /\ UNCHANGED <<world, disk, trees, log, stragglers, bounds, history>>

\* Mutant: the two trees are not compared.
CaptureFirstTree(r) ==
    /\ At(r, "capture")
    /\ snapshots' = [snapshots EXCEPT ![job[r].dep] = [content |-> job[r].seen, at |-> now]]
    /\ \/ Goto(r, "recheck")
       \/ Return(r)
    /\ UNCHANGED <<world, plans, approvals, projections, trees, log, stragglers, bounds, history>>

\* The fsync of the directory can fail after the snapshot was renamed into
\* place: then it stays, and the run ends.
Capture(r) ==
    /\ At(r, "capture")
    /\ trees["b"] = job[r].seen
    /\ snapshots' = [snapshots EXCEPT ![job[r].dep] = [content |-> job[r].seen, at |-> now]]
    /\ \/ Goto(r, "recheck")
       \/ Return(r)
    /\ UNCHANGED <<world, plans, approvals, projections, trees, log, stragglers, bounds, history>>

\* Whatever is refused, or fails, before the adapter is called ends the run
\* and leaves nothing behind.
Abort(r) ==
    /\ job[r].pc \in {"authorise", "scan", "capture", "recheck"}
    /\ Return(r)
    /\ UNCHANGED <<world, disk, trees, log, stragglers, bounds, history>>

\* Mutant: the clock is not looked at again after the capture.
RecheckSkipped(r) ==
    LET j == job[r] IN
    /\ At(r, "recheck")
    /\ Become(r, [job[r] EXCEPT !.pc = "sync", !.todo = Sides])
    /\ begun' = [begun EXCEPT ![j.dep] =
          [plan |-> j.plan, cmd |-> j.cmd, pre |-> trees, checked |-> now, version |-> j.version]]
    /\ UNCHANGED <<world, disk, trees, log, stragglers, bounds, writer, unrecorded, overlapped>>

\* The second look at the clock; the adapter's command starts.
Recheck(r) ==
    LET j == job[r] IN
    /\ At(r, "recheck") /\ Unexpired(j.plan)
    /\ Become(r, [job[r] EXCEPT !.pc = "sync", !.todo = Sides])
    /\ begun' = [begun EXCEPT ![j.dep] =
          [plan |-> j.plan, cmd |-> j.cmd, pre |-> trees, checked |-> now, version |-> j.version]]
    /\ UNCHANGED <<world, disk, trees, log, stragglers, bounds, writer, unrecorded, overlapped>>

----------------------------------------------------------------------------
(* The adapter: one Skillshare sync over both trees, then a diff           *)

Write(s, c, d) == trees' = [trees EXCEPT ![s] = c] /\ writer' = [writer EXCEPT ![s] = d]

SyncSide(r, s) ==
    LET j == job[r] IN
    /\ At(r, "sync") /\ s \in j.todo
    /\ Write(s, Content(j.plan), j.dep)
    /\ Become(r, [job[r] EXCEPT !.todo = @ \ {s}])
    /\ UNCHANGED <<world, disk, log, stragglers, bounds, begun, unrecorded, overlapped>>

\* Exit status 0 and JSON on its output: nothing about the trees follows yet.
SyncDone(r) ==
    /\ At(r, "sync")
    /\ Become(r, [job[r] EXCEPT !.pc = "verify", !.todo = Sides])
    /\ UNCHANGED <<world, disk, trees, log, stragglers, bounds, history>>

Failed(r) == Become(r, [job[r] EXCEPT !.pc = "record", !.todo = {}, !.result = "failed"])

\* The command fails, or runs into the 30 s timeout and is killed: both trees,
\* one or none may have been written, one of them in part.
SyncFails(r) ==
    /\ At(r, "sync")
    /\ Failed(r)
    /\ \/ UNCHANGED <<trees, writer>>
       \/ \E s \in job[r].todo : Write(s, Mixed, job[r].dep)
    /\ UNCHANGED <<world, disk, log, stragglers, bounds, begun, unrecorded, overlapped>>

\* adapter.verify compares each tree with the projection.
VerifySide(r, s) ==
    /\ At(r, "verify") /\ s \in job[r].todo
    /\ trees[s] = Content(job[r].plan)
    /\ Become(r, [job[r] EXCEPT !.todo = @ \ {s}])
    /\ UNCHANGED <<world, disk, trees, log, stragglers, bounds, history>>

\* Mutant: one tree that agrees is enough.
VerifyDoneEarly(r) ==
    /\ At(r, "verify") /\ job[r].todo # Sides
    /\ Become(r, [job[r] EXCEPT !.pc = "record",
                  !.result = IF job[r].cmd = "deploy" THEN "succeeded" ELSE "rolled_back"])
    /\ UNCHANGED <<world, disk, trees, log, stragglers, bounds, history>>

VerifyDone(r) ==
    /\ At(r, "verify") /\ job[r].todo = {}
    /\ Become(r, [job[r] EXCEPT !.pc = "record",
                  !.result = IF job[r].cmd = "deploy" THEN "succeeded" ELSE "rolled_back"])
    /\ UNCHANGED <<world, disk, trees, log, stragglers, bounds, history>>

\* Mutant: the verification is not covered by the failure branch.
VerifyRaises(r) ==
    /\ At(r, "verify")
    /\ Return(r)
    /\ UNCHANGED <<world, disk, trees, log, stragglers, bounds, history>>

\* A difference, or a diff that could not be made.
VerifyFails(r) ==
    /\ At(r, "verify")
    /\ Failed(r)
    /\ UNCHANGED <<world, disk, trees, log, stragglers, bounds, history>>

----------------------------------------------------------------------------
(* The ledger                                                              *)

NewEntry(r) == [dep |-> job[r].dep, plan |-> job[r].plan, parent |-> plans[job[r].plan].parent,
                result |-> job[r].result]

\* _entry asks desired_assets, whatever the command: on a registry that a
\* rollback could load it may raise, and nothing is appended.
EntryIsMade(r) == job[r].version \notin Malformed

Recorded == {ledger[i].dep : i \in 1..Len(ledger)}

\* append reads the whole file before it writes: it adds nothing to one that
\* was cut short, and no second entry of a deployment.
IsWritten(r) == EntryIsMade(r) /\ ~torn /\ job[r].dep \notin Recorded

\* DeploymentLedger.append: the entry is stored (whether or not the caller is
\* told so), or it is not, and a write that is cut short closes the ledger.
Record(r) ==
    /\ At(r, "record")
    /\ Return(r)
    /\ \/ /\ IsWritten(r)
          /\ ledger' = Append(ledger, NewEntry(r))
          /\ UNCHANGED <<torn, unrecorded>>
       \/ /\ torn' \in {torn, torn \/ IsWritten(r)}
          /\ unrecorded' = unrecorded \cup {job[r].dep}
          /\ UNCHANGED ledger
    /\ UNCHANGED <<world, disk, trees, stragglers, bounds, begun, writer, overlapped>>

\* Mutant: only deployments count, rollbacks do not.
LatestDeployed ==
    LET successes == {i \in 1..Len(ledger) : ledger[i].result = "succeeded"}
    IN IF successes = {} THEN 0 ELSE CHOOSE i \in successes : \A k \in successes : k <= i

\* GovernanceReadService._latest_successful_deployments: the position of the
\* entry that status and drift compare the runtime with, 0 if there is none.
LatestSuccessful ==
    LET successes == {i \in 1..Len(ledger) : ledger[i].result \in {"succeeded", "rolled_back"}}
    IN IF successes = {} THEN 0 ELSE CHOOSE i \in successes : \A k \in successes : k <= i

----------------------------------------------------------------------------
(* Rollback                                                                *)

\* _deployment: what read_all finds under an id.
EntryOf(d) == ledger[CHOOSE i \in 1..Len(ledger) : ledger[i].dep = d]

\* Mutant: the parent's result is not looked at.
CanRollBackAny(d) == EntryOf(d).parent = NoDep

\* Only a deployment that succeeded, and is not itself a rollback, has a
\* rollback plan.
CanRollBack(d) == EntryOf(d).result = "succeeded" /\ EntryOf(d).parent = NoDep

\* Mutant: the rollback is given the parent's projection, not the snapshot.
CreateRollbackPlanForward(d, p) ==
    /\ ~torn /\ d \in Recorded /\ CanRollBack(d)
    /\ Fresh(p) /\ snapshots[d] # None
    /\ projections' = [projections EXCEPT ![p] =
          [content |-> Content(EntryOf(d).plan), version |-> None]]
    /\ plans' = [plans EXCEPT ![p] =
          [op |-> "rollback", source |-> plans[EntryOf(d).plan].desired,
           desired |-> Content(EntryOf(d).plan), parent |-> d, expires |-> now + Ttl]]
    /\ UNCHANGED <<world, approvals, snapshots, trees, log, job, stragglers, bounds, history>>

\* DeploymentService.create_rollback_plan: the projection holds the runtime
\* snapshot of the deployment.  If the plan cannot be published, or is and the
\* call fails all the same, the projection stays.
CreateRollbackPlan(d, p) ==
    /\ ~torn /\ d \in Recorded /\ CanRollBack(d)
    /\ Fresh(p) /\ snapshots[d] # None
    /\ projections' = [projections EXCEPT ![p] =
          [content |-> snapshots[d].content, version |-> None]]
    /\ \/ plans' = [plans EXCEPT ![p] =
              [op |-> "rollback", source |-> plans[EntryOf(d).plan].desired,
               desired |-> snapshots[d].content, parent |-> d, expires |-> now + Ttl]]
       \/ UNCHANGED plans
    /\ UNCHANGED <<world, approvals, snapshots, trees, log, job, stragglers, bounds, history>>

\* DeploymentService.rollback reads the ledger, the plan and the registry.
RollbackLoad(r, d, p) ==
    /\ At(r, "idle") /\ ~torn /\ d \in Recorded /\ plans[p] # None
    /\ Become(r, [Idle EXCEPT !.pc = "authorise", !.cmd = "rollback", !.plan = p,
                             !.parent = d, !.version = registry])
    /\ UNCHANGED <<world, disk, trees, log, stragglers, bounds, history>>

\* _validate_rollback_plan: the plan is the rollback of this very deployment.
RollbackOf(p, d) ==
    /\ plans[p].op = "rollback" /\ plans[p].parent = d
    /\ plans[p].source = plans[EntryOf(d).plan].desired
    /\ plans[p].desired = Content(p)

AuthoriseRollback(r) ==
    LET p == job[r].plan IN
    /\ At(r, "authorise") /\ job[r].cmd = "rollback"
    /\ Approved(p) /\ Unexpired(p)
    /\ projections[p] # None
    /\ RollbackOf(p, job[r].parent)
    /\ Allocate(r, "recheck")
    /\ UNCHANGED <<world, disk, trees, log, stragglers, edits, kills, begun, writer, unrecorded>>

----------------------------------------------------------------------------
(* Processes that die                                                      *)

\* A run is killed.  The Skillshare command it waits for may go on alone; an
\* append may leave part of its line, or all of it; nobody writes the outcome
\* of a deployment that had begun.
Kill(r) ==
    LET j == job[r] IN
    /\ ~At(r, "idle") /\ kills < MaxKills
    /\ kills' = kills + 1
    /\ Return(r)
    /\ \/ UNCHANGED stragglers
       \/ /\ At(r, "sync")
          /\ stragglers' = stragglers \cup {[dep |-> j.dep, plan |-> j.plan, todo |-> j.todo]}
    /\ \/ /\ At(r, "record") /\ IsWritten(r)
          /\ ledger' = Append(ledger, NewEntry(r))
          /\ UNCHANGED <<torn, unrecorded>>
       \/ /\ torn' \in {torn, torn \/ (At(r, "record") /\ IsWritten(r))}
          /\ unrecorded' = unrecorded \cup
                (IF j.pc \in {"sync", "verify", "record"} THEN {j.dep} ELSE {})
          /\ UNCHANGED ledger
    /\ UNCHANGED <<world, disk, trees, nextDep, edits, begun, writer, overlapped>>

StragglerWrites(x, s) ==
    /\ s \in x.todo
    /\ Write(s, Content(x.plan), x.dep)
    /\ stragglers' = (stragglers \ {x}) \cup {[x EXCEPT !.todo = @ \ {s}]}
    /\ UNCHANGED <<world, disk, log, job, bounds, begun, unrecorded, overlapped>>

StragglerEnds(x) ==
    /\ stragglers' = stragglers \ {x}
    /\ UNCHANGED <<world, disk, trees, log, job, bounds, history>>

----------------------------------------------------------------------------

Step(r) ==
    \/ BuildProjection(r) \/ PlanFails(r) \/ PublishPlan(r)
    \/ Authorise(r) \/ AuthoriseRollback(r)
    \/ Scan(r) \/ Capture(r) \/ Abort(r) \/ Recheck(r)
    \/ \E s \in Sides : SyncSide(r, s) \/ VerifySide(r, s)
    \/ SyncDone(r) \/ SyncFails(r) \/ VerifyDone(r) \/ VerifyFails(r)
    \/ Record(r)

Start(r) ==
    \E p \in PlanIds :
        \/ PlanLoad(r, p) \/ ApplyLoad(r, p)
        \/ \E d \in Deps : RollbackLoad(r, d, p)

Operator ==
    \E p \in PlanIds :
        \/ \E decision \in {"approved", "rejected"} : Decide(p, decision)
        \/ \E d \in Deps : CreateRollbackPlan(d, p)

Environment ==
    \/ \E v \in Versions : EditRegistry(v)
    \/ \E c \in Contents : EditAuthority(c)
    \/ Tick
    \/ \E x \in stragglers : StragglerEnds(x) \/ \E s \in Sides : StragglerWrites(x, s)

Next == Operator \/ Environment \/ \E r \in Runs : Start(r) \/ Step(r) \/ Kill(r)

Spec == Init /\ [][Next]_vars

\* A run that was not killed goes on: every wait in it is bounded, the adapter's
\* commands by the runner's timeout.
FairSpec == Spec /\ \A r \in Runs : WF_vars(Step(r))

----------------------------------------------------------------------------
(* Properties                                                              *)

Begins(d) == begun[d] # None

(* The runtime is changed only under a recorded approval of exactly the    *)
(* plan that is carried out, for the operation the plan is for, before the *)
(* plan expired, and -- for a deployment -- while the registry that the    *)
(* run loaded was still the one the plan was made from.  This is what      *)
(* apply and rollback check one read at a time, long before the adapter    *)
(* starts, while other processes approve, edit and let time pass.          *)
AuthorisedMutation ==
    \A d \in Deps : Begins(d) =>
        LET b == begun[d]  p == b.plan IN
        /\ plans[p] # None /\ approvals[p] # None
        /\ approvals[p].decision = "approved" /\ approvals[p].plan = plans[p]
        /\ b.checked < plans[p].expires
        /\ plans[p].op = b.cmd
        /\ b.cmd = "deploy" => plans[p].desired = b.version

(* Nothing is deployed without a runtime snapshot to go back to, and the   *)
(* snapshot was complete before the plan expired: the slow capture cannot  *)
(* carry an apply past the plan's expiry.                                  *)
CapturedInTime ==
    \A d \in Deps : Begins(d) /\ plans[begun[d].plan].op = "deploy" =>
        snapshots[d] # None /\ snapshots[d].at < plans[begun[d].plan].expires

(* The snapshot of a deployment that ran alone is what both trees held     *)
(* when its sync began, whatever failed syncs and killed processes did     *)
(* before; in particular it never deploys over trees that differ.          *)
SnapshotIsPreimage ==
    \A d \in Deps : Begins(d) /\ plans[begun[d].plan].op = "deploy" /\ d \notin overlapped =>
        \A s \in Sides : snapshots[d] # None /\ snapshots[d].content = begun[d].pre[s]

(* After a rollback that was recorded as done, and until something else is *)
(* synced, both trees hold what they held before the deployment it rolls   *)
(* back -- neither ran beside another one.                                 *)
RollbackRestores ==
    \A i \in 1..Len(ledger) :
        LET e == ledger[i] IN
        /\ e.result = "rolled_back"
        /\ e.dep \notin overlapped /\ e.parent \notin overlapped
        /\ \A s \in Sides : writer[s] = e.dep
        => Begins(e.parent) /\ trees = begun[e.parent].pre

(* At rest, if the runtime is not what the latest successful deployment    *)
(* left there, the ledger tells: a later attempt is recorded as failed.    *)
(* Excepted are deployments that ran at the same time and those whose      *)
(* outcome could not be recorded; a status report that calls a target      *)
(* healthy or drifted rests on this.                                       *)
AtRest ==
    /\ \A r \in Runs : job[r].dep = NoDep
    /\ stragglers = {}

DriftExplained ==
    AtRest /\ overlapped = {} /\ unrecorded = {} =>
        LET i == LatestSuccessful
            expected == IF i = 0 THEN Bare ELSE Content(ledger[i].plan)
        IN \/ \A s \in Sides : trees[s] = expected
           \/ \E k \in (i + 1)..Len(ledger) : ledger[k].result = "failed"

(* Every entry is the only one of its deployment, and one that has a       *)
(* parent comes after the entry of a deployment that succeeded and is not  *)
(* itself a rollback.                                                      *)
RollbackLineage ==
    \A i \in 1..Len(ledger) :
        /\ \A k \in 1..Len(ledger) : ledger[k].dep = ledger[i].dep => k = i
        /\ ledger[i].parent # NoDep => \E k \in 1..(i - 1) :
              /\ ledger[k].dep = ledger[i].parent
              /\ ledger[k].result = "succeeded" /\ ledger[k].parent = NoDep

(* A plan that can be applied has the projection of a registry version     *)
(* that asked for the same changes, although the registry was read twice.  *)
ProjectionMatchesPlan ==
    \A p \in PlanIds :
        plans[p] # None /\ projections[p] # None /\ plans[p].op = "deploy" =>
            ChangesOf[projections[p].version] = ChangesOf[plans[p].source]

(* Who wrote a tree last is known to the ledger, also when deployments     *)
(* overlap: once its run is over that deployment has its entry, and the    *)
(* tree holds what the plan of the entry put there, unless the entry says  *)
(* that it failed. A tree that was written in part is never the work of a  *)
(* recorded success. Excepted are deployments whose outcome could not be   *)
(* recorded.                                                               *)
WritesAreAccounted ==
    \A s \in Sides :
        LET d == writer[s] IN
        d # NoDep /\ d \notin unrecorded /\ (\A r \in Runs : job[r].dep # d) =>
            \E i \in 1..Len(ledger) :
                /\ ledger[i].dep = d
                /\ ledger[i].result # "failed" => trees[s] = Content(ledger[i].plan)

(* Every deployment whose sync began gets its entry in the ledger, unless  *)
(* its process is killed, the ledger refuses the entry or, of a rollback,  *)
(* no entry can be made: no error of the adapter, the verification or the  *)
(* timeout leaves it out.                                                  *)
MutationIsAccounted ==
    \A d \in Deps : Begins(d) ~> (d \in Recorded \/ d \in unrecorded)

(* A rollback that was carried out and verified ends as a "rolled_back"     *)
(* entry (tests/test_service.py:452-455): nothing but the ledger itself    *)
(* keeps it out of the ledger.                                             *)
RollbackCanBeTold ==
    \A r \in Runs : At(r, "record") /\ job[r].result = "rolled_back" => EntryIsMade(r)

=============================================================================
