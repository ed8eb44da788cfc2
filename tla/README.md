# Formal models of skillctl, the skill governance control plane

TLA+ models of the parts of `skillctl` (`src/src/skillctl/`) whose correctness
depends on order, concurrency and failure, with TLC configurations that check
them on small instances and TLAPS proofs for every instance. Paths below are
relative to `src/src/skillctl/`.

## The system

`skillctl` decides which skills may be deployed to which agent runtimes. Owners
edit six governance documents (the *registry*). A *plan* fixes the digests of
the registry, the changes to make and the files to deploy (a *projection*). A
human *approves* or rejects the plan, `apply` carries it out through Skillshare
into the two runtime trees of a target, and the outcome is appended to a
hash-chained *ledger*. `rollback` is a plan of its own, made from the *runtime
snapshot* that `apply` took. There is no daemon: every CLI command is a process,
the Portal is a small web server, and they meet in the files under `state_root`.

| component | state | operations | interacts through |
|---|---|---|---|
| `repository.py` DocumentRepository | `plans/`, `approvals/`: immutable records | create/get/list plan, create/get approval, load_snapshot | called by all services; files shared by all processes |
| `ledger.py` DeploymentLedger | `deployment-ledger.jsonl` | append, read_all | flock between processes |
| `planner.py` PlanService | none (writes a plan) | create, calculate_changes | repository, adapter dry run |
| `approvals.py` ApprovalService | none (writes an approval) | record | repository; CLI and Portal race |
| `service.py` DeploymentService | none (ledger, snapshots, plans) | apply, create_rollback_plan, rollback | repository, ledger, adapter, stores |
| `bootstrap.py` GovernanceRuntime, ProjectionLocator, FileRuntimeSnapshotStore | `projections/`, `runtime-snapshots/` | create_plan, capture, rollback_projection | projection builder, services |
| `projection.py` ProjectionBuilder | one projection directory | build, validate | authority's skill files |
| `adapters/skillshare.py`, `runner.py` | the runtime trees (external) | preview, apply, verify | child process with a 30 s timeout |
| `read_service.py` | none | status, drift, health | ledger, registry, adapter |
| `runtime_inventory/` | `runtime-inventory.json` | discover, refresh, read | Portal requests |
| `web/security.py`, `web/routes.py` | in-memory tokens under a lock | issue, consume, decide, refresh | browser requests |
| `portal.py` | empty documents, `control-plane.yaml` | prepare_local_portal | documents that their owner writes |
| `web/readiness.py`, `web/presentation.py` | none | judge the gates' documents, build views | read service, inventory |
| `evidence.py`, `evidence_refs.py` | an evidence directory | record, resolve | child processes, files |
| `adapters/github.py` | none | remote checks | child process |
| `cli.py`, `models.py`, `config.py`, `canonical.py`, `redaction.py`, `errors.py`, `inventory.py` | none | parse, validate, print | |

### What is hard

* **Interleaving.** Two commands, or a command and the Portal, run on the same
  plan. `apply` checks plan, approval, clock and registry one read at a time and
  acts much later; two decisions race for one approval; appenders race for the
  ledger's head; `list_plans` scans a directory that others are writing.
* **Crashes.** A process dies between the runtime's change and the ledger's
  entry, between a link and the directory's fsync, in the middle of a line; its
  Skillshare child may live on. Power fails before bytes are on disk.
* **Partial failure.** A sync stops with one tree written, or one half-written;
  a record is published and its publisher is told that it was not; a line is
  written and its fsync fails.
* **Time.** A plan expires while its snapshot is being captured.
* **Long sequences.** A failed deployment, a rollback of it, a second rollback,
  a deployment over an interrupted one.

### What makes each part correct

* Records: whole or absent, written once, an acknowledged one for ever; a
  listing is the directory as it was at one moment, or an error.
* Ledger: one chain, no duplicate, acknowledged entries survive, every reader
  sees a prefix; no call hangs on the lock.
* Deployment: no mutation without an approval of that very plan, before its
  expiry, for the registry it was made from; the snapshot is the pre-image;
  rollback restores it; the ledger explains every deviation of the runtime, and
  knows who wrote each tree last; every begun deployment is accounted for.
* Inventory: a reader finds the last complete result, a reported success is kept,
  pages warn after a failure. Tokens: one use, before expiry, bounded memory; a
  decision of the Portal comes from a form used once and in time.
* Inventory of skills: the status of a skill is what its files say, however much of
  them the limits let a scan read.
* Status and drift: a report is about a success that is not older than the report,
  exact if nothing changes meanwhile, and says "drifted" only with a cause.
* Projections and snapshots: what verified is what the plan described; a snapshot
  whose capture returned stays; a rollback restores it or is refused.
* Portal start: documents that their owner wrote stay.
* Gates: a document passes only if a reader would say that it does.
* Planning: a plan, and an apply, answer to one state of the registry although its
  documents are read one by one.
* Evidence: a record is whole, final and never removed by another run; a failed run
  leaves nothing that a power failure does not bring back; a digest is of contents that the files had.

## Modules

| module | what it is |
|---|---|
| `WriteOnce` | abstract: a store of write-once records with acknowledgements |
| `RecordStore` | `_publish_exclusive_record` and `list_plans`, a system call per step; implements `WriteOnce` |
| `RecordStore_proofs` | TLAPS: types, invariants, refinement |
| `AppendOnlyLog` | abstract: a log that only grows, until a write is cut short |
| `DeploymentLedger` | `append` and `read_all` under flock; implements `AppendOnlyLog` |
| `Deployment` | plan, approve, apply, rollback and the adapter, as interleaved processes over one target |
| `DeploymentLedger_proofs` | TLAPS: types, invariants, refinement |
| `Deployment_proofs` | TLAPS: types, authorisation, snapshots in time, lineage of rollbacks, projections |
| `DeploymentTrees_proofs` | TLAPS: what the runtime trees hold, what the ledger and the reports say of it; also about `ReadService` |
| `TokenStore` | the Portal's one-time form tokens, as operators on a set |
| `DecisionPortal` | plan pages and decision forms, against other deciders and restarts |
| `DecisionPortal_proofs` | TLAPS: types, tokens used once and in time, decisions authorised |
| `InventoryPortal` | inventory refresh, snapshot file, inventory pages and refresh forms |
| `InventoryPortal_proofs` | TLAPS: types, successes kept, what pages show, one refresh per snapshot |
| `Planning` | the loads of the six governance documents by `plan` and `apply`, and what is made of them |
| `EvidenceRecorder` | runs that record evidence under one path |
| `ArtifactDigest` | the digest of a directory that is being changed |
| `ReadService` | status and drift reports beside the commands; EXTENDS `Deployment` |
| `ProjectionStore` | projections, their descriptors and runtime snapshots, file by file |
| `Readiness` | the gates' Markdown documents and reports, and the verdicts on them |
| `PortalStart` | the preparation of a Portal's state directory |
| `InventoryScan` | digest under limits and status of a skill, as functions of its copies |
| `Evidence` | EXTENDS `EvidenceRecorder` with instances of `ArtifactDigest` and `Readiness`, and their properties |
| `Evidence_proofs` | TLAPS: records stay, failed runs leave nothing, digests, the verdicts on the gates |
| `Sources` | EXTENDS `ProjectionStore` with instances of `Planning`, `PortalStart` and `InventoryScan`, and their properties |
| `Sources_proofs` | TLAPS: what verified, whole snapshots, rollbacks; plans of torn loads; starts; the status of skills |
| `MC_Evidence`, `MC_Sources` | instances: the parts of `Evidence` and of `Sources` side by side |
| `MC_*` | the other small instances for TLC |

Operators that begin with "Mutant:" in their comment are not part of the models.
Each is a wrong variant of the definition that follows it, kept to show that the
properties can fail. `TypeOK` documents the state of a module; where the module has a
proof module it is proved there.

### RecordStore

One directory of records. `final[n]` is the inode linked under a name, with the
state of its bytes (`partial`, `whole` in the page cache, `synced`); `durable` is
the set of directory entries that are on disk; `litter` says that a temporary
file was left for good; `job[p]` is the call a process is in, with its program
counter. `OpenTemporary`, `WriteAll`, `SyncFile`, `CloseFile`, `Link`, `Unlink`,
`SyncDirectory` are the lines of `_publish_exclusive_record` in order, `StepFails`
and `Discard` its error paths, `ScanNames` and `Recount` the two `iterdir` calls
of `list_plans`, after which `ReadPlan` reads one plan at a time and `ReturnPlans`
ends the call. `Kill` stops a process anywhere, `PowerFailure` stops them all
and loses what is not synced: unsynced directory entries survive or not, unsynced
bytes are cut short, and a temporary file may be there again, because its unlink
need not be on disk. `counted` is history. The refinement maps `Link` to `Publish`, `SyncDirectory` to
`Acknowledge`, `PowerFailure` to `Lose`, and all else to a stutter.

### DeploymentLedger

`file` is the sequence of whole lines; `torn` says that bytes without a newline
follow; `synced` counts the lines that a power failure cannot take; `lock` is the
flock. The hash of an entry is modelled as the sequence of the ids it covers:
that is what a collision-free hash distinguishes. `CheckAndChain` reads and
parses the whole file under the lock, `WriteLine` and `SyncLedger` store the
entry, `WriteEndsEarly` is what a failing or killed write leaves (nothing, part
of the line, or all of it: closing the stream flushes its buffer again).
The model assumes that the fsync of the file makes a newly created ledger's
directory entry durable too; the code does not fsync the directory, and on a
file system where that matters the first entries are less safe than shown here.

### Deployment

The shared state is the registry's version, the authority's files, the clock,
the plan and approval records, the projections, the snapshots, the two runtime
trees and the ledger. A run is one CLI process; its program counter walks
`build, publish` for `plan`, `authorise, scan, capture, recheck, sync, verify,
record` for `apply`, and the same without the capture for `rollback`.

* `PlanLoad` and `PublishPlan` are the two loads of the registry in
  `GovernanceRuntime.create_plan` and `PlanService.create`; `PublishPlan` may
  report a failure after the record was linked, as `RecordStore` shows, and then
  removes the projection.
* `Decide` is `ApprovalService.record`: the clock may have been read long before.
* `ApplyLoad` reads the plan and the registry, `Authorise` does every check up to
  the capture, `Scan` and `Capture` read the two trees one after the other,
  `Recheck` looks at the clock again and starts the adapter.
* `SyncSide`, `SyncDone`, `SyncFails`, `VerifySide`, `VerifyDone`, `VerifyFails`
  are the adapter as `service.py` sees it: an exit status of 0 proves nothing
  about the trees; a timeout leaves any of them written, one in part (`Mixed`).
* `Record` is the append, which may be stored, refused, or cut short; it is
  refused after a line that was cut short and for a deployment that has its entry
  (`IsWritten`).
* `Kill` may leave a `straggler`, a Skillshare command that goes on writing.

* A registry can load and still be one that no plan can be made of (an invalid
  selector): such versions are the constant `Malformed`, and `EntryIsMade` is
  `_entry`, which fails on them. `apply` would have refused before it touched the
  runtime; `rollback` does not look.

Contents of trees are values; `Bare` is the state before any deployment and
`Mixed` what an interrupted sync leaves. The variables `begun`, `writer`,
`unrecorded`, `overlapped` are history: no step reads them. One target is
modelled: two targets share no tree, and the services treat each alone.

### ReadService

`view` is a report in progress: `BeginReport` (registry), `ReadLedger` (the latest
success), `FindProjection` (plan, descriptor, discover), `DiffSide` (skillshare diff of
one tree), `Report`. `Command` is any step of `Deployment`, `Meddle` somebody who
writes into a tree. `status` and `drift` make the same reads and differ in what they
print. `at`, `busy`, `touched` and `meddled` are history.

### ProjectionStore

`folder[x]` is the projection of a plan, the projection of a rollback plan, or the
runtime snapshot: its files, which of them are synced, its descriptor or metadata
(`manifest`) and whether that name is synced (`sealed`). `planner` is a run of `plan`
(`BeginBuild` to `PublishPlan`) or of the rollback plan (`ReadSnapshot` to
`PublishPlan`), `deployer` one of `apply` or `rollback` (`Locate` to `Succeed`). The
removal of a projection after a failed publication (`PlanFails`, `RemoveEntry`) may run
while it is being deployed. What the model takes for granted: the fsync of a new file
makes its name durable; what Skillshare wrote survives a power failure; what was
removed stays so across one; damage comes
only to directories that were described. The validations between locating a
projection and the sync are left out, because they only refuse more. Both runtime
trees are one, and one target is modelled.

### PortalStart

`text[d]` is a document, `start[p]` a start of a Portal: `Look`, `OpenDocument` and
`FillDocument` are `_write_empty_document`, whose `write_text` truncates and then writes;
`OpenConfig` to `LoadConfig` the configuration. `EndStart` is a failure, a kill or the
end of the Portal. The owner puts a version in place at once (`OwnerWrites`).

### TokenStore, DecisionPortal, InventoryPortal

`TokenStore` has the bodies of `issue` and `consume` under the store's lock, as
operators; both Portals EXTEND it. A token is the page it was issued for.

In the Portal the handlers that render pages are plain functions, which the web
framework runs in threads of a pool, while the two POST handlers are coroutines
that do not await anything once the form is read: one runs at a time, and threads
interleave with it. So a page is a small process of its own (`page[k].pc`), and the
event loop another (`post`, `job[p]`).

* `DecisionPortal`. `ViewPlan`, `CheckExpiry`, `ReadIssueClock`, `Issue` are
  `plan_detail`: the clock is read twice, the second time before the lock is taken.
  `ReadConsumeClock`, `ConsumeToken`, `ReadDecisionClock`, `RecordDecision` are
  `record_decision` and `ApprovalService.record`. `DecideElsewhere` is a command that
  decides; `Restart` loses the tokens while browsers keep their forms. Plans are
  immutable and their digests match, so neither is a variable.
* `InventoryPortal`. `links` is the sequence of files that were renamed to
  `snapshot.json`, of which `durable` survive a power failure; a snapshot is the
  number of the attempt that discovered it. `WriteTemporary` to `SyncDirectory` are
  `save`, `View` and `OpenSnapshot` its reader (stat, then open and compare the
  inode), `Flag` the warning that `service.read` adds from memory, `StatCurrent` to
  `ConsumeToken` the refresh form. Here the clock is read with the lock held:
  `DecisionPortal` is about that race. Temporary files left by a crash are never
  read and are not modelled. `finder`, `succeeded`, `failed`, `raced` and a page's
  `after` are history.

### Planning

`docs` are the six documents in the order of `load_snapshot`; `Edit` is their
owner saving one. `ReadDocument` is one `load_document`, `job.got` what was read so
far. `plan` loads twice: `AskAdapter` is the first half of
`GovernanceRuntime.create_plan`, whose changes the adapter's evidence carries,
`Publish` is `PlanService.create`. `apply` loads once and `ValidateFreshState`
compares. `Desired`, `Changes` and `Valid` are `desired_assets`, `calculate_changes`
and the checks of `load_snapshot`. Digests are the values themselves. A revision
stands for revision and checksum, one target is modelled, and the last plan only. An
asset that is observed but not desired any more is left as it is: that is
what `calculate_changes` does, and `DeployedIsDesired` says no more. `Deployment`
takes each load as one atomic read; this module says what that leaves out.

### EvidenceRecorder, ArtifactDigest

`EvidenceRecorder` is `evidence.main`, a step for each system call that others can
notice. `where` is the directory that the path leads to, `entry[d]` the file under
the output's name in directory `d`, `job[r].dir` the descriptor a run holds: after the
owner moved the directory away the run still works in the old one. Inode numbers
are modelled because the handler compares them after it closed its file
(`CloseOutput`, `RequireOwned`): the number of a file without a name that is closed
may be given to the next one (`Free`). `RecordingFails` is any exception, the
child's, the artifacts', the disk's; a run that was killed, or whose clean-up
failed, leaves its file. As with the ledger, the fsync of a new file is taken
to make its name durable, and with it that the name is no older file's any more.
A removal is not synced: what was removed from a directory since is `unsettled[d]`, and
`PowerFailure` may put one of these files under the name again, as far as its inode
number is not by then that of another file that survives (`returned`, which is history
like `removed` and `raced`). Directories are taken to survive where they were made or
moved to. The child's exit status is data.

`ArtifactDigest` is `artifact_digest` of a directory against processes that write,
replace and remove its files. `signature[f]` stands for what `_artifact_signature`
compares; the model assumes that every change gives a new `st_ctime_ns`, so two
changes within the clock's granularity are outside it. The two comparisons
after a read are one step, because what the first would see the second sees too.

### Readiness

A document is a sequence of lines, and a line what `readiness.py` tells apart of it: the
three kinds of fence, the wanted conclusion and another, the marker once and twice, the
two lines of the wanted block, a blank line, prose. `Parse`, which takes one `ParseLine`
after the other, is `_parse_markdown`; `TextBlock`, `Concludes` and `Gate1` to `Gate4` are the functions of
like names. The two documents begin complete, one of them with a quoted conclusion,
and `MaxEdits` lines are inserted or removed anywhere. The two digests of gate 1 and the
thirteen paths of gate 3 are a block of two lines. `ReadAsWritten` compares the verdicts
with a definition that parses nothing in order, but counts fences before a line.

### InventoryScan

All the states are initial ones: what can be found of the copies of one name, the
filters of the targets, the limits. `Kept`, `ReadOn`, `Scan` are
`_directory_digest`, `AssetStatus`, `MissingTargets`, `Expects` the functions of
those names; `Scan` is a function of the number of files seen, which stops as the code
does. A digest is the sequence of what was read, `Aggregate` computes the
status. A target that cannot be read has no copy, a target has at most one copy of a
name, and names that are ignored are not modelled.

## Runs

Deadlock is not checked: the bounds on calls, deployments, edits and kills stop
the models when they are used up.

| run | instance | shows |
|---|---|---|
| `record_store` | 2 processes, 2 names, 2 payloads, 4 calls, 1 power failure | records are whole (`NoTornRecord`), acknowledged ones stay (`AckedIsForever`), a listing is what was there at its second scan (`ListingExact`), the protocol implements `WriteOnce` |
| `ledger` | 3 processes, 4 calls, 1 power failure, weak fairness | the chain is intact, acknowledged entries survive, reads stay prefixes, `AppendOnlyLog` is implemented, every call returns |
| `deployment_serial` | 1 run at a time, 2 plans, 3 deployments, 1 kill | snapshots are pre-images, rollback restores them and has a lineage |
| `deployment_concurrent` | 2 runs, 1 plan, 2 deployments, 1 edit, 1 tick past the expiry, 1 kill | authorisation, expiry, plan binding, under every interleaving; the ledger explains deviations and accounts for the last writer of each tree (`WritesAreAccounted`) |
| `deployment_liveness` | 1 run, 2 plans, 2 deployments, 1 edit to a malformed registry, 1 kill, weak fairness | every begun deployment is recorded, or killed, or refused by the ledger, or a rollback that could not make its entry |
| `rollback_unrecorded` | 1 run, 2 plans, 1 edit to a malformed registry, no kill | a violation: see Findings |
| `read_service` | 1 run, 1 reader, 1 edit or meddling | a report is not older than it began, exact if nothing changed, and "drifted" has a cause |
| `portal_decisions` | 2 pages, 2 plans, 3 forms, 1 token at a time, 2 ticks, 1 restart | tokens are used once, decisions are authorised and in time, who is told "recorded" decided |
| `inventory_portals` | 2 Portals, 2 pages, 2 forms, 3 attempts, 1 tick, 1 kill or power failure | a success is kept, pages warn after a failed refresh, "no inventory" is said only in a race, a snapshot is refreshed once |
| `inventory_failed_refresh` | 1 Portal, 1 page, no crash | a violation: see Findings |
| `evidence` | 3 runs, 2 directories, 1 removal by the owner, 1 kill or power failure; or up to 3 names, one a link, 3 changes; or 2 documents, 2 edits | a record stays and is whole, a failed run leaves no file but one that a power failure brings back; a digest has the names that are there, each with a content it had as a whole; the gates are judged as a reader would |
| `sources` | 1 asset in 2 revisions, 1 profile, 2 edits, 2 commands; or 2 files, 1 edit, damage and kills; or 2 source places, 2 targets, 9 directories, 3 filters, 12 limits; or 2 Portals, 2 documents, owner's writes | one undisturbed load binds a plan to a state of the registry; what verified is what was described, snapshots survive and are restored; the status agrees with a definition on the files; starts keep documents |

`evidence` and `sources` explore components that share nothing side by side: a
behaviour is one of one component (`part`), and the others stand still.

**Why the bounds are enough.** Every hazard listed in `PROJECT.json` involves at
most two processes and one failure. Two names and two payloads are what a race for
one name and an unrelated record need; three deployments are a deployment, a failed
or killed one, and a rollback; `Ttl = 1` with one tick puts the expiry between any
two steps of an apply; one edit separates any two loads of the registry. An asset
and a profile are enough for a plan to be torn: the edits that matter are of two
documents that are read at different times. Three evidence runs are one that fails,
one that begins during its clean-up and one that finds a file; three names are one
before, at and after the position of the walk. Two files are one that is damaged, lost
or not yet copied and one that is not; two Portals one that has looked and one that writes. Where one instance would be too large
its dimensions are split over two runs (`deployment_concurrent` has two runs and
edits, `deployment_serial` has two plans and three deployments). A rollback beside
another command is in neither: of it everything but liveness is proved, for any number
of both.

**Symmetry** is used for safety runs only, over processes, names and values that
no definition tells apart.

**Fairness.** `ledger`: weak fairness of each process. The critical
sections are finite and the number of calls is bounded, so a process that waits
for the flock is eventually alone. `deployment_liveness`: weak fairness of each
run's steps. The only wait in a run is for the adapter's child, which
`runner.py` ends after 30 s; a killed run is idle and owes nothing.

### What the properties except

`DriftExplained`, `SnapshotIsPreimage` and `RollbackRestores` except deployments
that overlapped another one: the code takes no lock on a target, and two applies
of one plan, or an apply beside a rollback, do interleave their syncs.
`AuthorisedMutation` and `CapturedInTime` have no such exception.
`DriftExplained` also excepts deployments whose process was killed, or whose
entry the ledger refused, after the sync began: nothing can tell of them.
`WritesAreAccounted` excepts only these, and holds of deployments that overlapped:
then a tree can be the work of another deployment than the other tree, but each has
an entry in the ledger that says what the tree holds or that it failed.
`ListingExact` is about the moment of the second scan: a plan that is published while
the plans are then read is not in the listing.
`AuthorisedMutation` binds a deployment to the registry version that its run
loaded, not to the one at the moment of the sync: that window is in the code.

`UnflaggedIsCurrent` is about a snapshot that the page's own Portal found
(`finder`): the last error is a Portal's own, and a slower Portal may put an older
snapshot in place. It excepts a page during whose reading a refresh succeeded
(`raced`): such a page may show the old snapshot without the warning.
`UnavailableOnlyByRace` says when a page may claim that there is no inventory
although there is: a refresh replaced the file between the reader's stat and its
open.

`RecordsAreKept` excepts `raced` records: the clean-up of a run that failed checks
the name and then unlinks it, and compares inode numbers after it closed its file.
If the owner removed the failed run's file just then, a record begun in that moment
can be taken for it. `FailedLeavesNothing` excepts files that a power failure brought
back (`returned`): the unlink is not synced, so that the record of a run that failed
late, complete and read-only, can be found after the restart, unless a later record under
the path was synced in between. It never takes the place of such a record, by
`RecordsAreKept`. `VerifiedIsBuilt` and `RollbackRestoresTheCapture` except a file that Skillshare left
out, saying that all went well, and that the projection lost while it was verified:
neither comparison sees it. `DriftHasACause` lists the causes: a deployment under way,
failed, beside another or unrecorded, or somebody else's writing. `StartsKeepDocuments`
excepts a document that its owner wrote between a start's look and its writing, which
the start overwrites, and one whose writing was cut short: it stays empty, and since it
exists no later start mends it.

`OneQuietLoadIsEnough` says nothing of a plan both of whose
loads were torn: such a plan can mix two states of the registry. `DeployedIsDesired`
says why it is harmless as long as the load of `apply` is not torn too.
`DigestIsOfTheTree` is about each file by itself: files that were hashed early may
change before the walk ends, so that the tree as a whole never existed.

### Findings

`FailedRefreshKeepsResult` states what `src/README.md:48` says: a failed refresh
keeps the last successful result. `save` renames before it syncs the directory; if
that fsync fails the refresh is reported as failed and the new snapshot is shown,
under the notice that the last one still is. The property is about a page that shows the
snapshot of a refresh that succeeded, so that there is a last result to keep.
Nothing is lost by it: the new
snapshot is complete, because its bytes were synced before the rename.

`RollbackCanBeTold` states what `src/tests/test_service.py:452` expects of a rollback:
once the runtime was rolled back and verified, its entry can be appended. `rollback` makes
the entry last (`service.py:348`), and making it calls `desired_assets`, which raises for a
registry whose profile has an invalid selector. `load_snapshot` accepts such a registry,
and unlike `apply` (`service.py:252`) `rollback` does not plan from it before it touches
the runtime. The runtime is then rolled back, the command fails, and the ledger still
names the old deployment: `status` reports it as drifted.

## Proofs

`tlapm` checks every theorem to the last leaf.

* `RecordStore_proofs`. `TypeCorrect`, `RecordsAreWhole` (`NoTornRecord`),
  `AcknowledgedStays` (`AckedIsForever`) and `Refinement` (`WriteOnceSpec`), for any
  number of processes, names, payloads, calls and power failures, from
  `NoneAssumption`, `NoneIsNoInode` and `BoundsAssumption`. `NoTornRecord` and
  `AckedIsForever` are not inductive: a record is whole only because it was synced
  before the link (`SyncedBeforeLink`), and an acknowledgement names the right
  payload only because a call whose link is in place is alone in having it and
  nobody was told before (`LinkIsThere`, `LinkIsExclusive`). Steps that leave the
  directory alone share one lemma (`QuietIInv`); `Link`, `SyncDirectory` and
  `PowerFailure` have one each.

* `DeploymentLedger_proofs`. `TypeCorrect`, `LinesChain` (`ChainIntact`),
  `AppendsSurvive` (`AppendedSurvives`), `ReadsStay` (`ReadsAreStable`) and
  `Refinement` (`AppendOnlyLogSpec`), for any number of processes, ids, calls and
  power failures, from `BoundsAssumption`. The chain stays one only because a
  writer's view of its head is still true when it writes (`WriterOK`), and that
  needs the lock to be held by who the program counters say, by one writer or by
  readers only (`LockOK`, `Exclusive`). An acknowledged entry survives because it
  is among the first `synced` lines (`ToldOK`). A step disturbs no other process
  if it leaves the lines alone or is taken under the lock (`OthersKept`).
* `Deployment_proofs`, for any number of runs, plans, deployments, edits, kills and
  ticks, from `ValuesAssumption`, `NoneIsNoRecord` and `BoundsAssumption`.
  `TypeCorrect` and `MutationsAreAuthorised` (`AuthorisedMutation`): what a run has
  checked (`Permitted`) has to hold until its adapter starts, many steps of others
  later. It does because plans, approvals and the projection of a plan that exists
  never change (`Grows`), and a run that makes a plan is the only one that uses its
  id (`PlannersApart`): its removal of a projection after a failure cannot touch one
  that an apply relies on. `JobOK` says what each program counter has established.
  On that rest `SnapshotsAreInTime` (`CapturedInTime`), which needs that a deployment
  id belongs to one run, that nothing began or was recorded under it before
  (`DepsApart`, `DepsAllocated`, `NotBegun`, `NotRecorded`), and that a snapshot's
  time is not in the future; `RollbacksHaveLineage` (`RollbackLineage`), that the
  parent named by a rollback plan is in the ledger, which only grows at its end; and
  `ProjectionsMatch` (`ProjectionMatchesPlan`), that a run about to publish built its
  projection from the version it loaded first.

* `DeploymentTrees_proofs` rests on those invariants and says what the trees hold, from
  the same assumptions: `SnapshotsArePreimages` (`SnapshotIsPreimage`), `RollbacksRestore`
  (`RollbackRestores`) and `DriftsAreExplained` (`DriftExplained`). All three are about
  one deployment while others begin, fail and die, so the invariant (`SInv`) has to say
  who may write a tree at all. A run whose sync has begun, or a straggler, is under way;
  two that are under way at once have overlapped (`Crowded`), so that a deployment that
  has not is alone (`Alone`) and the trees are its own until its sync (`TreesKept`).
  Then what its capture read one tree after the other is what both hold at once (`Seen`),
  what it verified is still so when it is recorded (`Verified`), and what a recorded
  success put into a tree is there until somebody else writes it (`Told`). A rollback
  restores because its plan is for the snapshot of its parent (`RollbackPlansOK`), which
  never changes once the parent began (`BegunIsPast`). At rest the last entry accounts for
  the trees (`LastExplains`): a deployment that was under way ended with its entry, or is
  `unrecorded` (`LateEnds`). `TreesAreAccounted` (`WritesAreAccounted`) needs no
  exception for deployments that overlap: the run that writes a tree becomes its last
  writer, and as long as nobody else writes it the tree is as its plan says, or the run
  is about to record a failure (`Writing`); at the end of the run its entry says the same
  (`Accounts`).
  Of `ReadService`: `ReportsAreNotOlder` (`ReportIsNotOlder`) and
  `UndisturbedReportsAreExact` (`UndisturbedReportIsExact`), where the last success
  exists by the least-element principle on the naturals (`GreatestExists`,
  `LatestIsLast`), and as long as nothing was touched what a report has seen of the trees
  is still so (`Progress`, `Exact`); and `DriftsHaveACause` (`DriftHasACause`), which puts
  `Explained` and an undisturbed report together (`UInv`): while nobody else writes
  and nothing is under way, the trees are as the last entry says, and a report that finds
  them different from its success has a failed deployment after that.

* `DecisionPortal_proofs`. `TypeCorrect`, `StoreIsBounded` (`TokensBounded`),
  `UsedOnce` (`FormsAreUsedOnce`), `Authorised` (`DecisionsAreAuthorised`),
  `RecordedByMe` (`RecordedIsMine`) and `InTime` (`AcceptedInTime`), for any number of
  pages, plans, tokens, forms and restarts, from `LimitsAssumption`,
  `NoneIsNoApproval` and `BoundsAssumption`. A decision is authorised only because a
  token in the store belongs to an open page that has not used it, names that page's
  plan and expires a lifetime after the page's clock (`TokensOK`); because a page
  without a form was never used or answered (`PagesOK`); and because the event loop
  handles one form at a time, so that what it has established about a form
  (`PostOK`) still holds when it records the decision.

* `Sources_proofs`, about `ProjectionStore`: `VerifiedIsBuiltHolds` (`VerifiedIsBuilt`),
  `SnapshotSurvivesHolds` (`SnapshotSurvives`) and `RollbackRestoresHolds`
  (`RollbackRestoresTheCapture`), for any set of files and any number of edits,
  damages, kills and power failures, from no assumption. A projection that was
  published only loses or gets damaged files, so what its descriptor says can only be
  missed, never met by something else (`Fits`, `Decays`); a file of the runtime is the
  right one, or its source is spoiled and the verification will say so (`DeployerOK`);
  a snapshot is made once and has synced files only (`SnapshotOK`); and a
  rollback's projection is described with what was captured (`RestoredOK`). What the
  steps of the others leave alone is stated once (`OthersKeepDeployer`,
  `DeployerMoves`, `PlannerMoves`, `CaptureMoves`).
  About `PortalStart`: `StartsKeep` (`StartsKeepDocuments`), for any number of Portals and
  documents, from `PortalAssumption`. A start that has missed a document knows of no
  version of its owner's, or the two are in a race (`MissedOK`), and a document without
  text is one that a start is about to fill or was cut short at (`EmptyIsKnown`).
  About `Planning`: `OneQuietLoadBinds` (`OneQuietLoadIsEnough`) and `DeploysWhatIsDesired`
  (`DeployedIsDesired`), for any assets, revisions and profiles. An undisturbed load has
  read everything of the state in which it began (`LoadOK`), and a plan is of its second
  load, but only if the evidence of its first asks for the same (`PlanOK`): so either
  load, if it was the undisturbed one, says what the plan asks for.
  About `InventoryScan`: `StatusesAreOfTheFiles` (`StatusIsOfTheFiles`), for any copies,
  files and limits, from `InventoryAssumption`. What a scan has read after k files, and
  whether it is complete, is an invariant of the loop (`ScannedTo`); with it a complete
  digest is of all the files and an incomplete one counts as unknown.

* `Evidence_proofs`, about `EvidenceRecorder`: `TypeCorrect`, `RecordsStay`
  (`RecordsAreKept`) and `FailuresLeaveNothing` (`FailedLeavesNothing`), for any number of
  runs, directories, removals, kills and power failures, from `NoneIsNoRun` and
  `BoundsAssumption`. The clean-up of a failed run recognises its file by an inode number,
  so the invariant says whose numbers are apart: those of files that are open or have a
  name (`InodesApart`), also after a power failure, which brings back only files of the
  same directory (`UnsettledOK`). A run that notices no failure has its file in place (`InPlace`), and
  whatever another clean-up may take for its own is marked as such in time
  (`MistakesOK`).
  About `ArtifactDigest`: `DigestsAreOfTheTree` (`DigestIsOfTheTree`), for any number of
  files, links and changes. As long as the directory is the one that was opened, the walk
  has every name (`NamesOK`); as long as a file is the one that was opened, the chunks
  that were read are there (`ChunksOK`).
  About `Readiness`: `GatesAreReadAsWritten` (`ReadAsWritten`), for documents of any length
  and any number of edits, from `GatesAssumption`. The parse goes line by line and the
  reader's account counts fences, so the invariant of the loop (`ParsedTo`, `OpenOK`,
  `Bare`) says what the state of the parse means in the reader's terms: a block is open
  after a line if the fences up to it are odd in number, and the blocks are the stretches
  from an opening fence to the next fence (`ParseIsExact`). With it the conclusion
  (`ConclusionIsRead`) and the block after the marker (`WantedIsRead`, `WantedIsFound`) are
  those of the reader, in both directions.

* `InventoryPortal_proofs`. `TypeCorrect`, `SuccessesAreKept` (`SuccessIsKept`),
  `UnavailableIsARace` (`UnavailableOnlyByRace`), `UnflaggedPagesAreCurrent`
  (`UnflaggedIsCurrent`) and `RefreshedOnce` (`OneRefreshPerSnapshot`), for any number
  of Portals, pages, refreshes, forms, kills and power failures, from `NoneAssumption`,
  `BoundsAssumption` and `LimitsAssumption`. The snapshot of a refresh is its Portal's
  alone until it is renamed (`SavingOK`), which happens once and after its sync
  (`LinksOK`). The snapshot a form shows was renamed before the one that replaces it, so
  that after a success it is never `snapshot.json` again, and no second form that shows
  it is accepted (`FormOK`, `LinkedIsPast`, `SuccessOK`). A Portal that serves without
  an error has succeeded since it last failed (`PortalOK`), and a page that is read
  across a rename or a success is known to be in a race (`PageOK`). Steps of other
  Portals and pages share `PortalKept` and `PageKept`.

`RecordStore_proofs` also has `ListingsAreExact` (`ListingExact`): between the two scans of
a listing records are only added (`PublishedGrows`), so that two scans of equal size are
equal, and what was counted then is still there when the listing returns (`ListerOK`).

The loops of `Readiness` and `InventoryScan` are functions on the number of lines or files
seen, each value defined from the one before. That such a function exists is proved from
the partial ones (`ParseExists`, `ScanExists`), and what holds of all its values by
the least number of which it does not hold (`LeastExists`, `UpTo`): the induction theorems
of the library, which take a predicate, are not used.

Every safety property that a run checks is a theorem. Only model-checked is liveness
(`CallsReturn`, `MutationIsAccounted`): it needs fairness and ENABLED, which `tlapm` does not
reason about. The two violated properties are in Findings.
`AuthorisedMutation` is checked with one plan and proved for any number, rollback
plans included.

## Plan

Done:

1. `RecordStore` with `WriteOnce`, `DeploymentLedger` with `AppendOnlyLog`:
   model-checked and proved.
2. `Deployment` and `ReadService`, model-checked and proved.
3. `TokenStore`, `DecisionPortal`, `InventoryPortal`, model-checked and proved.
4. `ProjectionStore`, `Planning`, `PortalStart`, `InventoryScan`, as parts of `Sources`,
   model-checked and proved.
5. `EvidenceRecorder`, `ArtifactDigest`, `Readiness`, as parts of `Evidence`, model-checked
   and proved.

Next, in this order:

6. Type correctness of the parts of `Sources` and `Evidence` as theorems of their own
   where it is now a conjunct of an invariant.
7. That `Deployment`'s atomic read of the registry is what `Planning` shows of an
   undisturbed load, as a refinement.

Not modelled, and not planned: rendering, CLI parsing and printing, redaction,
canonical bytes, field validation, path validation, the GitHub adapter (no state).
