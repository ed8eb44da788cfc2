--------------------------- MODULE ProjectionStore ---------------------------
(***************************************************************************)
(* The directories that a deployment rests on, file by file: the           *)
(* projection of a plan, the runtime snapshot that apply takes, and the    *)
(* projection that a rollback plan makes from the snapshot. A planner      *)
(* makes projections and removes one again when it fails; a deployer       *)
(* locates one, syncs it and verifies. The owner edits the authority, a    *)
(* file at rest may be damaged, processes are killed, the power fails.     *)
(*                                                                         *)
(* A digest stands for what it is the digest of. The two configurations of *)
(* a projection are files like the others. Both runtime trees are one.     *)
(***************************************************************************)
EXTENDS Naturals, Functions

CONSTANTS Files, None, Torn, Old, MaxEdits, MaxDamages, MaxStops

ValuesAssumption ==
    /\ None \notin Nat \cup {Torn, Old}
    /\ Torn \notin Nat \cup {Old} /\ Old \notin Nat
BoundsAssumption == {MaxEdits, MaxDamages, MaxStops} \subseteq Nat

VARIABLES
    authority,  \* the owner's files, each in a version
    folder,     \* the three directories
    published,  \* the projections whose plan is on record
    runtime,    \* the files of the runtime trees
    planner,    \* the planner's step and what it has in memory
    deployer,   \* the deployer's
    edits, damages, stops,
    built,      \* history: per projection, the files that were described
    captured,   \* history: the runtime files that the snapshot is of, or None
    kept,       \* history: has the capture returned, and no damage come since?
    late        \* history: files of a projection that went while it was verified

disk == <<authority, folder, published, runtime>>
counts == <<edits, damages, stops>>
history == <<built, captured, kept, late>>
vars == <<disk, planner, deployer, counts, history>>

Projections == {"deploy", "rollback"}
Folders == Projections \cup {"snapshot"}
Empty == [f \in {} |-> None]

\* "manifest" is the descriptor or the metadata, None while there is none;
\* "synced" are the files, and "sealed" tells whether the name, that outlive a
\* power failure.
NoFolder == [exists |-> FALSE, files |-> Empty, synced |-> {}, manifest |-> None, sealed |-> FALSE]
\* "skipped" is history: what a sync that said it went well left out.
Idle == [pc |-> "idle", on |-> "deploy", todo |-> {}, tree |-> Empty, manifest |-> None,
         skipped |-> {}]

Init ==
    /\ authority = [f \in Files |-> 0]
    /\ folder = [x \in Folders |-> NoFolder] /\ published = {}
    /\ runtime \in UNION {[S -> {Old}] : S \in SUBSET Files}
    /\ planner = Idle /\ deployer = Idle
    /\ edits = 0 /\ damages = 0 /\ stops = 0
    /\ built = [x \in Projections |-> None] /\ captured = None /\ kept = FALSE /\ late = {}

With(files, f, c) == [g \in DOMAIN files \cup {f} |-> IF g = f THEN c ELSE files[g]]
Without(files, f) == Restrict(files, DOMAIN files \ {f})

\* A new file is written into a directory, and synced or not.
Put(x, f, c, sync) ==
    folder' = [folder EXCEPT ![x].files = With(@, f, c),
                             ![x].synced = IF sync THEN @ \cup {f} ELSE @ \ {f}]

----------------------------------------------------------------------------
(* GovernanceRuntime.create_plan and its ProjectionBuilder.build           *)

Plan(pc) == planner' = [planner EXCEPT !.pc = pc]

BeginBuild ==
    /\ planner.pc = "idle" /\ ~folder["deploy"].exists
    /\ folder' = [folder EXCEPT !["deploy"].exists = TRUE]
    /\ planner' = [Idle EXCEPT !.pc = "copy", !.todo = Files]
    /\ UNCHANGED <<authority, published, runtime, deployer, counts, history>>

\* shutil.copytree; nothing is synced.
CopyFile(f) ==
    /\ planner.pc = "copy" /\ planner.on = "deploy" /\ f \in planner.todo
    /\ Put("deploy", f, authority[f], FALSE)
    /\ planner' = [planner EXCEPT !.todo = @ \ {f}]
    /\ UNCHANGED <<authority, published, runtime, deployer, counts, history>>

\* The descriptor is made of what can be read back.
Describe ==
    /\ planner.pc = "copy" /\ planner.todo = {}
    /\ planner' = [planner EXCEPT !.pc = "save", !.manifest = folder[planner.on].files]
    /\ built' = [built EXCEPT ![planner.on] = folder[planner.on].files]
    /\ UNCHANGED <<disk, deployer, counts, captured, kept, late>>

\* ProjectionLocator.save: the projection is validated, and the descriptor, a
\* file that is synced, linked to its name.
SaveDescriptor ==
    /\ planner.pc = "save"
    /\ folder[planner.on].files = planner.manifest
    /\ folder' = [folder EXCEPT ![planner.on].manifest = planner.manifest]
    /\ Plan("seal")
    /\ UNCHANGED <<authority, published, runtime, deployer, counts, history>>

SealDescriptor ==
    /\ planner.pc = "seal"
    /\ folder' = [folder EXCEPT ![planner.on].sealed = TRUE]
    /\ Plan("publish")
    /\ UNCHANGED <<authority, published, runtime, deployer, counts, history>>

\* The plan's record. It can be there although its caller hears of a failure;
\* then create_plan removes the projection, and create_rollback_plan does not.
PublishPlan ==
    /\ planner.pc = "publish"
    /\ published' = published \cup {planner.on}
    /\ \E pc \in {"idle"} \cup (IF planner.on = "deploy" THEN {"clean"} ELSE {}) : Plan(pc)
    /\ UNCHANGED <<authority, folder, runtime, deployer, counts, history>>

\* Whatever is raised: rmtree removes one entry after the other, but nothing
\* removes the projection of a rollback plan once it is saved.
PlanFails ==
    /\ planner.pc \in {"copy", "save", "seal", "publish"}
    /\ Plan(IF planner.pc = "publish" /\ planner.on = "rollback" THEN "idle" ELSE "clean")
    /\ UNCHANGED <<disk, deployer, counts, history>>

Going(x, f) ==
    late' = late \cup (IF deployer.pc \in {"check", "diff"} /\ deployer.on = x THEN {f} ELSE {})

RemoveEntry ==
    /\ planner.pc = "clean"
    /\ \/ \E f \in DOMAIN folder[planner.on].files :
             /\ folder' = [folder EXCEPT ![planner.on].files = Without(@, f)]
             /\ Going(planner.on, f)
       \/ /\ folder[planner.on].manifest # None
          /\ folder' = [folder EXCEPT ![planner.on].manifest = None]
          /\ UNCHANGED late
    /\ UNCHANGED <<authority, published, runtime, planner, deployer, counts, built, captured, kept>>

\* Done, or an error, which is passed over.
CleanEnds ==
    /\ planner.pc = "clean"
    /\ Plan("idle")
    /\ UNCHANGED <<disk, deployer, counts, history>>

----------------------------------------------------------------------------
(* FileRuntimeSnapshotStore.rollback_projection                            *)

\* The snapshot is read as a whole before anything is made of it.
ReadSnapshot ==
    /\ planner.pc = "idle" /\ deployer.pc = "succeeded" /\ deployer.on = "deploy"
    /\ folder["snapshot"].manifest # None /\ ~folder["rollback"].exists
    /\ planner' = [Idle EXCEPT !.pc = "compare", !.on = "rollback",
                               !.tree = folder["snapshot"].files]
    /\ UNCHANGED <<disk, deployer, counts, history>>

Restoring == [planner EXCEPT !.pc = "copy", !.todo = DOMAIN planner.tree]

\* Mutant: what was read is not compared with the manifest.
TrustSnapshot ==
    /\ planner.pc = "compare"
    /\ folder' = [folder EXCEPT !["rollback"].exists = TRUE]
    /\ planner' = Restoring
    /\ UNCHANGED <<authority, published, runtime, deployer, counts, history>>

CompareSnapshot ==
    /\ planner.pc = "compare"
    /\ IF planner.tree = folder["snapshot"].manifest
       THEN folder' = [folder EXCEPT !["rollback"].exists = TRUE] /\ planner' = Restoring
       ELSE planner' = Idle /\ UNCHANGED folder
    /\ UNCHANGED <<authority, published, runtime, deployer, counts, history>>

\* _write_tree and _write_new_file: written from memory and synced.
RestoreFile(f) ==
    /\ planner.pc = "copy" /\ planner.on = "rollback" /\ f \in planner.todo
    /\ Put("rollback", f, planner.tree[f], TRUE)
    /\ planner' = [planner EXCEPT !.todo = @ \ {f}]
    /\ UNCHANGED <<authority, published, runtime, deployer, counts, history>>

----------------------------------------------------------------------------
(* apply and rollback: locate, capture, sync, verify                       *)

Resting == {"idle", "succeeded", "failed"}
Deploy(pc, todo) == deployer' = [deployer EXCEPT !.pc = pc, !.todo = todo]
Fail == deployer' = [deployer EXCEPT !.pc = "failed"]

\* for_plan_id reads the descriptor, and validates the files one by one. The
\* other validations before the sync are left out: they only refuse more.
Locate(x) ==
    /\ deployer.pc \in Resting /\ x \in published
    /\ x = "deploy" => ~folder["snapshot"].exists
    /\ folder[x].manifest # None
    /\ deployer' = [Idle EXCEPT !.pc = "locate", !.on = x, !.todo = Files,
                                !.manifest = folder[x].manifest]
    /\ UNCHANGED <<disk, planner, counts, history>>

Agree(files, others, f) ==
    /\ f \in DOMAIN files <=> f \in DOMAIN others
    /\ f \in DOMAIN files => files[f] = others[f]

ValidateFile(f) ==
    /\ deployer.pc \in {"locate", "check"} /\ f \in deployer.todo
    /\ IF Agree(folder[deployer.on].files, deployer.manifest, f) THEN Deploy(deployer.pc, deployer.todo \ {f}) ELSE Fail
    /\ UNCHANGED <<disk, planner, counts, history>>

\* capture scans the runtime; the snapshot is made under a temporary name.
BeginCapture ==
    /\ deployer.pc = "locate" /\ deployer.todo = {} /\ deployer.on = "deploy"
    /\ deployer' = [deployer EXCEPT !.pc = "capture", !.tree = runtime, !.todo = DOMAIN runtime]
    /\ folder' = [folder EXCEPT !["snapshot"] = [NoFolder EXCEPT !.exists = TRUE]]
    /\ UNCHANGED <<authority, published, runtime, planner, counts, history>>

\* Mutant: the files of a snapshot are not synced.
CaptureFileUnsynced(f) ==
    /\ deployer.pc = "capture" /\ f \in deployer.todo
    /\ Put("snapshot", f, deployer.tree[f], FALSE)
    /\ Deploy("capture", deployer.todo \ {f})
    /\ UNCHANGED <<authority, published, runtime, planner, counts, history>>

CaptureFile(f) ==
    /\ deployer.pc = "capture" /\ f \in deployer.todo
    /\ Put("snapshot", f, deployer.tree[f], TRUE)
    /\ Deploy("capture", deployer.todo \ {f})
    /\ UNCHANGED <<authority, published, runtime, planner, counts, history>>

\* The metadata is written and the directory renamed to the deployment's id.
RenameSnapshot ==
    /\ deployer.pc = "capture" /\ deployer.todo = {}
    /\ folder' = [folder EXCEPT !["snapshot"].manifest = deployer.tree]
    /\ captured' = deployer.tree
    /\ Deploy("rename", {})
    /\ UNCHANGED <<authority, published, runtime, planner, counts, built, kept, late>>

SyncSnapshots ==
    /\ deployer.pc = "rename"
    /\ folder' = [folder EXCEPT !["snapshot"].sealed = TRUE]
    /\ kept' = (folder["snapshot"].files = captured)
    /\ Deploy("sync", Files)
    /\ UNCHANGED <<authority, published, runtime, planner, counts, built, captured, late>>

BeginRollback ==
    /\ deployer.pc = "locate" /\ deployer.todo = {} /\ deployer.on = "rollback"
    /\ Deploy("sync", Files)
    /\ UNCHANGED <<disk, planner, counts, history>>

\* Skillshare makes the runtime's files those of the projection.
SyncFile(f) ==
    /\ deployer.pc = "sync" /\ f \in deployer.todo
    /\ LET files == folder[deployer.on].files IN
          runtime' = IF f \in DOMAIN files THEN With(runtime, f, files[f]) ELSE Without(runtime, f)
    /\ Deploy("sync", deployer.todo \ {f})
    /\ UNCHANGED <<authority, folder, published, planner, counts, history>>

\* Mutant: verify does not validate the projection again.
VerifyUnchecked ==
    /\ deployer.pc = "sync"
    /\ deployer' = [deployer EXCEPT !.pc = "check", !.todo = {}, !.skipped = deployer.todo]
    /\ late' = {}
    /\ UNCHANGED <<disk, planner, counts, built, captured, kept>>

\* adapter.verify, which validates the projection before it asks for a diff;
\* the sync may have left out files.
BeginVerify ==
    /\ deployer.pc = "sync"
    /\ deployer' = [deployer EXCEPT !.pc = "check", !.todo = Files, !.skipped = deployer.todo]
    /\ late' = {}
    /\ UNCHANGED <<disk, planner, counts, built, captured, kept>>

BeginDiff ==
    /\ deployer.pc = "check" /\ deployer.todo = {}
    /\ Deploy("diff", Files)
    /\ UNCHANGED <<disk, planner, counts, history>>

DiffFile(f) ==
    /\ deployer.pc = "diff" /\ f \in deployer.todo
    /\ IF Agree(folder[deployer.on].files, runtime, f) THEN Deploy("diff", deployer.todo \ {f}) ELSE Fail
    /\ UNCHANGED <<disk, planner, counts, history>>

\* Whatever is raised. A temporary directory is left, or removed: nobody reads it.
DeployFails ==
    /\ deployer.pc \notin Resting
    /\ Fail
    /\ UNCHANGED <<disk, planner, counts, history>>

Succeed ==
    /\ deployer.pc = "diff" /\ deployer.todo = {}
    /\ Deploy("succeeded", {})
    /\ UNCHANGED <<disk, planner, counts, history>>

----------------------------------------------------------------------------
(* The owner, damage, kills and power failures                             *)

EditAuthority(f) ==
    /\ edits < MaxEdits
    /\ edits' = edits + 1
    /\ authority' = [authority EXCEPT ![f] = @ + 1]
    /\ UNCHANGED <<folder, published, runtime, planner, deployer, damages, stops, history>>

\* A file is changed or lost after its directory was described.
Damage(x) ==
    /\ damages < MaxDamages /\ folder[x].manifest # None
    /\ damages' = damages + 1
    /\ \E f \in DOMAIN folder[x].files :
          /\ Going(x, f)
          /\ \/ folder' = [folder EXCEPT ![x].files = With(@, f, Torn)]
             \/ folder' = [folder EXCEPT ![x].files = Without(@, f)]
    /\ kept' = (kept /\ x # "snapshot")
    /\ UNCHANGED <<authority, published, runtime, planner, deployer, edits, stops, built, captured>>

Stop == stops < MaxStops /\ stops' = stops + 1

KillPlanner ==
    /\ Stop /\ planner.pc # "idle"
    /\ planner' = Idle
    /\ UNCHANGED <<disk, deployer, edits, damages, history>>

KillDeployer ==
    /\ Stop /\ deployer.pc \notin Resting
    /\ deployer' = Idle
    /\ UNCHANGED <<disk, planner, edits, damages, history>>

\* A file that was not synced is kept, cut short or lost, and a name that was
\* not is there or not. What Skillshare wrote is taken as kept.
Unsynced == UNION {{<<x, f>> : f \in DOMAIN folder[x].files \ folder[x].synced} : x \in Folders}
Unsealed == {x \in Folders : folder[x].manifest # None /\ ~folder[x].sealed}

PowerFailure ==
    /\ Stop
    /\ \E torn \in SUBSET Unsynced, gone \in SUBSET Unsealed :
       \E lost \in SUBSET torn :
          folder' = [x \in Folders |->
              [folder[x] EXCEPT
                  !.files = [f \in {g \in DOMAIN @ : <<x, g>> \notin lost} |->
                                IF <<x, f>> \in torn THEN Torn ELSE @[f]],
                  !.manifest = IF x \in gone THEN None ELSE @]]
    /\ planner' = Idle
    /\ deployer' = IF deployer.pc \in Resting THEN deployer ELSE Idle
    /\ UNCHANGED <<authority, published, runtime, edits, damages, history>>

Next ==
    \/ BeginBuild \/ Describe \/ SaveDescriptor \/ SealDescriptor \/ PublishPlan \/ PlanFails
    \/ RemoveEntry \/ CleanEnds \/ ReadSnapshot \/ CompareSnapshot
    \/ BeginCapture \/ RenameSnapshot \/ SyncSnapshots \/ BeginRollback
    \/ BeginVerify \/ BeginDiff \/ Succeed \/ DeployFails
    \/ KillPlanner \/ KillDeployer \/ PowerFailure
    \/ \E x \in Folders : Damage(x)
    \/ \E x \in Projections : Locate(x)
    \/ \E f \in Files :
          \/ CopyFile(f) \/ RestoreFile(f) \/ ValidateFile(f) \/ CaptureFile(f)
          \/ SyncFile(f) \/ DiffFile(f) \/ EditAuthority(f)

Spec == Init /\ [][Next]_vars

----------------------------------------------------------------------------
(* Properties                                                              *)

(* A deployment, or a rollback, that verified has put into the runtime the *)
(* files that the plan's projection was described with: although planning  *)
(* may fail after its plan was published and remove the projection while   *)
(* it is synced, although a file of it may be lost or changed at any time. *)
(* A file is excepted that Skillshare left out, saying that all went well, *)
(* and that the projection lost while it was verified.                     *)
Excepted == deployer.skipped \cap late

VerifiedIsBuilt ==
    deployer.pc = "succeeded" =>
        \A f \in Files \ Excepted : Agree(runtime, built[deployer.on], f)

(* A snapshot whose capture has returned is there and whole until somebody *)
(* damages it, whatever is killed and whenever the power fails: what was   *)
(* deployed can be rolled back.                                            *)
SnapshotSurvives ==
    kept => folder["snapshot"].manifest = captured /\ folder["snapshot"].files = captured

(* A rollback that verified has put back what the capture found, although  *)
(* the snapshot, or the projection made from it, may be damaged or cut     *)
(* short: it is refused or it is right.                                    *)
RollbackRestoresTheCapture ==
    deployer.pc = "succeeded" /\ deployer.on = "rollback" =>
        \A f \in Files \ Excepted : Agree(runtime, captured, f)

=============================================================================
