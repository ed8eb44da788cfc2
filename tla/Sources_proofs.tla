--------------------------- MODULE Sources_proofs ---------------------------
(***************************************************************************)
(* Proofs about the parts of Sources. Of ProjectionStore, for any set of   *)
(* files and any number of edits, damages, kills and power failures: what  *)
(* verified is what was described, a snapshot survives, and a rollback     *)
(* restores it. Of PortalStart: a start keeps the owner's documents. Of    *)
(* Planning: what a plan asks for is what one state of the registry asked  *)
(* for, when one of its loads was undisturbed. Of InventoryScan: the       *)
(* status of a skill is what the files of its copies say.                  *)
(***************************************************************************)
EXTENDS Sources, Sequences, FiniteSets, FiniteSetTheorems, WellFoundedInduction, TLAPS

----------------------------------------------------------------------------
(* Files with their contents                                               *)

Contents == Nat \cup {Torn, Old}
FileSets == UNION {[S -> Contents] : S \in SUBSET Files}

LEMMA FileSetFacts ==
    ASSUME NEW F \in FileSets
    PROVE  /\ DOMAIN F \subseteq Files /\ \A f \in DOMAIN F : F[f] \in Contents
           /\ F = [f \in DOMAIN F |-> F[f]]
BY DEF FileSets

LEMMA FileSetIntro ==
    ASSUME NEW S \in SUBSET Files, NEW F \in [S -> Contents]
    PROVE  F \in FileSets
BY DEF FileSets

LEMMA EmptyFacts == Empty \in FileSets /\ DOMAIN Empty = {}
<1>1. DOMAIN Empty = {} /\ Empty \in [{} -> Contents]
  BY DEF Empty
<1> QED BY <1>1, FileSetIntro

LEMMA WithFacts ==
    ASSUME NEW F \in FileSets, NEW f \in Files, NEW c \in Contents
    PROVE  With(F, f, c) \in FileSets
<1>1. DOMAIN F \cup {f} \in SUBSET Files
  BY FileSetFacts
<1>2. With(F, f, c) \in [DOMAIN F \cup {f} -> Contents]
  BY FileSetFacts DEF With
<1> QED BY <1>1, <1>2, FileSetIntro

LEMMA WithoutFacts ==
    ASSUME NEW F \in FileSets, NEW f
    PROVE  /\ Without(F, f) \in FileSets
           /\ DOMAIN Without(F, f) = DOMAIN F \ {f}
           /\ \A g \in DOMAIN F \ {f} : Without(F, f)[g] = F[g]
<1>1. DOMAIN F \ {f} \in SUBSET Files
  BY FileSetFacts
<1>2. Without(F, f) \in [DOMAIN F \ {f} -> Contents]
  BY FileSetFacts DEF Without, Restrict
<1>3. Without(F, f) \in FileSets
  BY <1>1, <1>2, FileSetIntro
<1> QED BY <1>3 DEF Without, Restrict

----------------------------------------------------------------------------
(* The inductive invariant                                                 *)

FolderRecords ==
    [exists : BOOLEAN, files : FileSets, synced : SUBSET Files,
     manifest : FileSets \cup {None}, sealed : BOOLEAN]
PlannerPcs == {"idle", "compare", "copy", "save", "seal", "publish", "clean"}
DeployerPcs == Resting \cup {"locate", "capture", "rename", "sync", "check", "diff"}
Runs(pcs) ==
    [pc : pcs, on : Projections, todo : SUBSET Files, tree : FileSets,
     manifest : FileSets \cup {None}, skipped : SUBSET Files]

Typed ==
    /\ authority \in [Files -> Nat]
    /\ folder \in [Folders -> FolderRecords]
    /\ published \subseteq Projections
    /\ runtime \in FileSets
    /\ planner \in Runs(PlannerPcs) /\ deployer \in Runs(DeployerPcs)
    /\ built \in [Projections -> FileSets \cup {None}]
    /\ captured \in FileSets \cup {None}
    /\ kept \in BOOLEAN
    /\ late \subseteq Files

\* The snapshot is made once, and all of it is synced.
SnapshotOK ==
    LET s == folder["snapshot"] IN
    /\ ~s.exists => captured = None /\ ~kept
    /\ s.manifest \in {None, captured}
    /\ DOMAIN s.files \subseteq s.synced
    /\ kept => s.manifest = captured /\ s.files = captured /\ s.sealed
    /\ deployer.pc = "locate" /\ deployer.on = "deploy" => ~s.exists
    /\ deployer.pc = "capture" => /\ s.exists /\ captured = None /\ ~kept
                                  /\ deployer.todo \subseteq DOMAIN deployer.tree
    /\ deployer.pc = "rename" => s.exists /\ s.manifest = captured

\* Nothing is added to a projection once it was described.
Fits(x) ==
    /\ built[x] \in FileSets /\ folder[x].manifest \in {None, built[x]}
    /\ \A f \in DOMAIN folder[x].files :
          f \in DOMAIN built[x] /\ folder[x].files[f] \in {built[x][f], Torn}

ProjectionsOK ==
    \A x \in Projections :
        /\ ~folder[x].exists => DOMAIN folder[x].files = {} /\ folder[x].manifest = None
        /\ x \in published => folder[x].exists /\ Fits(x)

PlannerOK ==
    LET x == planner.on IN
    /\ planner.pc \in {"copy", "save", "seal", "publish"} => folder[x].exists /\ x \notin published
    /\ planner.pc = "compare" =>
          /\ x = "rollback" /\ ~folder[x].exists
          /\ captured # None /\ folder["snapshot"].manifest = captured
    /\ planner.pc = "copy" => folder[x].manifest = None
    /\ planner.pc = "copy" /\ x = "rollback" =>
          /\ captured # None /\ planner.tree = captured /\ planner.todo \subseteq DOMAIN captured
          /\ DOMAIN folder[x].files = DOMAIN captured \ planner.todo
          /\ \A f \in DOMAIN folder[x].files : folder[x].files[f] = captured[f]
    /\ planner.pc = "save" => planner.manifest = built[x]
    /\ planner.pc \in {"save", "seal", "publish"} => Fits(x)

\* The projection of a rollback plan is described with what was captured.
RestoredOK ==
    \/ "rollback" \in published
    \/ planner.on = "rollback" /\ planner.pc \in {"save", "seal", "publish"}
    => captured # None /\ \A f \in Files : Agree(built["rollback"], captured, f)

\* What a file of the runtime can be as long as its deployment goes well.
Spoiled(x, f) == ~Agree(folder[x].files, built[x], f)
Right(f) == Agree(runtime, built[deployer.on], f)

DeployerOK ==
    LET x == deployer.on IN
    /\ deployer.pc \notin {"idle", "failed"} => x \in published
    /\ deployer.pc \in {"locate", "capture", "rename", "sync", "check"} =>
          deployer.manifest = built[x]
    /\ deployer.pc = "sync" => \A f \in Files \ deployer.todo : Right(f) \/ Spoiled(x, f)
    /\ deployer.pc = "check" =>
          \A f \in Files :
             /\ f \in deployer.skipped \/ Right(f) \/ Spoiled(x, f)
             /\ f \notin deployer.todo => /\ f \in deployer.skipped \/ Right(f)
                                          /\ f \in late \/ ~Spoiled(x, f)
    /\ deployer.pc = "diff" =>
          \A f \in Files :
             /\ f \in deployer.skipped \/ Right(f)
             /\ f \in late \/ ~Spoiled(x, f)
             /\ f \notin deployer.todo => f \in late \/ Right(f)
    /\ VerifiedIsBuilt

IInv ==
    /\ Typed /\ SnapshotOK /\ ProjectionsOK /\ PlannerOK /\ RestoredOK /\ DeployerOK

LEMMA InitIInv == Init => IInv
<1> SUFFICES ASSUME Init PROVE IInv
    OBVIOUS
<1>1. runtime \in FileSets
  <2>1. PICK S \in SUBSET Files : runtime \in [S -> {Old}]
    BY DEF Init
  <2> QED BY <2>1, FileSetIntro DEF Contents
<1>2. Typed
  BY <1>1, EmptyFacts
  DEF Init, Typed, FolderRecords, NoFolder, Idle, Runs, PlannerPcs, DeployerPcs, Resting,
      Projections
<1>3. SnapshotOK /\ ProjectionsOK
  BY EmptyFacts DEF Init, SnapshotOK, ProjectionsOK, NoFolder, Idle, Folders, Projections
<1>4. PlannerOK /\ RestoredOK /\ DeployerOK
  BY DEF Init, PlannerOK, RestoredOK, DeployerOK, VerifiedIsBuilt, Idle
<1> QED BY <1>2, <1>3, <1>4 DEF IInv

----------------------------------------------------------------------------
(* What the steps of others leave of a deployment                          *)

\* f stays as it is in the directory x.
Stays(x, f) == Agree(folder[x].files, folder'[x].files, f)

\* Files of x are lost or damaged, and no more than that.
Decays(x) ==
    \A f \in DOMAIN folder'[x].files :
        f \in DOMAIN folder[x].files /\ folder'[x].files[f] \in {folder[x].files[f], Torn}

LEMMA SpoiledStays ==
    ASSUME NEW x \in Projections, Fits(x), Decays(x), built'[x] = built[x], NEW f
    PROVE  /\ Spoiled(x, f) => Spoiled(x, f)'
           /\ Stays(x, f) /\ ~Spoiled(x, f) => ~Spoiled(x, f)'
BY DEF Fits, Decays, Spoiled, Agree, Stays

LEMMA FitsStays ==
    ASSUME NEW x \in Projections, Fits(x), Decays(x), built'[x] = built[x],
           folder'[x].manifest \in {None, folder[x].manifest}
    PROVE  Fits(x)'
BY DEF Fits, Decays

\* A step that takes no part in the deployment, and spoils its projection at most.
LEMMA OthersKeepDeployer ==
    ASSUME IInv, UNCHANGED <<deployer, runtime>>,
           published \subseteq published', late \subseteq late',
           deployer.on \in published =>
               /\ built'[deployer.on] = built[deployer.on] /\ Decays(deployer.on)
               /\ deployer.pc \in {"check", "diff"} =>
                     \A f \in Files : f \in late' \/ Stays(deployer.on, f)
    PROVE  DeployerOK'
<1> DEFINE x == deployer.on
<1>1. CASE deployer.pc \in {"idle", "failed"}
  BY <1>1 DEF DeployerOK, VerifiedIsBuilt
<1>2. CASE deployer.pc \notin {"idle", "failed"}
  <2>1. x \in published /\ x \in Projections /\ Fits(x) /\ Decays(x) /\ built'[x] = built[x]
    BY <1>2 DEF IInv, DeployerOK, ProjectionsOK, Typed
  <2>2. \A f : /\ Spoiled(x, f) => Spoiled(x, f)'
               /\ Stays(x, f) /\ ~Spoiled(x, f) => ~Spoiled(x, f)'
    BY <2>1, SpoiledStays
  <2>3. \A f : Right(f)' <=> Right(f)
    BY <2>1 DEF Right, Agree
  <2>4. VerifiedIsBuilt'
    BY <2>1, <2>3 DEF IInv, DeployerOK, VerifiedIsBuilt, Excepted, Right
  <2>5. deployer.pc \in {"check", "diff"} => \A f \in Files : f \in late' \/ Stays(x, f)
    BY <2>1
  <2> QED BY <2>1, <2>2, <2>3, <2>4, <2>5 DEF IInv, DeployerOK
<1> QED BY <1>1, <1>2

----------------------------------------------------------------------------
(* Planning                                                                *)

\* A directory is made.
LEMMA MakeFolderFacts ==
    ASSUME Typed, NEW x \in Folders, folder' = [folder EXCEPT ![x].exists = TRUE]
    PROVE  /\ folder' \in [Folders -> FolderRecords]
           /\ folder'[x] = [folder[x] EXCEPT !.exists = TRUE]
           /\ \A y \in Folders \ {x} : folder'[y] = folder[y]
<1>1. folder \in [Folders -> FolderRecords]
  BY DEF Typed
<1>2. [folder[x] EXCEPT !.exists = TRUE] \in FolderRecords
  BY <1>1 DEF FolderRecords
<1> QED BY <1>1, <1>2

LEMMA BeginBuildIInv == IInv /\ BeginBuild => IInv'
<1> SUFFICES ASSUME IInv, BeginBuild PROVE IInv'
    OBVIOUS
<1> USE DEF IInv, BeginBuild
<1>1. Typed'
  <2>1. folder' \in [Folders -> FolderRecords]
    BY MakeFolderFacts DEF Folders, Projections
  <2>2. planner' \in Runs(PlannerPcs)
    BY EmptyFacts DEF Runs, PlannerPcs, Idle, Projections
  <2> QED BY <2>1, <2>2 DEF Typed, history
<1>2. /\ folder'["deploy"] = [folder["deploy"] EXCEPT !.exists = TRUE]
      /\ \A x \in Folders \ {"deploy"} : folder'[x] = folder[x]
  BY DEF Typed, Folders, Projections
<1>3. \A x \in Folders : /\ folder'[x].files = folder[x].files
                         /\ folder'[x].manifest = folder[x].manifest
  BY <1>2 DEF Typed, FolderRecords
<1>4. SnapshotOK'
  BY <1>2 DEF SnapshotOK, Folders, Projections, history
<1>5. ProjectionsOK'
  BY <1>2, <1>3 DEF ProjectionsOK, Fits, Folders, Projections, Typed, FolderRecords, history
<1>6. PlannerOK'
  BY <1>2, <1>3 DEF PlannerOK, ProjectionsOK, Idle, Folders, Projections, Typed, FolderRecords, Runs
<1>7. RestoredOK'
  BY DEF RestoredOK, Idle, history, Typed, Runs
<1>8. DeployerOK'
  BY <1>3, OthersKeepDeployer DEF Decays, Stays, Agree, Typed, Runs, Folders, history
<1> QED BY <1>1, <1>4, <1>5, <1>6, <1>7, <1>8

\* A file is written into a directory that is not described yet.
LEMMA PutFacts ==
    ASSUME Typed, NEW x \in Folders, NEW f \in Files, NEW c \in Contents, NEW sync \in BOOLEAN,
           Put(x, f, c, sync)
    PROVE  /\ folder' \in [Folders -> FolderRecords]
           /\ \A y \in Folders \ {x} : folder'[y] = folder[y]
           /\ folder'[x].exists = folder[x].exists /\ folder'[x].manifest = folder[x].manifest
           /\ folder'[x].sealed = folder[x].sealed
           /\ folder'[x].files = With(folder[x].files, f, c)
           /\ folder'[x].synced = IF sync THEN folder[x].synced \cup {f} ELSE folder[x].synced \ {f}
<1>1. folder[x].files \in FileSets /\ With(folder[x].files, f, c) \in FileSets
  BY WithFacts DEF Typed, FolderRecords
<1> QED BY <1>1 DEF Typed, Put, FolderRecords

LEMMA CopyFileIInv == ASSUME IInv, NEW f \in Files, CopyFile(f) PROVE IInv'
<1> USE DEF IInv, CopyFile
<1>1. authority[f] \in Contents /\ "deploy" \in Folders
  BY DEF Typed, Contents, Folders, Projections
<1>2. Put("deploy", f, authority[f], FALSE)
  OBVIOUS
<1>3. /\ folder' \in [Folders -> FolderRecords]
      /\ \A y \in Folders \ {"deploy"} : folder'[y] = folder[y]
      /\ folder'["deploy"].exists = folder["deploy"].exists
      /\ folder'["deploy"].manifest = folder["deploy"].manifest
  BY <1>1, <1>2, PutFacts
<1>4. planner'.pc = "copy" /\ planner'.on = "deploy" /\ published' = published
  BY DEF Typed, Runs
<1>5. Typed'
  BY <1>3 DEF Typed, Runs, history
<1>6. SnapshotOK'
  BY <1>3 DEF SnapshotOK, Folders, Projections, history
<1>7. folder["deploy"].exists /\ "deploy" \notin published /\ folder["deploy"].manifest = None
  BY DEF PlannerOK
<1>8. ProjectionsOK'
  BY <1>3, <1>7 DEF ProjectionsOK, Fits, Folders, Projections, history
<1>9. PlannerOK'
  <2> HIDE DEF IInv, CopyFile
  <2> QED BY <1>3, <1>4, <1>7 DEF PlannerOK
<1>10. RestoredOK'
  BY <1>4 DEF RestoredOK, history
<1>11. DeployerOK'
  BY <1>3, <1>7, OthersKeepDeployer DEF Decays, Stays, Agree, Typed, Runs, Folders, history
<1> QED BY <1>5, <1>6, <1>8, <1>9, <1>10, <1>11

LEMMA RestoreFileIInv == ASSUME IInv, NEW f \in Files, RestoreFile(f) PROVE IInv'
<1> USE DEF IInv, RestoreFile
<1> DEFINE old == folder["rollback"].files
           new == folder'["rollback"].files
<1>1. /\ folder["rollback"].exists /\ "rollback" \notin published
      /\ folder["rollback"].manifest = None
      /\ captured # None /\ planner.tree = captured /\ planner.todo \subseteq DOMAIN captured
      /\ DOMAIN old = DOMAIN captured \ planner.todo /\ \A g \in DOMAIN old : old[g] = captured[g]
  BY DEF PlannerOK
<1>2. captured \in FileSets /\ captured[f] \in Contents /\ old \in FileSets
  BY <1>1, FileSetFacts DEF Typed, Folders, Projections, FolderRecords
<1>3. Put("rollback", f, captured[f], TRUE) /\ "rollback" \in Folders
  BY <1>1 DEF Folders, Projections
<1>4. /\ folder' \in [Folders -> FolderRecords]
      /\ \A y \in Folders \ {"rollback"} : folder'[y] = folder[y]
      /\ folder'["rollback"].exists = folder["rollback"].exists
      /\ folder'["rollback"].manifest = folder["rollback"].manifest
      /\ new = With(old, f, captured[f])
  BY <1>2, <1>3, PutFacts
<1>5. DOMAIN new = DOMAIN old \cup {f} /\ \A g \in DOMAIN new : new[g] = captured[g]
  <2> HIDE DEF old, new, IInv, RestoreFile
  <2>1. /\ DOMAIN With(old, f, captured[f]) = DOMAIN old \cup {f}
        /\ \A g \in DOMAIN With(old, f, captured[f]) : With(old, f, captured[f])[g] = captured[g]
    BY <1>1 DEF With
  <2> QED BY <1>4, <2>1
<1>6. /\ planner'.pc = "copy" /\ planner'.on = "rollback" /\ planner'.tree = planner.tree
      /\ planner'.todo = planner.todo \ {f}
  BY DEF Typed, Runs
<1>7. Typed'
  BY <1>4 DEF Typed, Runs, history
<1>8. SnapshotOK'
  BY <1>4 DEF SnapshotOK, Folders, Projections, history
<1>9. ProjectionsOK'
  BY <1>1, <1>4 DEF ProjectionsOK, Fits, Folders, Projections, history
<1>10. PlannerOK'
  <2>1. f \in planner.todo /\ published' = published /\ captured' = captured
    BY DEF history
  <2>2. DOMAIN new = DOMAIN captured \ planner'.todo
    BY <1>1, <1>5, <1>6, <2>1
  <2> HIDE DEF IInv, RestoreFile
  <2> QED BY <1>1, <1>4, <1>5, <1>6, <2>1, <2>2 DEF PlannerOK
<1>11. RestoredOK'
  BY <1>1, <1>6 DEF RestoredOK, history
<1>12. DeployerOK'
  BY <1>1, <1>4, OthersKeepDeployer DEF Decays, Stays, Agree, Typed, Runs, Folders, history
<1> QED BY <1>7, <1>8, <1>9, <1>10, <1>11, <1>12

\* A step of the planner that leaves the files, and all that was made, as they are.
LEMMA PlannerMoves ==
    ASSUME IInv, UNCHANGED <<disk, deployer, history>>,
           planner' \in Runs(PlannerPcs), PlannerOK', RestoredOK'
    PROVE  IInv'
<1> USE DEF IInv
<1>1. Typed'
  BY DEF Typed, disk, history
<1>2. SnapshotOK' /\ ProjectionsOK'
  BY DEF SnapshotOK, ProjectionsOK, Fits, disk, history
<1>3. DeployerOK'
  BY OthersKeepDeployer DEF Decays, Stays, Agree, disk, history
<1> QED BY <1>1, <1>2, <1>3

LEMMA PlanningStops ==
    ASSUME IInv, UNCHANGED <<disk, deployer, history>>,
           planner' \in Runs(PlannerPcs), planner'.pc \in {"idle", "clean"}
    PROVE  IInv'
<1>1. PlannerOK' /\ RestoredOK'
  BY DEF IInv, PlannerOK, RestoredOK, disk, history
<1> QED BY <1>1, PlannerMoves

LEMMA IdleTyped == Idle \in Runs(PlannerPcs) /\ Idle \in Runs(DeployerPcs) /\ Idle.pc = "idle"
BY EmptyFacts DEF Idle, Runs, PlannerPcs, DeployerPcs, Resting, Projections

LEMMA ReadSnapshotIInv == IInv /\ ReadSnapshot => IInv'
<1> SUFFICES ASSUME IInv, ReadSnapshot PROVE IInv'
    OBVIOUS
<1>1. /\ planner' \in Runs(PlannerPcs)
      /\ planner'.pc = "compare" /\ planner'.on = "rollback"
  BY IdleTyped
  DEF IInv, ReadSnapshot, Typed, Runs, PlannerPcs, Projections, Folders, FolderRecords, Idle
<1>2. folder["snapshot"].manifest # None /\ folder["snapshot"].manifest = captured
  BY DEF IInv, ReadSnapshot, SnapshotOK
<1>3. PlannerOK' /\ RestoredOK'
  BY <1>1, <1>2 DEF IInv, ReadSnapshot, PlannerOK, RestoredOK, disk, history
<1> QED BY <1>1, <1>3, PlannerMoves DEF ReadSnapshot

LEMMA CompareSnapshotIInv == IInv /\ CompareSnapshot => IInv'
<1> SUFFICES ASSUME IInv, CompareSnapshot PROVE IInv'
    OBVIOUS
<1> USE DEF IInv, CompareSnapshot
<1>1. CASE planner.tree # folder["snapshot"].manifest
  BY <1>1, IdleTyped, PlanningStops DEF disk
<1>2. CASE planner.tree = folder["snapshot"].manifest
  <2>1. /\ planner.on = "rollback" /\ ~folder["rollback"].exists
        /\ captured # None /\ planner.tree = captured
    BY <1>2 DEF PlannerOK
  <2>2. /\ folder' \in [Folders -> FolderRecords]
        /\ folder'["rollback"] = [folder["rollback"] EXCEPT !.exists = TRUE]
        /\ \A y \in Folders \ {"rollback"} : folder'[y] = folder[y]
    <3>1. folder' = [folder EXCEPT !["rollback"].exists = TRUE]
      BY <1>2
    <3> QED BY <3>1, MakeFolderFacts DEF Folders, Projections
  <2>3. /\ folder'["rollback"].files = folder["rollback"].files
        /\ folder'["rollback"].manifest = folder["rollback"].manifest
        /\ folder'["rollback"].exists
    BY <2>2 DEF Typed, Folders, Projections, FolderRecords
  <2>4. /\ planner' \in Runs(PlannerPcs) /\ planner'.pc = "copy" /\ planner'.on = "rollback"
        /\ planner'.tree = captured /\ planner'.todo = DOMAIN captured
    BY <1>2, <2>1, FileSetFacts DEF Restoring, Typed, Runs, PlannerPcs
  <2>5. /\ "rollback" \notin published /\ folder["rollback"].manifest = None
        /\ DOMAIN folder["rollback"].files = {}
    BY <2>1 DEF ProjectionsOK, Projections
  <2>6. Typed'
    BY <2>2, <2>4 DEF Typed, history
  <2>7. SnapshotOK'
    BY <2>2 DEF SnapshotOK, Folders, Projections, history
  <2>8. ProjectionsOK'
    BY <2>2, <2>3, <2>5 DEF ProjectionsOK, Fits, Folders, Projections, history
  <2>9. PlannerOK' /\ RestoredOK'
    BY <2>1, <2>3, <2>4, <2>5 DEF PlannerOK, RestoredOK, history
  <2>10. DeployerOK'
    BY <2>2, <2>3, OthersKeepDeployer DEF Decays, Stays, Agree, Typed, Runs, Folders, history
  <2> QED BY <2>6, <2>7, <2>8, <2>9, <2>10
<1> QED BY <1>1, <1>2

LEMMA DescribeIInv == IInv /\ Describe => IInv'
<1> SUFFICES ASSUME IInv, Describe PROVE IInv'
    OBVIOUS
<1>0. PICK x : x = planner.on
  OBVIOUS
<1> USE <1>0
<1> DEFINE files == folder[x].files
<1>1. /\ x \in Projections /\ x \in Folders /\ files \in FileSets
      /\ folder[x].exists /\ x \notin published /\ folder[x].manifest = None
  BY DEF IInv, Describe, Typed, Runs, FolderRecords, Folders, PlannerOK
<1>2. /\ built' \in [Projections -> FileSets \cup {None}]
      /\ built'[x] = files /\ \A y \in Projections \ {x} : built'[y] = built[y]
  BY <1>1 DEF IInv, Describe, Typed
<1>3. /\ planner' \in Runs(PlannerPcs)
      /\ planner'.pc = "save" /\ planner'.on = x /\ planner'.manifest = files
  BY <1>1 DEF IInv, Describe, Typed, Runs, PlannerPcs
<1>4. UNCHANGED <<authority, folder, published, runtime, deployer, captured, kept, late>>
  BY DEF Describe, disk
<1>5. Typed'
  BY <1>2, <1>3, <1>4 DEF IInv, Typed
<1>6. SnapshotOK'
  BY <1>4 DEF IInv, SnapshotOK
<1>7. ProjectionsOK'
  BY <1>1, <1>2, <1>4 DEF IInv, ProjectionsOK, Fits
<1>8. PlannerOK'
  <2>1. Fits(x)'
    BY <1>1, <1>2, <1>4 DEF Fits
  <2> QED BY <1>1, <1>2, <1>3, <1>4, <2>1 DEF PlannerOK
<1>9. RestoredOK'
  <2>1. CASE x = "deploy"
    BY <1>2, <1>3, <1>4, <2>1 DEF IInv, RestoredOK, Projections
  <2>2. CASE x = "rollback"
    <3>1. /\ captured # None /\ DOMAIN files = DOMAIN captured
          /\ \A g \in DOMAIN files : files[g] = captured[g]
      BY <2>2 DEF IInv, Describe, PlannerOK
    <3> QED BY <1>2, <1>4, <2>2, <3>1 DEF RestoredOK, Agree
  <2> QED BY <1>1, <2>1, <2>2 DEF Projections
<1>10. DeployerOK'
  BY <1>1, <1>2, <1>4, OthersKeepDeployer DEF IInv, Typed, Runs, Decays, Stays, Agree
<1> QED BY <1>5, <1>6, <1>7, <1>8, <1>9, <1>10 DEF IInv

\* A step that gives a projection its descriptor, seals or loses it.
LEMMA DescriptorMoves ==
    ASSUME IInv, NEW x \in Projections,
           UNCHANGED <<authority, published, runtime, deployer, history>>,
           folder' \in [Folders -> FolderRecords], planner' \in Runs(PlannerPcs),
           \A y \in Folders \ {x} : folder'[y] = folder[y],
           folder'[x].files = folder[x].files, folder'[x].exists = folder[x].exists,
           folder'[x].manifest # None => folder[x].exists,
           folder'[x].manifest \in {None, folder[x].manifest, built[x]},
           PlannerOK', RestoredOK'
    PROVE  IInv'
<1>1. Typed' /\ SnapshotOK'
  BY DEF IInv, Typed, SnapshotOK, Folders, Projections, history
<1>2. ProjectionsOK'
  BY DEF IInv, ProjectionsOK, Fits, Folders, Projections, history
<1>3. \A y \in Projections : Decays(y) /\ \A f : Stays(y, f)
  BY DEF Decays, Stays, Agree, Folders
<1>4. DeployerOK'
  BY <1>3, OthersKeepDeployer DEF IInv, Typed, Runs, history
<1> QED BY <1>1, <1>2, <1>4 DEF IInv

LEMMA SaveDescriptorIInv == IInv /\ SaveDescriptor => IInv'
<1> SUFFICES ASSUME IInv, SaveDescriptor PROVE IInv'
    OBVIOUS
<1>0. PICK x : x = planner.on
  OBVIOUS
<1> USE <1>0
<1>1. /\ x \in Projections /\ x \in Folders /\ folder[x].exists /\ x \notin published
      /\ planner.manifest = built[x] /\ Fits(x) /\ built[x] \in FileSets
  BY DEF IInv, SaveDescriptor, Typed, Runs, Folders, PlannerOK, Fits
<1>2. /\ folder' \in [Folders -> FolderRecords]
      /\ \A y \in Folders \ {x} : folder'[y] = folder[y]
      /\ folder'[x].files = folder[x].files /\ folder'[x].exists = folder[x].exists
      /\ folder'[x].manifest = built[x]
  BY <1>1 DEF IInv, SaveDescriptor, Typed, FolderRecords
<1>3. planner' \in Runs(PlannerPcs) /\ planner'.pc = "seal" /\ planner'.on = x
  BY DEF IInv, SaveDescriptor, Plan, Typed, Runs, PlannerPcs
<1>4. Fits(x)'
  BY <1>1, <1>2 DEF SaveDescriptor, Fits, history
<1>5. PlannerOK'
  BY <1>1, <1>2, <1>3, <1>4 DEF PlannerOK, SaveDescriptor
<1>6. RestoredOK'
  BY <1>3 DEF IInv, RestoredOK, SaveDescriptor, history
<1> QED BY <1>1, <1>2, <1>3, <1>5, <1>6, DescriptorMoves DEF SaveDescriptor

LEMMA SealDescriptorIInv == IInv /\ SealDescriptor => IInv'
<1> SUFFICES ASSUME IInv, SealDescriptor PROVE IInv'
    OBVIOUS
<1>0. PICK x : x = planner.on
  OBVIOUS
<1> USE <1>0
<1>1. x \in Projections /\ x \in Folders /\ folder[x].exists /\ x \notin published /\ Fits(x)
  BY DEF IInv, SealDescriptor, Typed, Runs, Folders, PlannerOK
<1>2. /\ folder' \in [Folders -> FolderRecords]
      /\ \A y \in Folders \ {x} : folder'[y] = folder[y]
      /\ folder'[x].files = folder[x].files /\ folder'[x].exists = folder[x].exists
      /\ folder'[x].manifest = folder[x].manifest
  BY <1>1 DEF IInv, SealDescriptor, Typed, FolderRecords
<1>3. planner' \in Runs(PlannerPcs) /\ planner'.pc = "publish" /\ planner'.on = x
  BY DEF IInv, SealDescriptor, Plan, Typed, Runs, PlannerPcs
<1>4. Fits(x)'
  BY <1>1, <1>2 DEF SealDescriptor, Fits, history
<1>5. PlannerOK'
  BY <1>1, <1>2, <1>3, <1>4 DEF PlannerOK, SealDescriptor
<1>6. RestoredOK'
  BY <1>3 DEF IInv, RestoredOK, SealDescriptor, history
<1> QED BY <1>1, <1>2, <1>3, <1>5, <1>6, DescriptorMoves DEF SealDescriptor

LEMMA PublishPlanIInv == IInv /\ PublishPlan => IInv'
<1> SUFFICES ASSUME IInv, PublishPlan PROVE IInv'
    OBVIOUS
<1>0. PICK x : x = planner.on
  OBVIOUS
<1> USE <1>0
<1>1. x \in Projections /\ folder[x].exists /\ Fits(x)
  BY DEF IInv, PublishPlan, Typed, Runs, PlannerOK
<1>2. planner' \in Runs(PlannerPcs) /\ planner'.pc \in {"idle", "clean"} /\ planner'.on = x
  BY DEF IInv, PublishPlan, Plan, Typed, Runs, PlannerPcs
<1>3. Typed'
  BY <1>1, <1>2 DEF IInv, PublishPlan, Typed, history
<1>4. SnapshotOK' /\ ProjectionsOK'
  BY <1>1 DEF IInv, PublishPlan, SnapshotOK, ProjectionsOK, Fits, history
<1>5. PlannerOK' /\ RestoredOK'
  BY <1>2 DEF IInv, PublishPlan, PlannerOK, RestoredOK, history
<1>6. DeployerOK'
  BY OthersKeepDeployer DEF PublishPlan, Decays, Stays, Agree, history
<1> QED BY <1>3, <1>4, <1>5, <1>6 DEF IInv

LEMMA PlanEnds == IInv /\ (PlanFails \/ CleanEnds \/ KillPlanner) => IInv'
<1> SUFFICES ASSUME IInv, PlanFails \/ CleanEnds \/ KillPlanner PROVE IInv'
    OBVIOUS
<1>1. planner' \in Runs(PlannerPcs) /\ planner'.pc \in {"idle", "clean"}
  BY IdleTyped DEF IInv, Typed, PlanFails, CleanEnds, KillPlanner, Plan, Runs, PlannerPcs
<1>2. UNCHANGED <<disk, deployer, history>>
  BY DEF PlanFails, CleanEnds, KillPlanner
<1> QED BY <1>1, <1>2, PlanningStops

----------------------------------------------------------------------------
(* What is lost                                                            *)

\* Files or the descriptor of a projection that nobody is describing are lost.
LEMMA ProjectionDecays ==
    ASSUME IInv, NEW x \in Projections, folder[x].exists,
           folder[x].manifest # None \/ planner.pc = "clean",
           UNCHANGED <<authority, published, runtime, planner, deployer, built, captured>>,
           kept' = kept, late \subseteq late', late' \subseteq Files,
           folder' \in [Folders -> FolderRecords],
           \A y \in Folders \ {x} : folder'[y] = folder[y],
           folder'[x].exists = folder[x].exists,
           folder'[x].manifest \in {None, folder[x].manifest},
           Decays(x),
           deployer.on = x /\ deployer.pc \in {"check", "diff"} =>
               \A f \in Files : f \in late' \/ Stays(x, f)
    PROVE  IInv'
<1>1. Typed' /\ SnapshotOK'
  BY DEF IInv, Typed, SnapshotOK, Folders, Projections
<1>2. Fits(x) => Fits(x)'
  BY FitsStays
<1>3. ProjectionsOK'
  <2>1. \A y \in Projections \ {x} : folder'[y] = folder[y] /\ (Fits(y) => Fits(y)')
    BY DEF Folders, Fits
  <2>2. folder[x].manifest = None => folder'[x].manifest = None
    OBVIOUS
  <2> QED BY <1>2, <2>1, <2>2 DEF IInv, ProjectionsOK
<1>4. PlannerOK'
  <2>1. "snapshot" \in Folders \ {x} /\ planner.on \in Projections
    BY DEF Folders, Projections, IInv, Typed, Runs
  <2>2. CASE planner.on # x
    <3>1. planner.on \in Folders \ {x}
      BY <2>1, <2>2 DEF Folders
    <3> QED BY <2>1, <2>2, <3>1 DEF IInv, PlannerOK, Fits
  <2>3. CASE planner.on = x
    BY <1>2, <2>1, <2>3 DEF IInv, PlannerOK
  <2> QED BY <2>2, <2>3
<1>5. RestoredOK'
  BY DEF IInv, RestoredOK
<1>6. \A y \in Projections : Decays(y) /\ (y # x => \A f : Stays(y, f))
  BY DEF Decays, Stays, Agree, Folders
<1>7. DeployerOK'
  BY <1>6, OthersKeepDeployer DEF IInv, Typed, Runs
<1> QED BY <1>1, <1>3, <1>4, <1>5, <1>7 DEF IInv

LEMMA TornFacts ==
    ASSUME NEW F \in FileSets, NEW f \in Files
    PROVE  /\ With(F, f, Torn) \in FileSets /\ DOMAIN With(F, f, Torn) = DOMAIN F \cup {f}
           /\ \A g \in DOMAIN F \cup {f} : With(F, f, Torn)[g] = IF g = f THEN Torn ELSE F[g]
<1>1. DOMAIN F \cup {f} \in SUBSET Files
  BY FileSetFacts
<1>2. With(F, f, Torn) \in [DOMAIN F \cup {f} -> Contents]
  BY FileSetFacts DEF With, Contents
<1>3. With(F, f, Torn) \in FileSets
  BY <1>1, <1>2, FileSetIntro
<1> QED BY <1>3 DEF With

\* One file of a directory is damaged or lost.
LEMMA FileGoes ==
    ASSUME Typed, NEW x \in Folders, NEW f \in DOMAIN folder[x].files,
           \/ folder' = [folder EXCEPT ![x].files = With(@, f, Torn)]
           \/ folder' = [folder EXCEPT ![x].files = Without(@, f)]
    PROVE  /\ folder' \in [Folders -> FolderRecords]
           /\ \A y \in Folders \ {x} : folder'[y] = folder[y]
           /\ folder'[x].exists = folder[x].exists /\ folder'[x].manifest = folder[x].manifest
           /\ folder'[x].sealed = folder[x].sealed /\ folder'[x].synced = folder[x].synced
           /\ f \in Files /\ Decays(x) /\ \A g : g # f => Stays(x, g)
<1> DEFINE old == folder[x].files
           new == folder'[x].files
<1>1. old \in FileSets /\ f \in Files /\ Torn \in Contents
  BY FileSetFacts DEF Typed, FolderRecords, Contents
<1>2. /\ With(old, f, Torn) \in FileSets /\ DOMAIN With(old, f, Torn) = DOMAIN old \cup {f}
      /\ \A g \in DOMAIN old \cup {f} : With(old, f, Torn)[g] = IF g = f THEN Torn ELSE old[g]
  <2> HIDE DEF old
  <2> QED BY <1>1, TornFacts
<1>3. /\ Without(old, f) \in FileSets /\ DOMAIN Without(old, f) = DOMAIN old \ {f}
      /\ \A g \in DOMAIN old \ {f} : Without(old, f)[g] = old[g]
  BY <1>1, WithoutFacts
<1>4. new = With(old, f, Torn) \/ new = Without(old, f)
  BY DEF Typed, FolderRecords
<1>5. Decays(x) /\ \A g : g # f => Stays(x, g)
  <2>1. f \in DOMAIN old
    OBVIOUS
  <2>2. DOMAIN new \subseteq DOMAIN old /\ \A g \in DOMAIN new : new[g] \in {old[g], Torn}
    <3> HIDE DEF old, new
    <3> QED BY <1>2, <1>3, <1>4, <2>1
  <2>3. \A g : g # f => Agree(old, new, g)
    <3> HIDE DEF old, new
    <3> QED BY <1>2, <1>3, <1>4, <2>1 DEF Agree
  <2> QED BY <2>2, <2>3 DEF Decays, Stays
<1>6. /\ folder' \in [Folders -> FolderRecords]
      /\ \A y \in Folders \ {x} : folder'[y] = folder[y]
      /\ folder'[x].exists = folder[x].exists /\ folder'[x].manifest = folder[x].manifest
      /\ folder'[x].sealed = folder[x].sealed /\ folder'[x].synced = folder[x].synced
  BY <1>2, <1>3 DEF Typed, FolderRecords
<1> QED BY <1>1, <1>5, <1>6

\* What goes while the projection is verified is noted.
LEMMA GoingFacts ==
    ASSUME Typed, NEW x, NEW f \in Files, Going(x, f)
    PROVE  /\ late \subseteq late' /\ late' \subseteq Files
           /\ deployer.on = x /\ deployer.pc \in {"check", "diff"} => f \in late'
BY DEF Typed, Going

LEMMA RemoveEntryIInv == IInv /\ RemoveEntry => IInv'
<1> SUFFICES ASSUME IInv, RemoveEntry PROVE IInv'
    OBVIOUS
<1>0. PICK x : x = planner.on
  OBVIOUS
<1>1. x \in Projections /\ x \in Folders /\ planner.pc = "clean"
  BY <1>0 DEF IInv, RemoveEntry, Typed, Runs, Folders
<1>2. ASSUME NEW f \in DOMAIN folder[x].files,
             folder' = [folder EXCEPT ![x].files = Without(@, f)], Going(x, f)
      PROVE  IInv'
  <2>1. /\ folder' \in [Folders -> FolderRecords]
        /\ \A y \in Folders \ {x} : folder'[y] = folder[y]
        /\ folder'[x].exists = folder[x].exists /\ folder'[x].manifest = folder[x].manifest
        /\ f \in Files /\ Decays(x) /\ \A g : g # f => Stays(x, g)
    BY <1>1, <1>2, FileGoes DEF IInv
  <2>2. /\ late \subseteq late' /\ late' \subseteq Files
        /\ deployer.on = x /\ deployer.pc \in {"check", "diff"} => f \in late'
    BY <1>2, <2>1, GoingFacts DEF IInv
  <2>3. folder[x].exists
    BY <1>1, <1>2 DEF IInv, ProjectionsOK
  <2> QED BY <1>1, <2>1, <2>2, <2>3, ProjectionDecays DEF RemoveEntry
<1>3. ASSUME folder[x].manifest # None, folder' = [folder EXCEPT ![x].manifest = None],
             UNCHANGED late
      PROVE  IInv'
  <2>1. /\ folder' \in [Folders -> FolderRecords]
        /\ \A y \in Folders \ {x} : folder'[y] = folder[y]
        /\ folder'[x].exists = folder[x].exists /\ folder'[x].files = folder[x].files
        /\ folder'[x].manifest = None
    BY <1>1, <1>3 DEF IInv, Typed, FolderRecords
  <2>2. Decays(x) /\ \A g : Stays(x, g)
    BY <2>1 DEF Decays, Stays, Agree
  <2>3. folder[x].exists /\ late \subseteq Files
    BY <1>1, <1>3 DEF IInv, ProjectionsOK, Typed
  <2> QED BY <1>1, <1>3, <2>1, <2>2, <2>3, ProjectionDecays DEF RemoveEntry
<1> QED BY <1>0, <1>2, <1>3 DEF RemoveEntry

LEMMA DamageIInv == ASSUME IInv, NEW x \in Folders, Damage(x) PROVE IInv'
<1>1. PICK f \in DOMAIN folder[x].files :
          /\ Going(x, f)
          /\ \/ folder' = [folder EXCEPT ![x].files = With(@, f, Torn)]
             \/ folder' = [folder EXCEPT ![x].files = Without(@, f)]
  BY DEF Damage
<1>2. /\ folder' \in [Folders -> FolderRecords]
      /\ \A y \in Folders \ {x} : folder'[y] = folder[y]
      /\ folder'[x].exists = folder[x].exists /\ folder'[x].manifest = folder[x].manifest
      /\ folder'[x].sealed = folder[x].sealed /\ folder'[x].synced = folder[x].synced
      /\ f \in Files /\ Decays(x) /\ \A g : g # f => Stays(x, g)
  BY <1>1, FileGoes DEF IInv
<1>3. /\ late \subseteq late' /\ late' \subseteq Files
      /\ deployer.on = x /\ deployer.pc \in {"check", "diff"} => f \in late'
  BY <1>1, <1>2, GoingFacts DEF IInv
<1>4. /\ UNCHANGED <<authority, published, runtime, planner, deployer, built, captured>>
      /\ kept' = (kept /\ x # "snapshot") /\ folder[x].manifest # None
  BY DEF Damage
<1>5. CASE x \in Projections
  <2>1. folder[x].exists /\ x # "snapshot" /\ kept' = kept
    BY <1>4, <1>5 DEF IInv, ProjectionsOK, Projections, Typed
  <2> QED BY <1>2, <1>3, <1>4, <1>5, <2>1, ProjectionDecays
<1>6. CASE x = "snapshot"
  <2>1. \A y \in Projections : y \in Folders /\ folder'[y] = folder[y]
    BY <1>2, <1>6 DEF Folders, Projections
  <2>2. Typed'
    BY <1>2, <1>3, <1>4 DEF IInv, Typed
  <2>3. DOMAIN folder'[x].files \subseteq DOMAIN folder[x].files /\ ~kept'
    BY <1>2, <1>4, <1>6 DEF Decays
  <2>4. SnapshotOK'
    BY <1>2, <1>4, <1>6, <2>3 DEF IInv, SnapshotOK
  <2>5. ProjectionsOK' /\ RestoredOK'
    BY <1>4, <2>1 DEF IInv, ProjectionsOK, Fits, RestoredOK
  <2>6. PlannerOK'
    BY <1>2, <1>4, <1>6, <2>1 DEF IInv, PlannerOK, Fits, Typed, Runs
  <2>7. DeployerOK'
    BY <1>3, <1>4, <2>1, OthersKeepDeployer DEF IInv, Typed, Runs, Decays, Stays, Agree
  <2> QED BY <2>2, <2>4, <2>5, <2>6, <2>7 DEF IInv
<1> QED BY <1>5, <1>6 DEF Folders

LEMMA EditAuthorityIInv == ASSUME IInv, NEW f \in Files, EditAuthority(f) PROVE IInv'
<1>1. UNCHANGED <<folder, published, runtime, planner, deployer, history>>
  BY DEF EditAuthority
<1>2. authority' \in [Files -> Nat]
  BY DEF EditAuthority, IInv, Typed
<1>3. Typed' /\ SnapshotOK' /\ ProjectionsOK' /\ PlannerOK' /\ RestoredOK'
  BY <1>1, <1>2
  DEF IInv, Typed, SnapshotOK, ProjectionsOK, PlannerOK, RestoredOK, Fits, history
<1>4. DeployerOK'
  BY <1>1, OthersKeepDeployer DEF Decays, Stays, Agree, history
<1> QED BY <1>3, <1>4 DEF IInv

\* What a power failure leaves of a directory.
LEMMA PowerFailureFacts ==
    ASSUME IInv, PowerFailure
    PROVE  /\ folder' \in [Folders -> FolderRecords]
           /\ \A x \in Folders :
                 /\ Decays(x)
                 /\ folder'[x].exists = folder[x].exists /\ folder'[x].sealed = folder[x].sealed
                 /\ folder'[x].synced = folder[x].synced
                 /\ folder'[x].manifest \in {None, folder[x].manifest}
                 /\ folder[x].sealed => folder'[x].manifest = folder[x].manifest
                 /\ DOMAIN folder[x].files \subseteq folder[x].synced =>
                       folder'[x].files = folder[x].files
<1>1. PICK torn \in SUBSET Unsynced, gone \in SUBSET Unsealed :
         \E lost \in SUBSET torn :
          folder' = [x \in Folders |->
              [folder[x] EXCEPT
                  !.files = [f \in {g \in DOMAIN @ : <<x, g>> \notin lost} |->
                                IF <<x, f>> \in torn THEN Torn ELSE @[f]],
                  !.manifest = IF x \in gone THEN None ELSE @]]
  BY DEF PowerFailure
<1>2. PICK lost \in SUBSET torn :
          folder' = [x \in Folders |->
              [folder[x] EXCEPT
                  !.files = [f \in {g \in DOMAIN @ : <<x, g>> \notin lost} |->
                                IF <<x, f>> \in torn THEN Torn ELSE @[f]],
                  !.manifest = IF x \in gone THEN None ELSE @]]
  BY <1>1
<1> DEFINE left(x) == {g \in DOMAIN folder[x].files : <<x, g>> \notin lost}
           files(x) == [f \in left(x) |-> IF <<x, f>> \in torn THEN Torn ELSE folder[x].files[f]]
<1>3. ASSUME NEW x \in Folders
      PROVE  /\ folder'[x] = [folder[x] EXCEPT !.files = files(x),
                                               !.manifest = IF x \in gone THEN None ELSE @]
             /\ folder[x] \in FolderRecords
  BY <1>2 DEF IInv, Typed
<1> HIDE DEF files
<1>4. ASSUME NEW x \in Folders
      PROVE  /\ folder'[x] \in FolderRecords /\ folder'[x].files = files(x)
             /\ folder'[x].exists = folder[x].exists /\ folder'[x].sealed = folder[x].sealed
             /\ folder'[x].synced = folder[x].synced
             /\ folder'[x].manifest = IF x \in gone THEN None ELSE folder[x].manifest
  <2>1. folder[x].files \in FileSets
    BY <1>3 DEF FolderRecords
  <2>2. left(x) \in SUBSET Files
    BY <2>1, FileSetFacts
  <2>3. files(x) \in [left(x) -> Contents]
    BY <2>1, FileSetFacts DEF files, Contents
  <2>4. files(x) \in FileSets
    BY <2>2, <2>3, FileSetIntro
  <2> QED BY <1>3, <2>4 DEF FolderRecords
<1>5. folder' \in [Folders -> FolderRecords]
  <2>1. folder' = [x \in Folders |-> folder'[x]]
    BY <1>2
  <2> QED BY <1>4, <2>1
<1>6. ASSUME NEW x \in Folders
      PROVE  /\ Decays(x)
             /\ folder[x].sealed => x \notin gone
             /\ DOMAIN folder[x].files \subseteq folder[x].synced => files(x) = folder[x].files
  <2>1. Decays(x)
    BY <1>4 DEF Decays, files
  <2>2. folder[x].sealed => x \notin gone
    BY DEF Unsealed
  <2>3. ASSUME DOMAIN folder[x].files \subseteq folder[x].synced PROVE files(x) = folder[x].files
    <3>1. \A f : <<x, f>> \notin Unsynced
      BY <2>3 DEF Unsynced
    <3>2. \A f : <<x, f>> \notin torn /\ <<x, f>> \notin lost
      BY <3>1
    <3>3. left(x) = DOMAIN folder[x].files
      BY <3>2
    <3>4. files(x) = [f \in DOMAIN folder[x].files |-> folder[x].files[f]]
      BY <3>2, <3>3 DEF files
    <3>5. folder[x].files \in FileSets
      BY <1>3 DEF FolderRecords
    <3> QED BY <3>4, <3>5, FileSetFacts
  <2> QED BY <2>1, <2>2, <2>3
<1> QED BY <1>4, <1>5, <1>6

LEMMA PowerFailureIInv == IInv /\ PowerFailure => IInv'
<1> SUFFICES ASSUME IInv, PowerFailure PROVE IInv'
    OBVIOUS
<1>1. /\ UNCHANGED <<authority, published, runtime, history>>
      /\ planner' = Idle /\ deployer' = IF deployer.pc \in Resting THEN deployer ELSE Idle
  BY DEF PowerFailure
<1>2. /\ folder' \in [Folders -> FolderRecords]
      /\ \A x \in Folders :
            /\ Decays(x)
            /\ folder'[x].exists = folder[x].exists /\ folder'[x].sealed = folder[x].sealed
            /\ folder'[x].synced = folder[x].synced
            /\ folder'[x].manifest \in {None, folder[x].manifest}
            /\ folder[x].sealed => folder'[x].manifest = folder[x].manifest
            /\ DOMAIN folder[x].files \subseteq folder[x].synced =>
                  folder'[x].files = folder[x].files
  BY PowerFailureFacts
<1>3. Typed'
  BY <1>1, <1>2, IdleTyped DEF IInv, Typed, history
<1>4. SnapshotOK'
  <2>1. "snapshot" \in Folders /\ deployer'.pc \notin {"locate", "capture", "rename"}
    BY <1>1, IdleTyped DEF Folders, Resting
  <2>2. folder'["snapshot"].files = folder["snapshot"].files
    BY <1>2, <2>1 DEF IInv, SnapshotOK
  <2> QED BY <1>1, <1>2, <2>1, <2>2 DEF IInv, SnapshotOK, history
<1>5. ProjectionsOK'
  <2>1. \A x \in Projections : Fits(x) => Fits(x)'
    BY <1>1, <1>2, FitsStays DEF Folders, history
  <2>2. \A x \in Projections : DOMAIN folder'[x].files \subseteq DOMAIN folder[x].files
    BY <1>2 DEF Decays, Folders
  <2> QED BY <1>1, <1>2, <2>1, <2>2 DEF IInv, ProjectionsOK, Folders
<1>6. PlannerOK' /\ RestoredOK'
  BY <1>1, IdleTyped DEF IInv, PlannerOK, RestoredOK, history
<1>7. DeployerOK'
  <2>1. CASE deployer.pc \in Resting
    BY <1>1, <1>2, <2>1, OthersKeepDeployer DEF IInv, Typed, Runs, Folders, Resting, history
  <2>2. CASE deployer.pc \notin Resting
    BY <1>1, <2>2, IdleTyped DEF DeployerOK, VerifiedIsBuilt
  <2> QED BY <2>1, <2>2
<1> QED BY <1>3, <1>4, <1>5, <1>6, <1>7 DEF IInv

----------------------------------------------------------------------------
(* Deployment                                                              *)

\* A step of the deployer that leaves the directories as they are.
LEMMA DeployerMoves ==
    ASSUME IInv, UNCHANGED <<authority, folder, published, planner, built, captured, kept>>,
           runtime' \in FileSets, late' \subseteq Files, deployer' \in Runs(DeployerPcs),
           deployer'.pc = "locate" /\ deployer'.on = "deploy" => ~folder["snapshot"].exists,
           deployer'.pc \notin {"capture", "rename"}, DeployerOK'
    PROVE  IInv'
<1>1. Typed' /\ SnapshotOK' /\ ProjectionsOK' /\ PlannerOK' /\ RestoredOK'
  BY DEF IInv, Typed, SnapshotOK, ProjectionsOK, PlannerOK, RestoredOK, Fits
<1> QED BY <1>1 DEF IInv

LEMMA DeployEnds == IInv /\ (DeployFails \/ KillDeployer) => IInv'
<1> SUFFICES ASSUME IInv, DeployFails \/ KillDeployer PROVE IInv'
    OBVIOUS
<1>1. UNCHANGED <<disk, planner, history>>
  BY DEF DeployFails, KillDeployer
<1>2. deployer' \in Runs(DeployerPcs) /\ deployer'.pc \in {"idle", "failed"}
  BY IdleTyped DEF IInv, Typed, DeployFails, KillDeployer, Fail, Runs, DeployerPcs, Resting
<1>3. DeployerOK'
  BY <1>2 DEF DeployerOK, VerifiedIsBuilt
<1> QED BY <1>1, <1>2, <1>3, DeployerMoves DEF IInv, Typed, disk, history

LEMMA LocateIInv == ASSUME IInv, NEW x \in Projections, Locate(x) PROVE IInv'
<1>1. UNCHANGED <<disk, planner, history>> /\ x \in published /\ folder[x].manifest # None
  BY DEF Locate
<1>2. folder[x].manifest = built[x] /\ built[x] \in FileSets
  BY <1>1 DEF IInv, ProjectionsOK, Fits
<1>3. /\ deployer' \in Runs(DeployerPcs)
      /\ deployer'.pc = "locate" /\ deployer'.on = x /\ deployer'.manifest = built[x]
  BY <1>2, IdleTyped DEF Locate, Runs, DeployerPcs, Idle
<1>4. DeployerOK'
  BY <1>1, <1>3 DEF DeployerOK, VerifiedIsBuilt, disk, history
<1>5. x = "deploy" => ~folder["snapshot"].exists
  BY DEF Locate
<1> QED BY <1>1, <1>3, <1>4, <1>5, DeployerMoves DEF IInv, Typed, disk, history

LEMMA ValidateFileIInv == ASSUME IInv, NEW f \in Files, ValidateFile(f) PROVE IInv'
<1>1. UNCHANGED <<disk, planner, history>> /\ deployer.pc \in {"locate", "check"}
  BY DEF ValidateFile
<1>2. CASE ~Agree(folder[deployer.on].files, deployer.manifest, f)
  <2>1. deployer' \in Runs(DeployerPcs) /\ deployer'.pc = "failed"
    BY <1>2 DEF ValidateFile, Fail, IInv, Typed, Runs, DeployerPcs, Resting
  <2>2. DeployerOK'
    BY <2>1 DEF DeployerOK, VerifiedIsBuilt
  <2> QED BY <1>1, <2>1, <2>2, DeployerMoves DEF IInv, Typed, disk, history
<1>3. CASE Agree(folder[deployer.on].files, deployer.manifest, f)
  <2>1. deployer' = [deployer EXCEPT !.todo = @ \ {f}]
    BY <1>3 DEF ValidateFile, Deploy, IInv, Typed, Runs
  <2>2. /\ deployer' \in Runs(DeployerPcs) /\ deployer'.pc = deployer.pc
        /\ deployer'.on = deployer.on /\ deployer'.todo = deployer.todo \ {f}
        /\ deployer'.manifest = deployer.manifest /\ deployer'.skipped = deployer.skipped
    BY <2>1 DEF IInv, Typed, Runs
  <2>3. deployer.manifest = built[deployer.on] /\ ~Spoiled(deployer.on, f)
    BY <1>1, <1>3 DEF IInv, DeployerOK, Spoiled
  <2>4. DeployerOK'
    BY <1>1, <2>2, <2>3
    DEF IInv, DeployerOK, VerifiedIsBuilt, Spoiled, Right, disk, history
  <2>5. deployer.pc = "locate" /\ deployer.on = "deploy" => ~folder["snapshot"].exists
    BY DEF IInv, SnapshotOK
  <2> QED BY <1>1, <2>2, <2>4, <2>5, DeployerMoves DEF IInv, Typed, disk, history
<1> QED BY <1>2, <1>3

\* A step of the capture changes the snapshot only; there was none before.
LEMMA CaptureMoves ==
    ASSUME IInv, UNCHANGED <<authority, published, runtime, planner, built, late>>,
           folder' \in [Folders -> FolderRecords],
           \A y \in Projections : folder'[y] = folder[y],
           captured' \in FileSets \cup {None}, kept' \in BOOLEAN,
           deployer' \in Runs(DeployerPcs), SnapshotOK', DeployerOK',
           captured = None \/ /\ captured' = captured
                              /\ folder'["snapshot"].manifest = folder["snapshot"].manifest
    PROVE  IInv'
<1>1. Typed' /\ ProjectionsOK'
  BY DEF IInv, Typed, ProjectionsOK, Fits
<1>2. PlannerOK' /\ RestoredOK'
  <2>1. planner.on \in Projections
    BY DEF IInv, Typed, Runs
  <2>2. CASE captured = None
    BY <2>1, <2>2 DEF IInv, PlannerOK, RestoredOK, Fits
  <2>3. CASE captured' = captured /\ folder'["snapshot"].manifest = folder["snapshot"].manifest
    BY <2>1, <2>3 DEF IInv, PlannerOK, RestoredOK, Fits
  <2> QED BY <2>2, <2>3
<1> QED BY <1>1, <1>2 DEF IInv

LEMMA BeginCaptureIInv == IInv /\ BeginCapture => IInv'
<1> SUFFICES ASSUME IInv, BeginCapture PROVE IInv'
    OBVIOUS
<1>1. captured = None /\ ~kept
  BY DEF IInv, BeginCapture, SnapshotOK
<1>2. /\ folder' \in [Folders -> FolderRecords]
      /\ \A y \in Projections : folder'[y] = folder[y]
      /\ folder'["snapshot"] = [NoFolder EXCEPT !.exists = TRUE]
  BY EmptyFacts DEF IInv, BeginCapture, Typed, FolderRecords, Folders, Projections, NoFolder
<1>3. /\ deployer' \in Runs(DeployerPcs)
      /\ deployer'.pc = "capture" /\ deployer'.on = deployer.on
      /\ deployer'.manifest = deployer.manifest
      /\ deployer'.todo = DOMAIN deployer'.tree
  BY FileSetFacts DEF IInv, BeginCapture, Typed, Runs, DeployerPcs
<1>4. UNCHANGED <<authority, published, runtime, planner, history>> /\ deployer.pc = "locate"
  BY DEF BeginCapture
<1>5. SnapshotOK'
  BY <1>1, <1>2, <1>3, <1>4, EmptyFacts DEF SnapshotOK, NoFolder, history
<1>6. DeployerOK'
  BY <1>3, <1>4 DEF IInv, DeployerOK, VerifiedIsBuilt, history
<1> QED BY <1>1, <1>2, <1>3, <1>4, <1>5, <1>6, CaptureMoves DEF IInv, Typed, history

LEMMA CaptureFileIInv == ASSUME IInv, NEW f \in Files, CaptureFile(f) PROVE IInv'
<1>1. /\ UNCHANGED <<authority, published, runtime, planner, history>>
      /\ deployer.pc = "capture" /\ f \in deployer.todo
      /\ Put("snapshot", f, deployer.tree[f], TRUE)
  BY DEF CaptureFile
<1>2. /\ folder["snapshot"].exists /\ captured = None /\ ~kept
      /\ deployer.todo \subseteq DOMAIN deployer.tree
      /\ DOMAIN folder["snapshot"].files \subseteq folder["snapshot"].synced
      /\ folder["snapshot"].manifest \in {None, captured}
  BY <1>1 DEF IInv, SnapshotOK
<1>3. /\ "snapshot" \in Folders /\ deployer.tree \in FileSets /\ deployer.tree[f] \in Contents
      /\ folder["snapshot"].files \in FileSets
  BY <1>1, <1>2, FileSetFacts DEF IInv, Typed, Runs, Folders, FolderRecords
<1>4. /\ folder' \in [Folders -> FolderRecords]
      /\ \A y \in Folders \ {"snapshot"} : folder'[y] = folder[y]
      /\ folder'["snapshot"].exists = folder["snapshot"].exists
      /\ folder'["snapshot"].manifest = folder["snapshot"].manifest
      /\ folder'["snapshot"].files = With(folder["snapshot"].files, f, deployer.tree[f])
      /\ folder'["snapshot"].synced = folder["snapshot"].synced \cup {f}
  BY <1>1, <1>3, PutFacts DEF IInv
<1>5. DOMAIN folder'["snapshot"].files = DOMAIN folder["snapshot"].files \cup {f}
  <2>1. DOMAIN With(folder["snapshot"].files, f, deployer.tree[f])
            = DOMAIN folder["snapshot"].files \cup {f}
    BY DEF With
  <2> QED BY <1>4, <2>1
<1>6. /\ deployer' \in Runs(DeployerPcs)
      /\ deployer'.pc = "capture" /\ deployer'.on = deployer.on
      /\ deployer'.manifest = deployer.manifest /\ deployer'.tree = deployer.tree
      /\ deployer'.todo = deployer.todo \ {f}
  BY DEF CaptureFile, Deploy, IInv, Typed, Runs, DeployerPcs
<1>7. SnapshotOK'
  BY <1>1, <1>2, <1>4, <1>5, <1>6 DEF SnapshotOK, history
<1>8. DeployerOK'
  BY <1>1, <1>6 DEF IInv, DeployerOK, VerifiedIsBuilt, history
<1>9. \A y \in Projections : folder'[y] = folder[y]
  BY <1>4 DEF Folders, Projections
<1> QED BY <1>1, <1>2, <1>4, <1>6, <1>7, <1>8, <1>9, CaptureMoves DEF IInv, Typed, history

LEMMA RenameSnapshotIInv == IInv /\ RenameSnapshot => IInv'
<1> SUFFICES ASSUME IInv, RenameSnapshot PROVE IInv'
    OBVIOUS
<1>1. /\ UNCHANGED <<authority, published, runtime, planner, built, kept, late>>
      /\ deployer.pc = "capture" /\ captured' = deployer.tree
  BY DEF RenameSnapshot
<1>2. /\ folder["snapshot"].exists /\ captured = None /\ ~kept
      /\ DOMAIN folder["snapshot"].files \subseteq folder["snapshot"].synced
  BY <1>1 DEF IInv, SnapshotOK
<1>3. deployer.tree \in FileSets
  BY DEF IInv, Typed, Runs
<1>4. /\ folder' \in [Folders -> FolderRecords]
      /\ \A y \in Projections : folder'[y] = folder[y]
      /\ folder'["snapshot"].exists = folder["snapshot"].exists
      /\ folder'["snapshot"].manifest = deployer.tree
      /\ folder'["snapshot"].files = folder["snapshot"].files
      /\ folder'["snapshot"].synced = folder["snapshot"].synced
  BY <1>3 DEF RenameSnapshot, IInv, Typed, FolderRecords, Folders, Projections
<1>5. /\ deployer' \in Runs(DeployerPcs)
      /\ deployer'.pc = "rename" /\ deployer'.on = deployer.on
      /\ deployer'.manifest = deployer.manifest
  BY DEF RenameSnapshot, Deploy, IInv, Typed, Runs, DeployerPcs
<1>6. SnapshotOK'
  BY <1>1, <1>2, <1>4, <1>5 DEF SnapshotOK
<1>7. DeployerOK'
  BY <1>1, <1>5 DEF IInv, DeployerOK, VerifiedIsBuilt
<1> QED BY <1>1, <1>2, <1>3, <1>4, <1>5, <1>6, <1>7, CaptureMoves DEF IInv, Typed

LEMMA SyncSnapshotsIInv == IInv /\ SyncSnapshots => IInv'
<1> SUFFICES ASSUME IInv, SyncSnapshots PROVE IInv'
    OBVIOUS
<1>1. /\ UNCHANGED <<authority, published, runtime, planner, built, captured, late>>
      /\ deployer.pc = "rename" /\ kept' = (folder["snapshot"].files = captured)
  BY DEF SyncSnapshots
<1>2. /\ folder["snapshot"].exists /\ folder["snapshot"].manifest = captured
      /\ DOMAIN folder["snapshot"].files \subseteq folder["snapshot"].synced
  BY <1>1 DEF IInv, SnapshotOK
<1>3. /\ folder' \in [Folders -> FolderRecords]
      /\ \A y \in Projections : folder'[y] = folder[y]
      /\ folder'["snapshot"] = [folder["snapshot"] EXCEPT !.sealed = TRUE]
  <2>1. folder' = [folder EXCEPT !["snapshot"].sealed = TRUE]
    BY DEF SyncSnapshots
  <2> QED BY <2>1 DEF IInv, Typed, FolderRecords, Folders, Projections
<1>4. /\ folder'["snapshot"].exists /\ folder'["snapshot"].manifest = captured
      /\ folder'["snapshot"].files = folder["snapshot"].files
      /\ folder'["snapshot"].synced = folder["snapshot"].synced /\ folder'["snapshot"].sealed
  BY <1>2, <1>3 DEF IInv, Typed, FolderRecords, Folders
<1>5. /\ deployer' \in Runs(DeployerPcs)
      /\ deployer'.pc = "sync" /\ deployer'.on = deployer.on
      /\ deployer'.manifest = deployer.manifest /\ deployer'.todo = Files
  BY DEF SyncSnapshots, Deploy, IInv, Typed, Runs, DeployerPcs
<1>6. SnapshotOK'
  BY <1>1, <1>2, <1>4, <1>5 DEF SnapshotOK
<1>7. DeployerOK'
  BY <1>1, <1>5 DEF IInv, DeployerOK, VerifiedIsBuilt
<1>8. folder'["snapshot"].manifest = folder["snapshot"].manifest
  BY <1>2, <1>4
<1> QED BY <1>1, <1>3, <1>5, <1>6, <1>7, <1>8, CaptureMoves DEF IInv, Typed

LEMMA BeginRollbackIInv == IInv /\ BeginRollback => IInv'
<1> SUFFICES ASSUME IInv, BeginRollback PROVE IInv'
    OBVIOUS
<1>1. UNCHANGED <<disk, planner, history>> /\ deployer.pc = "locate"
  BY DEF BeginRollback
<1>2. /\ deployer' \in Runs(DeployerPcs)
      /\ deployer'.pc = "sync" /\ deployer'.on = deployer.on
      /\ deployer'.manifest = deployer.manifest /\ deployer'.todo = Files
  BY DEF BeginRollback, Deploy, IInv, Typed, Runs, DeployerPcs
<1>3. DeployerOK'
  BY <1>1, <1>2 DEF IInv, DeployerOK, VerifiedIsBuilt, disk, history
<1> QED BY <1>1, <1>2, <1>3, DeployerMoves DEF IInv, Typed, disk, history

LEMMA SyncFileIInv == ASSUME IInv, NEW f \in Files, SyncFile(f) PROVE IInv'
<1>0. PICK x : x = deployer.on
  OBVIOUS
<1> USE <1>0
<1>a. PICK files : files = folder[x].files
  OBVIOUS
<1>1. /\ UNCHANGED <<authority, folder, published, planner, history>>
      /\ deployer.pc = "sync" /\ f \in deployer.todo
      /\ runtime' = IF f \in DOMAIN files THEN With(runtime, f, files[f]) ELSE Without(runtime, f)
  BY <1>a DEF SyncFile
<1>2. /\ runtime \in FileSets /\ files \in FileSets
  BY <1>a DEF IInv, Typed, Runs, Folders, FolderRecords
<1>3. /\ deployer' \in Runs(DeployerPcs)
      /\ deployer'.pc = "sync" /\ deployer'.on = x
      /\ deployer'.manifest = deployer.manifest /\ deployer'.todo = deployer.todo \ {f}
  BY DEF SyncFile, Deploy, IInv, Typed, Runs, DeployerPcs
<1>4. /\ runtime' \in FileSets /\ Agree(runtime', files, f)
      /\ \A g : g # f => Agree(runtime', runtime, g)
  <2>1. CASE f \in DOMAIN files
    <3>1. files[f] \in Contents
      BY <1>2, <2>1, FileSetFacts
    <3>2. /\ runtime' \in FileSets /\ DOMAIN runtime' = DOMAIN runtime \cup {f}
          /\ \A g \in DOMAIN runtime \cup {f} : runtime'[g] = IF g = f THEN files[f] ELSE runtime[g]
      <4>1. runtime' = With(runtime, f, files[f])
        BY <1>1, <2>1
      <4>2. With(runtime, f, files[f]) \in FileSets
        BY <1>2, <3>1, WithFacts
      <4> QED BY <4>1, <4>2 DEF With
    <3> QED BY <2>1, <3>2 DEF Agree
  <2>2. CASE f \notin DOMAIN files
    <3>1. /\ runtime' \in FileSets /\ DOMAIN runtime' = DOMAIN runtime \ {f}
          /\ \A g \in DOMAIN runtime \ {f} : runtime'[g] = runtime[g]
      BY <1>1, <1>2, <2>2, WithoutFacts
    <3> QED BY <2>2, <3>1 DEF Agree
  <2> QED BY <2>1, <2>2
<1>5. \A g \in Files \ deployer'.todo : Right(g)' \/ Spoiled(x, g)
  <2> SUFFICES ASSUME NEW g \in Files \ deployer'.todo, ~Spoiled(x, g) PROVE Right(g)'
    OBVIOUS
  <2>1. built' = built /\ deployer'.on = x
    BY <1>1, <1>3 DEF history
  <2>2. CASE g = f
    <3>1. Agree(files, built[x], f)
      BY <1>a, <2>2 DEF Spoiled
    <3> QED BY <1>4, <2>1, <2>2, <3>1 DEF Right, Agree
  <2>3. CASE g # f
    <3>1. Right(g)
      BY <1>1, <1>3, <2>3 DEF IInv, DeployerOK
    <3>2. Agree(runtime', runtime, g)
      BY <1>4, <2>3
    <3> QED BY <2>1, <3>1, <3>2 DEF Right, Agree
  <2> QED BY <2>2, <2>3
<1>6. \A g : Spoiled(x, g) => Spoiled(x, g)'
  BY <1>1, <1>3 DEF Spoiled, history
<1>7. DeployerOK'
  BY <1>1, <1>3, <1>5, <1>6 DEF IInv, DeployerOK, VerifiedIsBuilt, history
<1> QED BY <1>1, <1>3, <1>4, <1>7, DeployerMoves DEF IInv, Typed, history

LEMMA BeginVerifyIInv == IInv /\ BeginVerify => IInv'
<1> SUFFICES ASSUME IInv, BeginVerify PROVE IInv'
    OBVIOUS
<1>1. /\ UNCHANGED <<disk, planner, built, captured, kept>> /\ late' = {}
      /\ deployer.pc = "sync"
  BY DEF BeginVerify
<1>2. /\ deployer' \in Runs(DeployerPcs)
      /\ deployer'.pc = "check" /\ deployer'.on = deployer.on
      /\ deployer'.manifest = deployer.manifest /\ deployer'.todo = Files
      /\ deployer'.skipped = deployer.todo
  BY DEF BeginVerify, IInv, Typed, Runs, DeployerPcs
<1>3. \A f \in Files : f \in deployer.todo \/ Right(f)' \/ Spoiled(deployer.on, f)'
  BY <1>1, <1>2 DEF IInv, DeployerOK, Right, Spoiled, disk
<1>4. DeployerOK'
  BY <1>1, <1>2, <1>3 DEF IInv, DeployerOK, VerifiedIsBuilt, Spoiled, disk
<1> QED BY <1>1, <1>2, <1>4, DeployerMoves DEF IInv, Typed, disk

LEMMA BeginDiffIInv == IInv /\ BeginDiff => IInv'
<1> SUFFICES ASSUME IInv, BeginDiff PROVE IInv'
    OBVIOUS
<1>1. UNCHANGED <<disk, planner, history>> /\ deployer.pc = "check" /\ deployer.todo = {}
  BY DEF BeginDiff
<1>2. /\ deployer' \in Runs(DeployerPcs)
      /\ deployer'.pc = "diff" /\ deployer'.on = deployer.on
      /\ deployer'.todo = Files /\ deployer'.skipped = deployer.skipped
  BY DEF BeginDiff, Deploy, IInv, Typed, Runs, DeployerPcs
<1>3. DeployerOK'
  BY <1>1, <1>2 DEF IInv, DeployerOK, VerifiedIsBuilt, Right, Spoiled, disk, history
<1> QED BY <1>1, <1>2, <1>3, DeployerMoves DEF IInv, Typed, disk, history

LEMMA DiffFileIInv == ASSUME IInv, NEW f \in Files, DiffFile(f) PROVE IInv'
<1>1. UNCHANGED <<disk, planner, history>> /\ deployer.pc = "diff"
  BY DEF DiffFile
<1>2. CASE ~Agree(folder[deployer.on].files, runtime, f)
  <2>1. deployer' \in Runs(DeployerPcs) /\ deployer'.pc = "failed"
    BY <1>2 DEF DiffFile, Fail, IInv, Typed, Runs, DeployerPcs, Resting
  <2>2. DeployerOK'
    BY <2>1 DEF DeployerOK, VerifiedIsBuilt
  <2> QED BY <1>1, <2>1, <2>2, DeployerMoves DEF IInv, Typed, disk, history
<1>3. CASE Agree(folder[deployer.on].files, runtime, f)
  <2>1. deployer' = [deployer EXCEPT !.pc = "diff", !.todo = @ \ {f}]
    BY <1>3 DEF DiffFile, Deploy
  <2>2. /\ deployer' \in Runs(DeployerPcs) /\ deployer'.pc = "diff"
        /\ deployer'.on = deployer.on /\ deployer'.todo = deployer.todo \ {f}
        /\ deployer'.skipped = deployer.skipped
    BY <2>1 DEF IInv, Typed, Runs, DeployerPcs
  <2>3. f \in late \/ Right(f)
    BY <1>1, <1>3 DEF IInv, DeployerOK, Spoiled, Right, Agree
  <2>4. DeployerOK'
    BY <1>1, <2>2, <2>3
    DEF IInv, DeployerOK, VerifiedIsBuilt, Spoiled, Right, disk, history
  <2> QED BY <1>1, <2>2, <2>4, DeployerMoves DEF IInv, Typed, disk, history
<1> QED BY <1>2, <1>3

LEMMA SucceedIInv == IInv /\ Succeed => IInv'
<1> SUFFICES ASSUME IInv, Succeed PROVE IInv'
    OBVIOUS
<1>1. UNCHANGED <<disk, planner, history>> /\ deployer.pc = "diff" /\ deployer.todo = {}
  BY DEF Succeed
<1>2. /\ deployer' \in Runs(DeployerPcs)
      /\ deployer'.pc = "succeeded" /\ deployer'.on = deployer.on
      /\ deployer'.skipped = deployer.skipped
  BY DEF Succeed, Deploy, IInv, Typed, Runs, DeployerPcs, Resting
<1>3. \A f \in Files : f \in deployer.skipped \cap late \/ Right(f)
  BY <1>1 DEF IInv, DeployerOK
<1>4. VerifiedIsBuilt'
  BY <1>1, <1>2, <1>3 DEF VerifiedIsBuilt, Excepted, Right, disk, history
<1>5. DeployerOK'
  BY <1>1, <1>2, <1>4 DEF IInv, DeployerOK, disk
<1> QED BY <1>1, <1>2, <1>5, DeployerMoves DEF IInv, Typed, disk, history

----------------------------------------------------------------------------
(* The theorems                                                            *)

LEMMA NextIInv == IInv /\ [Next]_vars => IInv'
<1> SUFFICES ASSUME IInv, [Next]_vars PROVE IInv'
    OBVIOUS
<1>1. CASE UNCHANGED vars
  <2>1. UNCHANGED <<disk, planner, deployer, history>>
    BY <1>1 DEF vars
  <2>2. planner' \in Runs(PlannerPcs) /\ PlannerOK' /\ RestoredOK'
    BY <2>1 DEF IInv, Typed, PlannerOK, RestoredOK, Fits, disk, history
  <2> QED BY <2>1, <2>2, PlannerMoves
<1>2. CASE Next
  <2>1. CASE BeginBuild \/ Describe \/ SaveDescriptor \/ SealDescriptor \/ PublishPlan
    BY <2>1, BeginBuildIInv, DescribeIInv, SaveDescriptorIInv, SealDescriptorIInv, PublishPlanIInv
  <2>2. CASE PlanFails \/ CleanEnds \/ KillPlanner \/ DeployFails \/ KillDeployer
    BY <2>2, PlanEnds, DeployEnds
  <2>3. CASE RemoveEntry \/ ReadSnapshot \/ CompareSnapshot \/ PowerFailure
    BY <2>3, RemoveEntryIInv, ReadSnapshotIInv, CompareSnapshotIInv, PowerFailureIInv
  <2>4. CASE BeginCapture \/ RenameSnapshot \/ SyncSnapshots \/ BeginRollback
    BY <2>4, BeginCaptureIInv, RenameSnapshotIInv, SyncSnapshotsIInv, BeginRollbackIInv
  <2>5. CASE BeginVerify \/ BeginDiff \/ Succeed
    BY <2>5, BeginVerifyIInv, BeginDiffIInv, SucceedIInv
  <2>6. CASE \E x \in Folders : Damage(x)
    BY <2>6, DamageIInv
  <2>7. CASE \E x \in Projections : Locate(x)
    BY <2>7, LocateIInv
  <2>8. ASSUME NEW f \in Files,
               \/ CopyFile(f) \/ RestoreFile(f) \/ ValidateFile(f) \/ CaptureFile(f)
               \/ SyncFile(f) \/ DiffFile(f) \/ EditAuthority(f)
        PROVE  IInv'
    BY <2>8, CopyFileIInv, RestoreFileIInv, ValidateFileIInv, CaptureFileIInv,
       SyncFileIInv, DiffFileIInv, EditAuthorityIInv
  <2> QED BY <1>2, <2>1, <2>2, <2>3, <2>4, <2>5, <2>6, <2>7, <2>8 DEF Next
<1> QED BY <1>1, <1>2

LEMMA Invariance == Spec => []IInv
<1> QED BY InitIInv, NextIInv, PTL DEF Spec

(* A deployment or a rollback that verified has put the files that its     *)
(* plan's projection was described with into the runtime, whatever was     *)
(* removed, damaged, killed or lost to a power failure meanwhile.          *)
THEOREM VerifiedIsBuiltHolds == Spec => []VerifiedIsBuilt
<1>1. IInv => VerifiedIsBuilt
  BY DEF IInv, DeployerOK
<1> QED BY <1>1, Invariance, PTL

(* A snapshot whose capture has returned is whole until it is damaged: no  *)
(* kill and no power failure loses a file or the metadata of it.           *)
THEOREM SnapshotSurvivesHolds == Spec => []SnapshotSurvives
<1>1. IInv => SnapshotSurvives
  BY DEF IInv, SnapshotOK, SnapshotSurvives
<1> QED BY <1>1, Invariance, PTL

(* A rollback that verified has put back the files that the capture found: *)
(* what was read of the snapshot was compared with its manifest, and the   *)
(* projection made of it was validated before and after the sync.          *)
THEOREM RollbackRestoresHolds == Spec => []RollbackRestoresTheCapture
<1>1. ASSUME IInv PROVE RollbackRestoresTheCapture
  <2> SUFFICES ASSUME deployer.pc = "succeeded", deployer.on = "rollback",
                      NEW f \in Files \ Excepted
               PROVE  Agree(runtime, captured, f)
    BY DEF RollbackRestoresTheCapture
  <2>1. Agree(runtime, built["rollback"], f)
    BY <1>1 DEF IInv, DeployerOK, VerifiedIsBuilt
  <2>2. Agree(built["rollback"], captured, f)
    BY <1>1 DEF IInv, DeployerOK, RestoredOK
  <2> QED BY <2>1, <2>2 DEF Agree
<1> QED BY <1>1, Invariance, PTL

----------------------------------------------------------------------------
(* The start of a Portal                                                   *)

StartPcs == {"idle", "look", "open", "fill", "config", "fill config", "load", "serving", "ended"}

\* A start that missed a document knows of no version of its owner's.
MissedOK ==
    \A p \in Portals : start[p].pc \in {"open", "fill"} =>
        \A d \in Portal!Documents :
            d = start[p].at => owned[d] = None \/ d \in raced

OwnersStay ==
    \A d \in Portal!Documents : owned[d] # None /\ d \notin raced => text[d] = owned[d]

EmptyIsKnown ==
    \A d \in Portal!Documents : text[d] = Nothing =>
        d \in cut \/ \E p \in Portals : start[p].pc = "fill" /\ start[p].at = d

StartTyped ==
    /\ start \in [Portals -> [pc : StartPcs, at : Nat]] /\ writes \in Nat
    /\ DOMAIN text = Portal!Documents /\ DOMAIN owned = Portal!Documents
    /\ text = [d \in Portal!Documents |-> text[d]]
    /\ owned = [d \in Portal!Documents |-> owned[d]]

PInv == StartTyped /\ MissedOK /\ OwnersStay /\ EmptyIsKnown

LEMMA InitPInv == Portal!Init => PInv
BY PortalAssumption
DEF Portal!Init, Portal!TextsAssumption, PInv, StartTyped, StartPcs, MissedOK, OwnersStay,
    EmptyIsKnown

\* The start of p gets to the step pc, and no other start does a step.
Gets(p, pc) ==
    /\ start' \in [Portals -> [pc : StartPcs, at : Nat]] /\ start'[p].pc = pc
    /\ \A q \in Portals \ {p} : start'[q] = start[q]

LEMMA StepGets ==
    ASSUME StartTyped, NEW p \in Portals, NEW pc \in StartPcs, Portal!Step(p, pc)
    PROVE  Gets(p, pc) /\ start'[p].at = start[p].at
BY DEF Portal!Step, StartTyped, Gets

LEMMA OnwardGets ==
    ASSUME StartTyped, NEW p \in Portals, Portal!Onward(p)
    PROVE  \E pc \in {"look", "config"} : Gets(p, pc)
<1> DEFINE look == [pc |-> "look", at |-> start[p].at + 1]
<1> DEFINE config1 == [pc |-> "config", at |-> 1]
<1>1. look \in [pc : StartPcs, at : Nat] /\ config1 \in [pc : StartPcs, at : Nat]
  <2>1. start[p].at \in Nat
    BY DEF StartTyped
  <2>2. start[p].at + 1 \in Nat /\ 1 \in Nat
    BY <2>1
  <2> QED BY <2>2 DEF StartPcs
<1>2. start' = [start EXCEPT ![p] = IF start[p].at < MaxDocuments THEN look ELSE config1]
  BY DEF Portal!Onward
<1>3. look.pc = "look" /\ config1.pc = "config"
  OBVIOUS
<1> HIDE DEF look, config1
<1> QED BY <1>1, <1>2, <1>3 DEF StartTyped, Gets

\* A step of p that leaves the documents, and at most misses one that is not there.
LEMMA StartMoves ==
    ASSUME PInv, NEW p \in Portals, NEW pc, Gets(p, pc), UNCHANGED <<text, writes, owned, raced>>,
           pc # "fill", cut \subseteq cut',
           start[p].pc = "fill" => start[p].at \in cut',
           pc = "open" => start'[p].at = start[p].at /\ text[start[p].at] = None
    PROVE  PInv'
<1>1. StartTyped'
  BY DEF PInv, StartTyped, Gets
<1>2. MissedOK'
  BY DEF PInv, MissedOK, OwnersStay, Gets
<1>3. OwnersStay' /\ EmptyIsKnown'
  BY DEF PInv, OwnersStay, EmptyIsKnown, Gets
<1> QED BY <1>1, <1>2, <1>3 DEF PInv

LEMMA QuietPInv ==
    ASSUME PInv, NEW p \in Portals,
           Portal!Begin(p) \/ Portal!Look(p) \/ Portal!OpenConfig(p) \/ Portal!FillConfig(p)
           \/ Portal!LoadConfig(p) \/ Portal!EndStart(p)
    PROVE  PInv'
<1> USE DEF Portal!Fixed, Portal!At
<1>0. StartTyped /\ UNCHANGED <<text, writes, owned, raced>>
  BY DEF PInv, Portal!Begin, Portal!Look, Portal!OpenConfig, Portal!FillConfig,
         Portal!LoadConfig, Portal!EndStart
<1>1. CASE Portal!Begin(p)
  <2>1. Gets(p, "look") /\ UNCHANGED cut /\ start[p].pc # "fill"
    BY <1>0, <1>1 DEF Portal!Begin, StartTyped, StartPcs, Gets
  <2> QED BY <1>0, <2>1, StartMoves
<1>2. CASE Portal!Look(p) /\ text[start[p].at] = None
  <2>1. Portal!Step(p, "open") /\ UNCHANGED cut /\ start[p].pc = "look"
    BY <1>2 DEF Portal!Look
  <2>2. Gets(p, "open") /\ start'[p].at = start[p].at
    BY <1>0, <2>1, StepGets DEF StartPcs
  <2> QED BY <1>0, <1>2, <2>1, <2>2, StartMoves
<1>3. CASE Portal!Look(p) /\ text[start[p].at] # None
  <2>1. UNCHANGED cut /\ start[p].pc = "look" /\ Portal!Onward(p)
    BY <1>3 DEF Portal!Look
  <2>2. PICK pc \in {"look", "config"} : Gets(p, pc)
    BY <1>0, <2>1, OnwardGets
  <2> QED BY <1>0, <2>1, <2>2, StartMoves
<1>4. CASE Portal!OpenConfig(p) \/ Portal!FillConfig(p) \/ Portal!LoadConfig(p)
  <2>1. PICK pc \in {"fill config", "load", "ended", "serving"} : Portal!Step(p, pc)
    BY <1>4 DEF Portal!OpenConfig, Portal!FillConfig, Portal!LoadConfig
  <2>2. UNCHANGED cut /\ start[p].pc # "fill"
    BY <1>4 DEF Portal!OpenConfig, Portal!FillConfig, Portal!LoadConfig
  <2>3. Gets(p, pc)
    BY <1>0, <2>1, StepGets DEF StartPcs
  <2> QED BY <1>0, <2>2, <2>3, StartMoves
<1>5. CASE Portal!EndStart(p)
  <2>1. Gets(p, "ended")
    BY <1>0, <1>5, StepGets DEF Portal!EndStart, StartPcs
  <2>2. cut \subseteq cut' /\ (start[p].pc = "fill" => start[p].at \in cut')
    BY <1>5 DEF Portal!EndStart
  <2> QED BY <1>0, <2>1, <2>2, StartMoves
<1> QED BY <1>1, <1>2, <1>3, <1>4, <1>5

LEMMA OpenDocumentPInv ==
    ASSUME PInv, NEW p \in Portals, Portal!OpenDocument(p)
    PROVE  PInv'
<1> DEFINE a == start[p].at
<1>1. /\ start[p].pc = "open" /\ text' = [text EXCEPT ![a] = Nothing]
      /\ Portal!Step(p, "fill") /\ UNCHANGED <<writes, owned, raced, cut>> /\ StartTyped
  BY DEF Portal!OpenDocument, Portal!At, Portal!Fixed, PInv
<1>2. Gets(p, "fill") /\ start'[p].at = a
  BY <1>1, StepGets DEF StartPcs
<1>3. \A d \in Portal!Documents : text'[d] = IF d = a THEN Nothing ELSE text[d]
  BY <1>1 DEF StartTyped
<1>4. StartTyped'
  BY <1>1, <1>2 DEF StartTyped, Gets
<1>5. MissedOK'
  BY <1>1, <1>2 DEF PInv, MissedOK, Gets
<1>6. OwnersStay'
  BY <1>1, <1>3 DEF PInv, MissedOK, OwnersStay
<1>7. EmptyIsKnown'
  BY <1>1, <1>2, <1>3 DEF PInv, EmptyIsKnown, Gets
<1> QED BY <1>4, <1>5, <1>6, <1>7 DEF PInv

LEMMA FillDocumentPInv ==
    ASSUME PInv, NEW p \in Portals, Portal!FillDocument(p)
    PROVE  PInv'
<1> DEFINE a == start[p].at
<1>1. /\ start[p].pc = "fill" /\ text' = [text EXCEPT ![a] = NoItems] /\ Portal!Onward(p)
      /\ UNCHANGED <<writes, owned, raced, cut>> /\ StartTyped
  BY DEF Portal!FillDocument, Portal!At, Portal!Fixed, PInv
<1>2. PICK pc \in {"look", "config"} : Gets(p, pc)
  BY <1>1, OnwardGets
<1>3. \A d \in Portal!Documents : text'[d] = IF d = a THEN NoItems ELSE text[d]
  BY <1>1 DEF StartTyped
<1>4. StartTyped'
  BY <1>1, <1>2 DEF StartTyped, Gets
<1>5. MissedOK'
  BY <1>1, <1>2 DEF PInv, MissedOK, Gets
<1>6. OwnersStay'
  BY <1>1, <1>3 DEF PInv, MissedOK, OwnersStay
<1>7. EmptyIsKnown'
  <2>1. NoItems # Nothing
    BY PortalAssumption DEF Portal!TextsAssumption
  <2> QED BY <1>1, <1>2, <1>3, <2>1 DEF PInv, EmptyIsKnown, Gets
<1> QED BY <1>4, <1>5, <1>6, <1>7 DEF PInv

LEMMA OwnerWritesPInv ==
    ASSUME PInv, NEW d \in Portal!Documents, Portal!OwnerWrites(d)
    PROVE  PInv'
<1>1. /\ writes' \in Nat /\ UNCHANGED <<start, cut>>
      /\ text' = [text EXCEPT ![d] = writes'] /\ owned' = [owned EXCEPT ![d] = writes']
      /\ raced' = IF d \in Portal!Missed THEN raced \cup {d} ELSE raced \ {d}
  BY DEF Portal!OwnerWrites, PInv, StartTyped
<1>2. writes' # Nothing
  BY <1>1, PortalAssumption DEF Portal!TextsAssumption
<1>3. \A e \in Portal!Documents :
          IF e = d THEN text'[e] = writes' /\ owned'[e] = writes'
          ELSE text'[e] = text[e] /\ owned'[e] = owned[e] /\ (e \in raced' <=> e \in raced)
  BY <1>1 DEF PInv, StartTyped
<1>4. StartTyped'
  BY <1>1 DEF PInv, StartTyped
<1>5. MissedOK'
  BY <1>1, <1>3 DEF PInv, MissedOK, Portal!Missed
<1>6. OwnersStay' /\ EmptyIsKnown'
  BY <1>1, <1>2, <1>3 DEF PInv, OwnersStay, EmptyIsKnown
<1> QED BY <1>4, <1>5, <1>6 DEF PInv

(* However often and however many Portals are started: a document that its *)
(* owner wrote stays, unless a start had missed it when it was written,    *)
(* and one without text is being written, or was cut short.                *)
THEOREM StartsKeep == Portal!Spec => []StartsKeepDocuments
<1>1. PInv /\ [Portal!Next]_(Portal!vars) => PInv'
  <2> SUFFICES ASSUME PInv, [Portal!Next]_(Portal!vars) PROVE PInv'
    OBVIOUS
  <2>1. CASE UNCHANGED Portal!vars
    BY <2>1 DEF Portal!vars, PInv, StartTyped, MissedOK, OwnersStay, EmptyIsKnown
  <2> QED
    BY <2>1, QuietPInv, OpenDocumentPInv, FillDocumentPInv, OwnerWritesPInv DEF Portal!Next
<1>2. PInv => StartsKeepDocuments
  BY DEF PInv, OwnersStay, EmptyIsKnown, StartsKeepDocuments, Portal!StartsKeepDocuments,
         Portal!At
<1> QED BY <1>1, <1>2, InitPInv, PTL DEF Portal!Spec

----------------------------------------------------------------------------
(* What is asked for                                                       *)

LEMMA ChangesFacts ==
    ASSUME NEW f, NEW o
    PROVE  /\ DOMAIN Registry!Changes(f, o) = {a \in DOMAIN f : a \in DOMAIN o => o[a] # f[a]}
           /\ \A a \in DOMAIN Registry!Changes(f, o) : Registry!Changes(f, o)[a].after = f[a]
BY DEF Registry!Changes

LEMMA DesiredFacts ==
    ASSUME NEW d \in Registry!Documents
    PROVE  /\ \A a : a \in DOMAIN Registry!Desired(d) <=> Registry!ApprovedFor(d, a)
           /\ \A a \in DOMAIN Registry!Desired(d) :
                 Registry!Desired(d)[a] = d.assets[a].revision
<1> DEFINE matching == {p \in DOMAIN d.profiles : d.profiles[p] = "selects"}
<1> DEFINE approved ==
        {m.asset : m \in {n \in d.memberships : n.profile \in matching /\ n.approved}}
<1> DEFINE D == {b \in DOMAIN d.assets : b \in approved /\ d.assets[b].allowed}
<1>1. Registry!Desired(d) = [a \in D |-> d.assets[a].revision]
  BY DEF Registry!Desired
<1>2. ASSUME NEW a
      PROVE  a \in approved <=>
                \E p \in matching : [asset |-> a, profile |-> p, approved |-> TRUE] \in d.memberships
  <2>1. d.memberships \subseteq [asset : Assets, profile : Profiles, approved : BOOLEAN]
    BY DEF Registry!Documents, Registry!Values
  <2>2. ASSUME NEW m \in d.memberships, m.approved
        PROVE  m = [asset |-> m.asset, profile |-> m.profile, approved |-> TRUE]
    BY <2>1, <2>2
  <2>3. ASSUME a \in approved
        PROVE  \E p \in matching : [asset |-> a, profile |-> p, approved |-> TRUE] \in d.memberships
    <3>1. PICK m \in d.memberships : m.profile \in matching /\ m.approved /\ a = m.asset
      BY <2>3
    <3> QED BY <3>1, <2>2
  <2>4. ASSUME NEW p \in matching, [asset |-> a, profile |-> p, approved |-> TRUE] \in d.memberships
        PROVE  a \in approved
    BY <2>4
  <2> QED BY <2>3, <2>4
<1>3. ASSUME NEW a PROVE a \in D <=> Registry!ApprovedFor(d, a)
  BY <1>2 DEF Registry!ApprovedFor
<1> QED BY <1>1, <1>3

\* The assets that are approved and not observed in their revision.
LEMMA NeededFacts ==
    ASSUME NEW d \in Registry!Documents
    PROVE  LET needed == {a \in Assets :
                             /\ Registry!ApprovedFor(d, a)
                             /\ a \in DOMAIN d.observations =>
                                   d.observations[a] # d.assets[a].revision}
               changes == Registry!Needed(d)
           IN  /\ DOMAIN changes = needed
               /\ \A a \in needed : changes[a].after = d.assets[a].revision
<1> DEFINE f == Registry!Desired(d)
<1>1. DOMAIN d.assets \subseteq Assets
  BY DEF Registry!Documents, Registry!Values, Registry!PartialMaps
<1>2. /\ DOMAIN Registry!Needed(d) =
            {a \in DOMAIN f : a \in DOMAIN d.observations => d.observations[a] # f[a]}
      /\ \A a \in DOMAIN Registry!Needed(d) : Registry!Needed(d)[a].after = f[a]
  BY ChangesFacts DEF Registry!Needed
<1>3. /\ \A a : a \in DOMAIN f <=> Registry!ApprovedFor(d, a)
      /\ \A a \in DOMAIN f : f[a] = d.assets[a].revision
  BY DesiredFacts
<1>4. \A a : Registry!ApprovedFor(d, a) => a \in Assets
  BY <1>1 DEF Registry!ApprovedFor
<1> HIDE DEF f
<1> QED BY <1>2, <1>3, <1>4

----------------------------------------------------------------------------
(* The loads of the registry                                               *)

Loads == {"first", "second", "apply"}
Six == Len(Registry!Order)

RegistryTyped ==
    /\ docs \in Registry!Documents /\ began \in Registry!Documents
    /\ job = [pc |-> job.pc, read |-> job.read, got |-> job.got, evidence |-> job.evidence]
    /\ job.pc \in {"idle", "deploy"} \cup Loads /\ job.read \in 0..Six
    /\ job.got = [n \in DOMAIN job.got |-> job.got[n]]
    /\ DOMAIN job.got = {Registry!Order[i] : i \in 1..job.read}

\* What an undisturbed load has read is of the state in which it began.
LoadOK ==
    quiet => /\ job.read \in 1..(Six - 1) => docs = began
             /\ \A n \in DOMAIN job.got : job.got[n] = began[n]

PlanOK ==
    /\ plan # None => plan.changes = Registry!Changes(plan.desired, plan.observed)
    /\ plan # None => asked \subseteq {plan.changes}
    /\ job.pc \in {"first", "second"} => plan = None
    /\ job.pc = "first" => asked = {}
    /\ job.pc = "second" => asked \subseteq {job.evidence}
    /\ job.pc \in {"apply", "deploy"} => plan # None
    /\ job.pc = "deploy" => /\ job.read = Six
                            /\ plan.desired = Registry!Desired(job.got)
                            /\ plan.observed = job.got.observations

RInv == RegistryTyped /\ LoadOK /\ PlanOK

LEMMA OrderFacts ==
    /\ Six = 6
    /\ {Registry!Order[i] : i \in 1..Six} = DOMAIN Registry!Values
    /\ \A k \in 0..5 : {Registry!Order[i] : i \in 1..(k + 1)}
                          = {Registry!Order[i] : i \in 1..k} \cup {Registry!Order[k + 1]}
    /\ {Registry!Order[i] : i \in 1..0} = {}
    /\ \A d \in Registry!Documents : DOMAIN d = DOMAIN Registry!Values
<1>1. Six = 6 /\ {Registry!Order[i] : i \in 1..0} = {}
  BY DEF Six, Registry!Order
<1>2. {Registry!Order[i] : i \in 1..6} = DOMAIN Registry!Values
  BY DEF Registry!Order, Registry!Values
<1>3. ASSUME NEW k \in 0..5
      PROVE  {Registry!Order[i] : i \in 1..(k + 1)}
                = {Registry!Order[i] : i \in 1..k} \cup {Registry!Order[k + 1]}
  <2>1. 1..(k + 1) = 1..k \cup {k + 1}
    OBVIOUS
  <2> QED BY <2>1
<1>4. \A d \in Registry!Documents : DOMAIN d = DOMAIN Registry!Values
  BY DEF Registry!Documents, Registry!Values
<1> QED BY <1>1, <1>2, <1>3, <1>4

\* A load that was undisturbed has read the state in which it began.
LEMMA QuietLoad ==
    ASSUME RInv, quiet, job.read = Six
    PROVE  job.got = began
<1>1. DOMAIN job.got = DOMAIN began
  BY OrderFacts DEF RInv, RegistryTyped
<1>2. began = [n \in DOMAIN began |-> began[n]]
  BY DEF RInv, RegistryTyped, Registry!Documents
<1> QED BY <1>1, <1>2 DEF RInv, RegistryTyped, LoadOK

LEMMA InitRInv == Registry!Init => RInv
<1> SUFFICES ASSUME Registry!Init PROVE RInv
  OBVIOUS
<1>1. /\ job = Registry!Idle /\ job.pc = "idle" /\ job.read = 0 /\ job.got = <<>>
      /\ DOMAIN job.got = {}
  BY DEF Registry!Init, Registry!Idle
<1>2. RegistryTyped
  BY <1>1, OrderFacts DEF RegistryTyped, Registry!Init, Registry!Idle
<1>3. LoadOK
  BY <1>1, OrderFacts DEF LoadOK
<1>4. PlanOK
  BY <1>1 DEF PlanOK, Registry!Init, Loads
<1> QED BY <1>2, <1>3, <1>4 DEF RInv

LEMMA EditedDocuments ==
    ASSUME NEW d \in Registry!Documents, NEW name \in DOMAIN d, NEW v \in Registry!Values[name]
    PROVE  [d EXCEPT ![name] = v] \in Registry!Documents
<1>1. name \in DOMAIN Registry!Values
  BY OrderFacts
<1>2. CASE name = "assets"
  BY <1>2 DEF Registry!Documents, Registry!Values
<1>3. CASE name = "targets"
  BY <1>3 DEF Registry!Documents, Registry!Values
<1>4. CASE name = "profiles"
  BY <1>4 DEF Registry!Documents, Registry!Values
<1>5. CASE name = "memberships"
  BY <1>5 DEF Registry!Documents, Registry!Values
<1>6. CASE name = "bindings"
  BY <1>6 DEF Registry!Documents, Registry!Values
<1>7. CASE name = "observations"
  BY <1>7 DEF Registry!Documents, Registry!Values
<1> QED BY <1>1, <1>2, <1>3, <1>4, <1>5, <1>6, <1>7 DEF Registry!Values

LEMMA EditRInv ==
    ASSUME RInv, NEW name \in DOMAIN docs, Registry!Edit(name)
    PROVE  RInv'
<1>1. PICK v \in Registry!Values[name] : docs' = [docs EXCEPT ![name] = v]
  <2>1. \E v \in Registry!Values[name] \ {docs[name]} : docs' = [docs EXCEPT ![name] = v]
    BY DEF Registry!Edit
  <2> QED BY <2>1
<1>2. docs' \in Registry!Documents
  BY <1>1, EditedDocuments DEF RInv, RegistryTyped
<1>3. UNCHANGED <<job, plan, began, asked>> /\ quiet' = (quiet /\ job.read \in {0, Six})
  BY DEF Registry!Edit, Six
<1>4. RegistryTyped'
  BY <1>2, <1>3 DEF RInv, RegistryTyped, Six
<1>5. LoadOK'
  <2> SUFFICES ASSUME quiet' PROVE LoadOK'
    BY DEF LoadOK
  <2>1. quiet /\ job.read \in {0, 6} /\ job' = job /\ began' = began
    BY <1>3, OrderFacts
  <2>2. /\ ~(job'.read \in 1..(6 - 1))
        /\ \A n \in DOMAIN job'.got : job'.got[n] = began'[n]
    BY <2>1 DEF RInv, LoadOK
  <2> QED BY <2>2, OrderFacts DEF LoadOK, Six
<1>6. PlanOK'
  BY <1>3 DEF RInv, PlanOK, Six
<1> QED BY <1>4, <1>5, <1>6 DEF RInv

LEMMA NoFunction == DOMAIN <<>> = {} /\ <<>> = [n \in DOMAIN <<>> |-> <<>>[n]]
OBVIOUS

\* A command that has read nothing yet, or none at all.
LEMMA NothingRead ==
    ASSUME RInv, NEW pc \in {"idle"} \cup Loads, NEW evidence,
           job' = [Registry!Idle EXCEPT !.pc = pc, !.evidence = evidence],
           UNCHANGED <<docs, began, quiet>>
    PROVE  RegistryTyped' /\ LoadOK' /\ job'.pc = pc /\ job'.evidence = evidence
<1>1. /\ job'.pc = pc /\ job'.read = 0 /\ job'.got = <<>> /\ job'.evidence = evidence
      /\ job' = [pc |-> pc, read |-> 0, got |-> <<>>, evidence |-> evidence]
  BY DEF Registry!Idle
<1>2. DOMAIN job'.got = {} /\ job'.got = [n \in DOMAIN job'.got |-> job'.got[n]]
  BY <1>1, NoFunction
<1>3. RegistryTyped'
  <2>1. job' = [pc |-> job'.pc, read |-> job'.read, got |-> job'.got, evidence |-> job'.evidence]
    BY <1>1
  <2>2. DOMAIN job'.got = {Registry!Order[i] : i \in 1..job'.read}
    BY <1>1, <1>2, OrderFacts
  <2>3. docs' \in Registry!Documents /\ began' \in Registry!Documents
    BY DEF RInv, RegistryTyped
  <2>4. job'.pc \in {"idle", "deploy"} \cup Loads /\ job'.read \in 0..Six
    BY <1>1, OrderFacts
  <2> QED BY <2>1, <2>2, <2>3, <2>4, <1>2 DEF RegistryTyped, Six
<1>4. LoadOK'
  BY <1>1, <1>2, OrderFacts DEF LoadOK, Six
<1> QED BY <1>1, <1>3, <1>4

LEMMA IdleAgain ==
    Registry!Idle = [Registry!Idle EXCEPT !.pc = "idle", !.evidence = <<>>]
<1>1. Registry!Idle.pc = "idle" /\ Registry!Idle.evidence = <<>>
  BY DEF Registry!Idle
<1> QED BY <1>1 DEF Registry!Idle

LEMMA EndRInv ==
    ASSUME RInv, job' = Registry!Idle, UNCHANGED <<docs, plan, began, quiet, asked>>
    PROVE  RInv'
<1>1. job' = [Registry!Idle EXCEPT !.pc = "idle", !.evidence = <<>>]
  BY IdleAgain
<1>2. RegistryTyped' /\ LoadOK' /\ job'.pc = "idle"
  BY <1>1, NothingRead
<1>3. PlanOK'
  BY <1>2 DEF RInv, PlanOK, Loads
<1> QED BY <1>2, <1>3 DEF RInv

LEMMA BeginPlanRInv ==
    ASSUME RInv, Registry!BeginPlan
    PROVE  RInv'
<1>1. RegistryTyped' /\ LoadOK' /\ job'.pc = "first"
  BY NothingRead DEF Registry!BeginPlan, Registry!Load, Loads
<1>2. PlanOK'
  BY <1>1 DEF PlanOK, Registry!BeginPlan
<1> QED BY <1>1, <1>2 DEF RInv

LEMMA BeginApplyRInv ==
    ASSUME RInv, Registry!BeginApply
    PROVE  RInv'
<1>1. RegistryTyped' /\ LoadOK' /\ job'.pc = "apply"
  BY NothingRead DEF Registry!BeginApply, Registry!Load, Loads
<1>2. PlanOK'
  BY <1>1 DEF RInv, PlanOK, Registry!BeginApply
<1> QED BY <1>1, <1>2 DEF RInv

LEMMA ReadDocumentRInv ==
    ASSUME RInv, Registry!ReadDocument
    PROVE  RInv'
<1> DEFINE name == Registry!Order[job.read + 1]
<1> DEFINE got == [n \in DOMAIN job.got \cup {name} |-> IF n = name THEN docs[n] ELSE job.got[n]]
<1>1. /\ job.pc \in Loads /\ job.read \in 0..5
      /\ job' = [job EXCEPT !.read = @ + 1, !.got = got]
      /\ IF job.read = 0 THEN began' = docs /\ quiet' = TRUE ELSE UNCHANGED <<began, quiet>>
      /\ UNCHANGED <<docs, plan, asked>>
  BY OrderFacts DEF RInv, RegistryTyped, Registry!ReadDocument, Six, Loads
<1>2. job = [pc |-> job.pc, read |-> job.read, got |-> job.got, evidence |-> job.evidence]
  BY DEF RInv, RegistryTyped
<1> HIDE DEF got
<1>3. /\ job'.pc = job.pc /\ job'.read = job.read + 1 /\ job'.evidence = job.evidence
      /\ job'.got = got
      /\ job' = [pc |-> job'.pc, read |-> job'.read, got |-> job'.got, evidence |-> job'.evidence]
  BY <1>1, <1>2
<1> USE DEF got
<1>4. /\ DOMAIN got = DOMAIN job.got \cup {name} /\ got[name] = docs[name]
      /\ got = [n \in DOMAIN got |-> got[n]]
      /\ \A n \in DOMAIN got : n # name => n \in DOMAIN job.got /\ got[n] = job.got[n]
  OBVIOUS
<1> HIDE DEF got
<1>5. RegistryTyped'
  <2>1. DOMAIN job'.got = {Registry!Order[i] : i \in 1..job'.read}
    <3>1. {Registry!Order[i] : i \in 1..(job.read + 1)}
             = {Registry!Order[i] : i \in 1..job.read} \cup {name}
      BY <1>1, OrderFacts
    <3>2. DOMAIN job.got = {Registry!Order[i] : i \in 1..job.read}
      BY DEF RInv, RegistryTyped
    <3> QED BY <3>1, <3>2, <1>3, <1>4
  <2>2. docs' \in Registry!Documents /\ began' \in Registry!Documents
    BY <1>1 DEF RInv, RegistryTyped
  <2>3. job'.pc \in {"idle", "deploy"} \cup Loads /\ job'.read \in 0..Six
    BY <1>1, <1>3, OrderFacts
  <2>4. job'.got = [n \in DOMAIN job'.got |-> job'.got[n]]
    BY <1>3, <1>4
  <2> QED BY <2>1, <2>2, <2>3, <2>4, <1>3 DEF RegistryTyped, Six
<1>6. LoadOK'
  <2> SUFFICES ASSUME quiet'
               PROVE  docs' = began' /\ \A n \in DOMAIN job'.got : job'.got[n] = began'[n]
    BY DEF LoadOK
  <2>1. CASE job.read = 0
    <3>1. DOMAIN job.got = {}
      BY <2>1, OrderFacts DEF RInv, RegistryTyped
    <3> QED BY <3>1, <2>1, <1>1, <1>3, <1>4
  <2>2. CASE job.read # 0
    <3>1. quiet /\ began' = began /\ docs' = docs
      BY <2>2, <1>1
    <3>2. docs = began /\ \A n \in DOMAIN job.got : job.got[n] = began[n]
      BY <3>1, <2>2, <1>1, OrderFacts DEF RInv, LoadOK
    <3> QED BY <3>1, <3>2, <1>3, <1>4
  <2> QED BY <2>1, <2>2
<1>7. PlanOK'
  BY <1>1, <1>3 DEF RInv, PlanOK, Loads
<1> QED BY <1>5, <1>6, <1>7 DEF RInv

\* What is added to asked is what was asked for at a quiet load.
LEMMA AskFacts ==
    ASSUME RInv, job.read = Six, Registry!Ask
    PROVE  asked' \subseteq asked \cup {Registry!Needed(job.got)}
<1>1. CASE quiet
  BY <1>1, QuietLoad DEF Registry!Ask
<1>2. CASE ~quiet
  BY <1>2 DEF Registry!Ask
<1> QED BY <1>1, <1>2

LEMMA AskAdapterRInv ==
    ASSUME RInv, Registry!AskAdapter
    PROVE  RInv'
<1>1. /\ job.pc = "first" /\ job.read = Six /\ Registry!Ask /\ plan' = plan
      /\ job' = [Registry!Idle EXCEPT !.pc = "second", !.evidence = Registry!Needed(job.got)]
      /\ UNCHANGED <<docs, began, quiet>>
  BY DEF Registry!AskAdapter, Registry!Loaded, Registry!Load, Six
<1>2. RegistryTyped' /\ LoadOK' /\ job'.pc = "second" /\ job'.evidence = Registry!Needed(job.got)
  BY <1>1, NothingRead DEF Loads
<1>3. asked' \subseteq {Registry!Needed(job.got)}
  BY <1>1, AskFacts DEF RInv, PlanOK
<1>4. PlanOK'
  BY <1>1, <1>2, <1>3 DEF RInv, PlanOK
<1> QED BY <1>2, <1>4 DEF RInv

LEMMA PublishRInv ==
    ASSUME RInv, Registry!Publish
    PROVE  RInv'
<1>1. /\ job.pc = "second" /\ job.read = Six /\ Registry!Ask /\ job' = Registry!Idle
      /\ plan' = IF job.evidence = Registry!Needed(job.got) THEN Registry!Proposed ELSE None
      /\ UNCHANGED <<docs, began, quiet>>
  BY DEF Registry!Publish, Registry!Loaded, Six
<1>2. RegistryTyped' /\ LoadOK' /\ job'.pc = "idle"
  <2>1. job' = [Registry!Idle EXCEPT !.pc = "idle", !.evidence = <<>>]
    BY <1>1, IdleAgain
  <2> QED BY <2>1, <1>1, NothingRead
<1>3. asked' \subseteq {job.evidence} \cup {Registry!Needed(job.got)}
  BY <1>1, AskFacts DEF RInv, PlanOK
<1>4. /\ Registry!Proposed.changes = Registry!Needed(job.got)
      /\ Registry!Proposed.changes
            = Registry!Changes(Registry!Proposed.desired, Registry!Proposed.observed)
  BY DEF Registry!Proposed, Registry!Needed
<1>5. plan' # None => /\ plan' = Registry!Proposed
                      /\ job.evidence = Registry!Needed(job.got)
  BY <1>1
<1>6. PlanOK'
  BY <1>2, <1>3, <1>4, <1>5 DEF PlanOK, Loads
<1> QED BY <1>2, <1>6 DEF RInv

LEMMA ValidateFreshStateRInv ==
    ASSUME RInv, Registry!ValidateFreshState
    PROVE  RInv'
<1>1. /\ job.pc = "apply" /\ job.read = Six
      /\ job' = IF Registry!Fresh THEN [job EXCEPT !.pc = "deploy"] ELSE Registry!Idle
      /\ UNCHANGED <<docs, plan, began, quiet, asked>>
  BY DEF Registry!ValidateFreshState, Registry!Loaded, Six
<1>2. CASE ~Registry!Fresh
  BY <1>1, <1>2, EndRInv
<1>3. CASE Registry!Fresh
  <2>1. job = [pc |-> job.pc, read |-> job.read, got |-> job.got, evidence |-> job.evidence]
    BY DEF RInv, RegistryTyped
  <2>2. job' = [job EXCEPT !.pc = "deploy"]
    BY <1>1, <1>3
  <2>3. /\ job'.pc = "deploy" /\ job'.read = job.read /\ job'.got = job.got
        /\ job' = [pc |-> job'.pc, read |-> job'.read, got |-> job'.got, evidence |-> job'.evidence]
    BY <2>1, <2>2
  <2>4. RegistryTyped'
    BY <1>1, <2>3 DEF RInv, RegistryTyped, Six
  <2>5. LoadOK'
    BY <1>1, <2>3 DEF RInv, LoadOK, Six
  <2>6. PlanOK'
    BY <1>1, <1>3, <2>3 DEF RInv, PlanOK, Six, Registry!Fresh
  <2> QED BY <2>4, <2>5, <2>6 DEF RInv
<1> QED BY <1>2, <1>3

LEMMA NextRInv ==
    ASSUME RInv, [Registry!Next]_(Registry!vars)
    PROVE  RInv'
<1>1. CASE UNCHANGED Registry!vars
  BY <1>1 DEF Registry!vars, RInv, RegistryTyped, LoadOK, PlanOK, Six
<1>2. CASE Registry!CommandFails
  BY <1>2, EndRInv DEF Registry!CommandFails
<1>3. CASE Registry!Refuse
  BY <1>3, EndRInv DEF Registry!Refuse
<1>4. CASE Registry!Deploy
  BY <1>4, EndRInv DEF Registry!Deploy
<1> QED
  BY <1>1, <1>2, <1>3, <1>4, EditRInv, BeginPlanRInv, BeginApplyRInv, ReadDocumentRInv,
     AskAdapterRInv, PublishRInv, ValidateFreshStateRInv DEF Registry!Next

\* Planning: if the first or the second load of a plan was undisturbed, the
\* plan asks for what that state of the documents asked for, however long the
\* documents are and however often they are edited.
THEOREM OneQuietLoadBinds == Registry!Spec => []OneQuietLoadIsEnough
<1>1. RInv => OneQuietLoadIsEnough
  BY DEF RInv, PlanOK, OneQuietLoadIsEnough, Registry!OneQuietLoadIsEnough
<1>2. RInv /\ [Registry!Next]_(Registry!vars) => RInv'
  BY NextRInv
<1> QED BY <1>1, <1>2, InitRInv, PTL DEF Registry!Spec

\* Planning and DeploymentService: an apply whose load was undisturbed goes on
\* only with a plan of exactly the approved assets that are not yet observed in
\* their revision, whatever the loads of that plan had read.
THEOREM DeploysWhatIsDesired == Registry!Spec => []DeployedIsDesired
<1>1. RInv => DeployedIsDesired
  <2> SUFFICES ASSUME RInv, job.pc = "deploy", quiet PROVE DeployedIsDesired
    BY DEF DeployedIsDesired, Registry!DeployedIsDesired
  <2>1. job.got = began
    BY QuietLoad DEF RInv, PlanOK
  <2>2. plan.changes = Registry!Needed(began)
    BY <2>1 DEF RInv, PlanOK, Registry!Needed
  <2>3. began \in Registry!Documents
    BY DEF RInv, RegistryTyped
  <2> QED BY <2>2, <2>3, NeededFacts DEF DeployedIsDesired, Registry!DeployedIsDesired
<1>2. RInv /\ [Registry!Next]_(Registry!vars) => RInv'
  BY NextRInv
<1> QED BY <1>1, <1>2, InitRInv, PTL DEF Registry!Spec

----------------------------------------------------------------------------
(* The scan of a directory                                                 *)

LEMMA LeastExists ==
    ASSUME NEW T \in SUBSET Nat, T # {}
    PROVE  \E least \in T : \A k \in T : least <= k
<1>1. PICK least \in T : \A k \in T : ~(<<k, least>> \in OpToRel(<, Nat))
  BY NatLessThanWellFounded, WFMin
<1>2. \A k \in T : ~(k < least)
  BY <1>1 DEF OpToRel
<1> QED BY <1>2

\* What holds of 0, and of k if of k - 1, holds up to n.
LEMMA UpTo ==
    ASSUME NEW n \in Nat, NEW S, 0 \in S, \A k \in 1..n : k - 1 \in S => k \in S
    PROVE  0..n \subseteq S
<1> DEFINE T == {k \in 0..n : k \notin S}
<1>1. SUFFICES ASSUME T # {} PROVE FALSE
  OBVIOUS
<1>2. T \in SUBSET Nat
  OBVIOUS
<1> HIDE DEF T
<1>3. PICK least \in T : \A k \in T : least <= k
  BY <1>1, <1>2, LeastExists
<1> USE DEF T
<1>4. least \in 1..n /\ least - 1 \in 0..n /\ least - 1 < least
  BY <1>3
<1>5. least - 1 \in S
  BY <1>3, <1>4
<1> QED BY <1>3, <1>4, <1>5

\* The functions that Scan and Total are the last values of.
ScanUpTo(d) ==
    CHOOSE upto : upto = [f \in 0..Len(d.files) |->
        IF f = 0 THEN Inventory!Unread(d)
        ELSE IF f \in Inventory!Kept(d) THEN Inventory!ReadOn(d, upto[f - 1], f)
        ELSE upto[f - 1]]
TotalUpTo(files) ==
    CHOOSE upto : upto = [f \in 0..Len(files) |->
        IF f = 0 THEN 0 ELSE upto[f - 1] + files[f].size]

LEMMA ScanExists ==
    ASSUME NEW d, Len(d.files) \in Nat
    PROVE  /\ Inventory!Scan(d) = ScanUpTo(d)[Len(d.files)]
           /\ ScanUpTo(d)[0] = Inventory!Unread(d)
           /\ \A f \in 1..Len(d.files) :
                 ScanUpTo(d)[f] = IF f \in Inventory!Kept(d)
                                  THEN Inventory!ReadOn(d, ScanUpTo(d)[f - 1], f)
                                  ELSE ScanUpTo(d)[f - 1]
<1> DEFINE After(s, f) == IF f \in Inventory!Kept(d) THEN Inventory!ReadOn(d, s, f) ELSE s
<1> DEFINE Is(u, n) == u = [f \in 0..n |-> IF f = 0 THEN Inventory!Unread(d)
                                           ELSE After(u[f - 1], f)]
<1> DEFINE S == {n \in 0..Len(d.files) : \E u : Is(u, n)}
<1>1. ScanUpTo(d) = CHOOSE u : Is(u, Len(d.files))
  BY DEF ScanUpTo
<1>2. Inventory!Scan(d) = ScanUpTo(d)[Len(d.files)]
  BY DEF Inventory!Scan, ScanUpTo
<1> HIDE DEF After
<1>3. Is([f \in 0..0 |-> Inventory!Unread(d)], 0)
  OBVIOUS
<1>4. ASSUME NEW n \in 1..Len(d.files), NEW u, Is(u, n - 1)
      PROVE  Is([f \in 0..n |-> IF f = n THEN After(u[n - 1], n) ELSE u[f]], n)
  <2> DEFINE v == [f \in 0..n |-> IF f = n THEN After(u[n - 1], n) ELSE u[f]]
  <2>1. \A f \in 0..n : v[f] = IF f = 0 THEN Inventory!Unread(d) ELSE After(v[f - 1], f)
    <3> SUFFICES ASSUME NEW f \in 0..n
                 PROVE  v[f] = IF f = 0 THEN Inventory!Unread(d) ELSE After(v[f - 1], f)
      OBVIOUS
    <3>1. CASE f = n
      BY <3>1
    <3>2. CASE f = 0
      BY <3>2, <1>4
    <3>3. CASE f \in 1..(n - 1)
      <4>1. f \in 0..(n - 1) /\ f - 1 \in 0..n /\ f - 1 # n /\ f # n
        BY <3>3
      <4>2. v[f] = u[f] /\ v[f - 1] = u[f - 1]
        BY <4>1
      <4>3. u[f] = After(u[f - 1], f)
        BY <4>1, <3>3, <1>4
      <4> QED BY <4>2, <4>3, <3>3
    <3> QED BY <3>1, <3>2, <3>3
  <2>2. v = [f \in 0..n |-> v[f]]
    OBVIOUS
  <2> HIDE DEF v
  <2>3. Is(v, n)
    BY <2>1, <2>2
  <2> QED BY <2>3 DEF v
<1> HIDE DEF Is
<1>5. 0 \in S
  BY <1>3
<1>6. ASSUME NEW n \in 1..Len(d.files), n - 1 \in S PROVE n \in S
  <2>1. PICK u : Is(u, n - 1)
    BY <1>6
  <2>2. \E v : Is(v, n)
    BY <2>1, <1>4
  <2> QED BY <2>2
<1>7. \E u : Is(u, Len(d.files))
  <2>1. 0..Len(d.files) \subseteq S
    <3> HIDE DEF S
    <3> QED BY <1>5, <1>6, UpTo
  <2> QED BY <2>1
<1>8. Is(ScanUpTo(d), Len(d.files))
  BY <1>1, <1>7
<1> USE DEF Is
<1>9. \A f \in 0..Len(d.files) :
         ScanUpTo(d)[f] = IF f = 0 THEN Inventory!Unread(d) ELSE After(ScanUpTo(d)[f - 1], f)
  BY <1>8
<1> USE DEF After
<1> QED BY <1>2, <1>9

LEMMA TotalExists ==
    ASSUME NEW files, Len(files) \in Nat
    PROVE  /\ Inventory!Total(files) = TotalUpTo(files)[Len(files)]
           /\ TotalUpTo(files)[0] = 0
           /\ \A f \in 1..Len(files) :
                 TotalUpTo(files)[f] = TotalUpTo(files)[f - 1] + files[f].size
<1> DEFINE Is(u, n) == u = [f \in 0..n |-> IF f = 0 THEN 0 ELSE u[f - 1] + files[f].size]
<1> DEFINE S == {n \in 0..Len(files) : \E u : Is(u, n)}
<1>1. TotalUpTo(files) = CHOOSE u : Is(u, Len(files))
  BY DEF TotalUpTo
<1>2. Inventory!Total(files) = TotalUpTo(files)[Len(files)]
  BY DEF Inventory!Total, TotalUpTo
<1>3. Is([f \in 0..0 |-> 0], 0)
  OBVIOUS
<1>4. ASSUME NEW n \in 1..Len(files), NEW u, Is(u, n - 1)
      PROVE  Is([f \in 0..n |-> IF f = n THEN u[n - 1] + files[n].size ELSE u[f]], n)
  <2> DEFINE v == [f \in 0..n |-> IF f = n THEN u[n - 1] + files[n].size ELSE u[f]]
  <2>1. \A f \in 0..n : v[f] = IF f = 0 THEN 0 ELSE v[f - 1] + files[f].size
    <3> SUFFICES ASSUME NEW f \in 0..n
                 PROVE  v[f] = IF f = 0 THEN 0 ELSE v[f - 1] + files[f].size
      OBVIOUS
    <3>1. CASE f = n
      BY <3>1
    <3>2. CASE f = 0
      BY <3>2, <1>4
    <3>3. CASE f \in 1..(n - 1)
      <4>1. f \in 0..(n - 1) /\ f - 1 \in 0..n /\ f - 1 # n /\ f # n
        BY <3>3
      <4>2. v[f] = u[f] /\ v[f - 1] = u[f - 1]
        BY <4>1
      <4>3. u[f] = u[f - 1] + files[f].size
        BY <4>1, <3>3, <1>4
      <4> QED BY <4>2, <4>3, <3>3
    <3> QED BY <3>1, <3>2, <3>3
  <2>2. v = [f \in 0..n |-> v[f]]
    OBVIOUS
  <2> HIDE DEF v
  <2>3. Is(v, n)
    BY <2>1, <2>2
  <2> QED BY <2>3 DEF v
<1> HIDE DEF Is
<1>5. 0 \in S
  BY <1>3
<1>6. ASSUME NEW n \in 1..Len(files), n - 1 \in S PROVE n \in S
  <2>1. PICK u : Is(u, n - 1)
    BY <1>6
  <2>2. \E v : Is(v, n)
    BY <2>1, <1>4
  <2> QED BY <2>2
<1>7. \E u : Is(u, Len(files))
  <2>1. 0..Len(files) \subseteq S
    <3> HIDE DEF S
    <3> QED BY <1>5, <1>6, UpTo
  <2> QED BY <2>1
<1>8. Is(TotalUpTo(files), Len(files))
  BY <1>1, <1>7
<1> USE DEF Is
<1> QED BY <1>2, <1>8

LEMMA LimitFacts ==
    ASSUME limits \in Limits
    PROVE  limits.files \in Nat /\ limits.file \in Nat /\ limits.total \in Nat
BY InventoryAssumption DEF Inventory!LimitsAssumption

LEMMA DirectoryFacts ==
    ASSUME NEW d \in Directories
    PROVE  /\ Len(d.files) \in Nat /\ DOMAIN d.files = 1..Len(d.files)
           /\ d.files = [f \in 1..Len(d.files) |-> d.files[f]]
           /\ d.front \in BOOLEAN /\ d.listed \in BOOLEAN
           /\ \A f \in 1..Len(d.files) : /\ d.files[f].kind \in {"file", "unreadable", "link"}
                                         /\ d.files[f].size \in Nat
<1>1. /\ d.files \in Seq({d.files[f] : f \in DOMAIN d.files})
      /\ {d.front, d.listed} \subseteq BOOLEAN
      /\ \A f \in DOMAIN d.files :
            d.files[f].kind \in {"file", "unreadable", "link"} /\ d.files[f].size \in Nat
  BY InventoryAssumption DEF Inventory!DirectoriesAssumption
<1>2. /\ Len(d.files) \in Nat /\ DOMAIN d.files = 1..Len(d.files)
      /\ d.files = [f \in 1..Len(d.files) |-> d.files[f]]
  BY <1>1
<1> QED BY <1>1, <1>2

LEMMA CardinalityUpTo == ASSUME NEW n \in Nat PROVE Cardinality(1..n) = n
<1>1. 1 \in Int /\ n \in Int /\ (1 > n => n = 0) /\ n - 1 + 1 = n
  OBVIOUS
<1>2. Cardinality(1..n) = IF 1 > n THEN 0 ELSE n - 1 + 1
  BY <1>1, FS_Interval
<1> QED BY <1>1, <1>2

LEMMA SameCardinality == \A S : Inventory!Cardinality(S) = Cardinality(S)
BY DEF Inventory!Cardinality, Cardinality

\* The walk has listed everything if there is no link and no file too many.
LEMMA WalkFacts ==
    ASSUME NEW d \in Directories, limits \in Limits
    PROVE  /\ Inventory!Unread(d).complete <=>
                 Inventory!Links(d) = {} /\ Len(d.files) <= limits.files
           /\ Inventory!Unread(d).complete => Inventory!Kept(d) = 1..Len(d.files)
<1> DEFINE n == Len(d.files)
<1>1. n \in Nat /\ DOMAIN d.files = 1..n /\ limits.files \in Nat
  BY DirectoryFacts, LimitFacts
<1>2. Inventory!Unread(d).complete <=>
         Inventory!Links(d) = {} /\ Inventory!Kept(d) = Inventory!Listed(d)
  BY DEF Inventory!Unread
<1>3. ASSUME Inventory!Links(d) = {}
      PROVE  /\ Inventory!Listed(d) = 1..n
             /\ Inventory!Kept(d) = {f \in 1..n : n - f < limits.files}
  <2>1. Inventory!Listed(d) = 1..n
    BY <1>1, <1>3 DEF Inventory!Listed
  <2>2. ASSUME NEW f \in 1..n
        PROVE  Cardinality({g \in Inventory!Listed(d) : g > f}) = n - f
    <3>1. {g \in Inventory!Listed(d) : g > f} = (f + 1)..n
      BY <2>1, <1>1
    <3>2. f + 1 \in Int /\ n \in Int /\ (f + 1 > n => n - f = 0) /\ n - (f + 1) + 1 = n - f
      BY <1>1
    <3>3. Cardinality((f + 1)..n) = n - f
      <4> HIDE DEF n
      <4>1. Cardinality((f + 1)..n) = IF f + 1 > n THEN 0 ELSE n - (f + 1) + 1
        BY <3>2, FS_Interval
      <4> QED BY <4>1, <3>2
    <3> QED BY <3>1, <3>3
  <2>3. Inventory!Kept(d)
           = {f \in Inventory!Listed(d) :
                 Cardinality({g \in Inventory!Listed(d) : g > f}) < limits.files}
    BY SameCardinality DEF Inventory!Kept
  <2>4. ASSUME NEW f PROVE f \in Inventory!Kept(d) <=> f \in 1..n /\ n - f < limits.files
    <3>1. f \in Inventory!Kept(d) <=>
             f \in 1..n /\ Cardinality({g \in Inventory!Listed(d) : g > f}) < limits.files
      BY <2>1, <2>3
    <3> QED BY <3>1, <2>2
  <2>5. Inventory!Kept(d) = {f \in 1..n : n - f < limits.files}
    BY <2>4
  <2> QED BY <2>1, <2>5
<1>4. ASSUME Inventory!Links(d) = {}
      PROVE  Inventory!Kept(d) = Inventory!Listed(d) <=> n <= limits.files
  <2> HIDE DEF n
  <2>1. CASE n = 0
    BY <1>1, <1>3, <1>4, <2>1
  <2>2. CASE n # 0
    <3>1. 1 \in 1..n
      BY <1>1, <2>2
    <3>2. ASSUME n <= limits.files, NEW f \in 1..n PROVE n - f < limits.files
      BY <1>1, <3>2
    <3>3. Inventory!Kept(d) = Inventory!Listed(d) => n - 1 < limits.files
      BY <1>3, <1>4, <3>1
    <3>4. n <= limits.files => Inventory!Kept(d) = Inventory!Listed(d)
      BY <1>3, <1>4, <3>2
    <3> QED BY <1>1, <3>3, <3>4
  <2> QED BY <2>1, <2>2
<1> QED BY <1>2, <1>3, <1>4

LEMMA TotalFacts ==
    ASSUME NEW d \in Directories
    PROVE  \A f \in 0..Len(d.files) :
              /\ TotalUpTo(d.files)[f] \in Nat
              /\ TotalUpTo(d.files)[f] <= Inventory!Total(d.files)
<1> DEFINE n == Len(d.files)
           T == TotalUpTo(d.files)
           S == {k \in 0..n : \A f \in 0..k : T[f] \in Nat /\ T[f] <= T[k]}
<1>1. /\ n \in Nat /\ T[0] = 0 /\ Inventory!Total(d.files) = T[n]
      /\ \A f \in 1..n : T[f] = T[f - 1] + d.files[f].size /\ d.files[f].size \in Nat
  BY DirectoryFacts, TotalExists
<1> HIDE DEF n, T
<1>2. 0 \in S
  BY <1>1
<1>3. ASSUME NEW k \in 1..n, k - 1 \in S PROVE k \in S
  <2>1. T[k - 1] \in Nat /\ T[k] \in Nat /\ T[k - 1] <= T[k]
    BY <1>1, <1>3
  <2>2. ASSUME NEW f \in 0..k PROVE T[f] \in Nat /\ T[f] <= T[k]
    <3>1. CASE f = k
      BY <3>1, <2>1
    <3>2. CASE f \in 0..(k - 1)
      <4>1. T[f] \in Nat /\ T[f] <= T[k - 1]
        BY <3>2, <1>3
      <4> QED BY <4>1, <2>1
    <3> QED BY <3>1, <3>2
  <2> QED BY <2>2
<1>4. 0..n \subseteq S
  <2> HIDE DEF S
  <2> QED BY <1>1, <1>2, <1>3, UpTo
<1>5. n \in S
  BY <1>1, <1>4
<1> QED BY <1>1, <1>5 DEF n, T

IsScan(s) ==
    /\ s = [read |-> s.read, total |-> s.total, stopped |-> s.stopped, complete |-> s.complete]
    /\ s.stopped \in BOOLEAN /\ s.complete \in BOOLEAN

Over(s, file) == file.size > limits.file \/ file.size > limits.total - s.total

\* What one file makes of a scan.
LEMMA ReadOnFacts ==
    ASSUME NEW d, NEW s, NEW f, IsScan(s),
           NEW file, file = d.files[f], NEW t, t = Inventory!ReadOn(d, s, f)
    PROVE  /\ IsScan(t)
           /\ t.complete => s.complete
           /\ ~s.stopped /\ file.kind = "unreadable" => ~t.complete
           /\ ~s.stopped /\ file.kind = "file" /\ Over(s, file) => ~t.complete
           /\ ~s.stopped /\ file.kind = "file" /\ ~Over(s, file)
                 => /\ t.read = Append(s.read, <<f, file>>)
                    /\ t.total = s.total + file.size
                    /\ t.stopped = s.stopped /\ t.complete = s.complete
<1>1. CASE s.stopped
  <2>1. t = s
    BY <1>1 DEF Inventory!ReadOn
  <2> QED BY <1>1, <2>1
<1>2. CASE ~s.stopped /\ file.kind = "unreadable"
  <2>1. t = [s EXCEPT !.complete = FALSE]
    BY <1>2 DEF Inventory!ReadOn
  <2>2. t = [read |-> s.read, total |-> s.total, stopped |-> s.stopped, complete |-> FALSE]
    BY <2>1 DEF IsScan
  <2> QED BY <1>2, <2>2 DEF IsScan
<1>3. CASE ~s.stopped /\ file.kind = "file" /\ Over(s, file)
  <2> DEFINE stopped == limits.total - s.total < limits.file
  <2>1. t = [s EXCEPT !.complete = FALSE, !.stopped = stopped]
    BY <1>3 DEF Inventory!ReadOn, Over
  <2> HIDE DEF stopped
  <2>2. t = [read |-> s.read, total |-> s.total, stopped |-> stopped, complete |-> FALSE]
    BY <2>1 DEF IsScan
  <2>3. stopped \in BOOLEAN
    BY DEF stopped
  <2> QED BY <1>3, <2>2, <2>3 DEF IsScan
<1>4. CASE ~s.stopped /\ file.kind # "unreadable" /\ ~(file.kind = "file" /\ Over(s, file))
  <2>1. t = [s EXCEPT !.read = Append(@, <<f, file>>), !.total = @ + file.size]
    BY <1>4 DEF Inventory!ReadOn, Over
  <2>2. t = [read |-> Append(s.read, <<f, file>>), total |-> s.total + file.size,
             stopped |-> s.stopped, complete |-> s.complete]
    BY <2>1 DEF IsScan
  <2> QED BY <1>4, <2>2 DEF IsScan
<1> QED BY <1>1, <1>2, <1>3, <1>4

\* How far a scan has come after file k, if it is complete so far.
ScannedTo(d, k) ==
    LET s == ScanUpTo(d)[k] IN
    /\ IsScan(s)
    /\ s.complete =>
          /\ ~s.stopped
          /\ Inventory!Links(d) = {} /\ Len(d.files) <= limits.files
          /\ s.read = [j \in 1..k |-> <<j, d.files[j]>>]
          /\ s.total = TotalUpTo(d.files)[k] /\ s.total <= limits.total
          /\ \A j \in 1..k : d.files[j].kind = "file" /\ d.files[j].size <= limits.file
    /\ Inventory!Readable(d) => s.complete

LEMMA AppendPair ==
    ASSUME NEW k \in Nat, NEW files
    PROVE  Append([j \in 1..k |-> <<j, files[j]>>], <<k + 1, files[k + 1]>>)
              = [j \in 1..(k + 1) |-> <<j, files[j]>>]
<1> DEFINE q == [j \in 1..k |-> <<j, files[j]>>]
           V == {<<j, files[j]>> : j \in 1..(k + 1)}
           e == <<k + 1, files[k + 1]>>
<1>1. q \in Seq(V) /\ Len(q) = k /\ e \in V
  <2>1. \A j \in 1..k : q[j] \in V
    OBVIOUS
  <2>2. q \in [1..k -> V]
    BY <2>1
  <2>3. e \in V
    OBVIOUS
  <2> QED BY <2>2, <2>3
<1>2. /\ Append(q, e) \in Seq(V) /\ Len(Append(q, e)) = k + 1
      /\ \A j \in 1..k : Append(q, e)[j] = q[j]
      /\ Append(q, e)[k + 1] = e
  <2> HIDE DEF q, V, e
  <2> QED BY <1>1
<1>3. Append(q, e) = [j \in 1..(k + 1) |-> Append(q, e)[j]]
  <2>1. ASSUME NEW p \in Seq(V) PROVE p = [j \in 1..Len(p) |-> p[j]]
    BY <2>1
  <2> HIDE DEF q, V, e
  <2> QED BY <1>2, <2>1
<1>4. \A j \in 1..(k + 1) : Append(q, e)[j] = <<j, files[j]>>
  <2> SUFFICES ASSUME NEW j \in 1..(k + 1) PROVE Append(q, e)[j] = <<j, files[j]>>
    OBVIOUS
  <2>1. CASE j = k + 1
    BY <2>1, <1>2
  <2>2. CASE j \in 1..k
    BY <2>2, <1>2
  <2> QED BY <2>1, <2>2
<1> HIDE DEF q, V, e
<1>5. Append(q, e) = [j \in 1..(k + 1) |-> <<j, files[j]>>]
  BY <1>3, <1>4
<1> QED BY <1>5 DEF q, e

LEMMA ScanIsExact ==
    ASSUME NEW d \in Directories, limits \in Limits
    PROVE  ScannedTo(d, Len(d.files))
<1> DEFINE n == Len(d.files)
           S == {k \in 0..n : ScannedTo(d, k)}
<1>1. /\ n \in Nat /\ DOMAIN d.files = 1..n
      /\ limits.files \in Nat /\ limits.file \in Nat /\ limits.total \in Nat
      /\ \A f \in 1..n : /\ d.files[f].kind \in {"file", "unreadable", "link"}
                         /\ d.files[f].size \in Nat
  BY DirectoryFacts, LimitFacts
<1>2. Inventory!Readable(d) =>
         /\ Inventory!Links(d) = {} /\ n <= limits.files
         /\ \A f \in 1..n : d.files[f].kind = "file" /\ d.files[f].size <= limits.file
         /\ \A f \in 0..n : TotalUpTo(d.files)[f] <= limits.total
  <2> SUFFICES ASSUME Inventory!Readable(d)
               PROVE  /\ Inventory!Links(d) = {} /\ n <= limits.files
                      /\ \A f \in 1..n : d.files[f].kind = "file" /\ d.files[f].size <= limits.file
                      /\ \A f \in 0..n : TotalUpTo(d.files)[f] <= limits.total
    OBVIOUS
  <2>1. \A f \in 1..n : d.files[f].kind = "file" /\ d.files[f].size <= limits.file
    BY <1>1 DEF Inventory!Readable
  <2>2. Inventory!Links(d) = {}
    BY <2>1, <1>1 DEF Inventory!Links
  <2>3. Cardinality(1..n) = n
    BY <1>1, CardinalityUpTo
  <2>4. n <= limits.files /\ Inventory!Total(d.files) <= limits.total
    <3>1. Cardinality(DOMAIN d.files) = n
      BY <2>3, <1>1
    <3> HIDE DEF n
    <3> QED BY <3>1, SameCardinality DEF Inventory!Readable
  <2>5. ASSUME NEW f \in 0..n PROVE TotalUpTo(d.files)[f] <= limits.total
    <3>1. /\ TotalUpTo(d.files)[f] \in Nat /\ TotalUpTo(d.files)[f] <= Inventory!Total(d.files)
          /\ TotalUpTo(d.files)[n] = Inventory!Total(d.files) /\ TotalUpTo(d.files)[n] \in Nat
      BY <1>1, TotalFacts, TotalExists
    <3> QED BY <3>1, <2>4, <1>1
  <2> QED BY <2>1, <2>2, <2>4, <2>5
<1>3. ScannedTo(d, 0)
  <2> DEFINE s == ScanUpTo(d)[0]
  <2>1. s = Inventory!Unread(d)
    BY <1>1, ScanExists
  <2>2. s.read = <<>> /\ s.total = 0 /\ ~s.stopped /\ IsScan(s)
    BY <2>1 DEF Inventory!Unread, IsScan
  <2>3. s.complete <=> Inventory!Links(d) = {} /\ n <= limits.files
    BY <2>1, WalkFacts
  <2>4. TotalUpTo(d.files)[0] = 0 /\ 0 <= limits.total
    BY <1>1, TotalExists
  <2>5. [j \in 1..0 |-> <<j, d.files[j]>>] = <<>>
    BY NoFunction
  <2> QED BY <1>2, <2>2, <2>3, <2>4, <2>5 DEF ScannedTo
<1>4. ASSUME NEW k \in 1..n, ScannedTo(d, k - 1)
      PROVE  ScannedTo(d, k)
  <2> DEFINE s == ScanUpTo(d)[k - 1]
             t == ScanUpTo(d)[k]
             file == d.files[k]
  <2>1. t = IF k \in Inventory!Kept(d) THEN Inventory!ReadOn(d, s, k) ELSE s
    BY <1>1, ScanExists
  <2>2. CASE ~s.complete
    <3>1. IsScan(s) /\ ~Inventory!Readable(d)
      BY <1>4, <2>2 DEF ScannedTo
    <3>2. IsScan(t) /\ ~t.complete
      BY <2>1, <2>2, <3>1, ReadOnFacts
    <3> QED BY <3>1, <3>2 DEF ScannedTo
  <2>3. CASE s.complete
    <3>1. /\ IsScan(s) /\ ~s.stopped
          /\ Inventory!Links(d) = {} /\ n <= limits.files
          /\ s.read = [j \in 1..(k - 1) |-> <<j, d.files[j]>>]
          /\ s.total = TotalUpTo(d.files)[k - 1] /\ s.total <= limits.total
          /\ \A j \in 1..(k - 1) : d.files[j].kind = "file" /\ d.files[j].size <= limits.file
      BY <1>4, <2>3 DEF ScannedTo
    <3>2. t = Inventory!ReadOn(d, s, k)
      <4>1. Inventory!Unread(d).complete
        BY <3>1, WalkFacts
      <4> QED BY <4>1, <2>1, WalkFacts
    <3>3. /\ TotalUpTo(d.files)[k] = s.total + file.size
          /\ s.total \in Nat /\ file.size \in Nat /\ file.kind \in {"file", "unreadable"}
      <4>1. TotalUpTo(d.files)[k] = TotalUpTo(d.files)[k - 1] + d.files[k].size
        BY <1>1, TotalExists
      <4>2. TotalUpTo(d.files)[k - 1] \in Nat
        <5>1. k - 1 \in 0..n
          BY <1>1
        <5> QED BY <5>1, TotalFacts
      <4>3. file.kind # "link"
        BY <1>1, <3>1 DEF Inventory!Links
      <4> QED BY <1>1, <3>1, <4>1, <4>2, <4>3
    <3>4. IsScan(t)
      BY <3>1, <3>2, ReadOnFacts
    <3>5. CASE file.kind = "unreadable" \/ Over(s, file)
      <4>1. ~t.complete
        BY <3>1, <3>2, <3>3, <3>5, ReadOnFacts
      <4>2. ~Inventory!Readable(d)
        <5> SUFFICES ASSUME Inventory!Readable(d) PROVE FALSE
          OBVIOUS
        <5>1. /\ file.kind = "file" /\ file.size <= limits.file
              /\ s.total + file.size <= limits.total
          BY <1>1, <1>2, <3>3
        <5> HIDE DEF s, file
        <5> QED BY <5>1, <1>1, <3>3, <3>5 DEF Over
      <4> QED BY <3>4, <4>1, <4>2 DEF ScannedTo
    <3>6. CASE file.kind = "file" /\ ~Over(s, file)
      <4>1. /\ t.read = Append(s.read, <<k, file>>) /\ t.total = s.total + file.size
            /\ ~t.stopped /\ t.complete
        BY <2>3, <3>1, <3>2, <3>6, ReadOnFacts
      <4>2. file.size <= limits.file /\ t.total <= limits.total
        <5> HIDE DEF s, file, t
        <5> QED BY <1>1, <3>3, <3>6, <4>1 DEF Over
      <4>3. t.read = [j \in 1..k |-> <<j, d.files[j]>>]
        <5>1. k - 1 \in Nat /\ (k - 1) + 1 = k
          BY <1>1
        <5>2. Append([j \in 1..(k - 1) |-> <<j, d.files[j]>>], <<(k - 1) + 1, d.files[(k - 1) + 1]>>)
                 = [j \in 1..((k - 1) + 1) |-> <<j, d.files[j]>>]
          BY <5>1, AppendPair
        <5> QED BY <3>1, <4>1, <5>1, <5>2
      <4>4. \A j \in 1..k : d.files[j].kind = "file" /\ d.files[j].size <= limits.file
        <5> SUFFICES ASSUME NEW j \in 1..k
                     PROVE  d.files[j].kind = "file" /\ d.files[j].size <= limits.file
          OBVIOUS
        <5>1. j = k \/ j \in 1..(k - 1)
          BY <1>1
        <5> QED BY <5>1, <3>1, <3>6, <4>2
      <4>5. t.total = TotalUpTo(d.files)[k]
        BY <3>3, <4>1
      <4> HIDE DEF s, file
      <4> QED BY <3>1, <3>4, <4>1, <4>2, <4>3, <4>4, <4>5 DEF ScannedTo
    <3> QED BY <3>3, <3>5, <3>6
  <2> QED BY <2>2, <2>3, <1>4 DEF ScannedTo
<1>5. ASSUME NEW k \in 1..n, k - 1 \in S PROVE k \in S
  <2> HIDE DEF n
  <2> QED BY <1>4, <1>5, <1>1
<1>6. 0 \in S
  BY <1>1, <1>3
<1>7. 0..n \subseteq S
  <2> HIDE DEF n, S
  <2> QED BY <1>1, <1>5, <1>6, UpTo
<1> QED BY <1>1, <1>7

----------------------------------------------------------------------------
(* The status of a skill                                                   *)

\* A copy is scanned without a warning if all of it can be read.
LEMMA InstanceFacts ==
    ASSUME NEW d \in Directories, limits \in Limits
    PROVE  /\ Inventory!Instance(d).warned <=> ~Inventory!Readable(d)
           /\ Inventory!Readable(d) =>
                 Inventory!Instance(d).digest = [j \in 1..Len(d.files) |-> <<j, d.files[j]>>]
<1> DEFINE n == Len(d.files)
           s == Inventory!Scan(d)
<1>1. n \in Nat /\ DOMAIN d.files = 1..n /\ d.front \in BOOLEAN /\ d.listed \in BOOLEAN
  BY DirectoryFacts
<1>2. /\ s.complete => /\ n <= limits.files
                       /\ s.read = [j \in 1..n |-> <<j, d.files[j]>>]
                       /\ Inventory!Total(d.files) <= limits.total
                       /\ \A j \in 1..n : d.files[j].kind = "file" /\ d.files[j].size <= limits.file
      /\ Inventory!Readable(d) => s.complete
  <2>1. s = ScanUpTo(d)[n] /\ Inventory!Total(d.files) = TotalUpTo(d.files)[n]
    BY <1>1, ScanExists, TotalExists
  <2> HIDE DEF s
  <2>2. ScannedTo(d, n)
    BY ScanIsExact
  <2> QED BY <2>1, <2>2 DEF ScannedTo
<1> HIDE DEF s
<1>3. Cardinality(1..n) = n
  BY <1>1, CardinalityUpTo
<1>4. Inventory!Readable(d) <=> d.front /\ d.listed /\ s.complete
  <2>1. Cardinality(DOMAIN d.files) = n
    BY <1>1, <1>3
  <2> HIDE DEF n
  <2>2. ASSUME d.front, d.listed, s.complete PROVE Inventory!Readable(d)
    BY <1>1, <1>2, <2>1, <2>2, SameCardinality DEF Inventory!Readable
  <2>3. Inventory!Readable(d) => d.front /\ d.listed
    BY DEF Inventory!Readable
  <2> QED BY <1>2, <2>2, <2>3
<1>5. /\ Inventory!Instance(d).warned <=> ~d.front \/ ~d.listed \/ ~s.complete
      /\ d.listed => Inventory!Instance(d).digest = s.read
  BY DEF Inventory!Instance, s
<1> QED BY <1>2, <1>4, <1>5

LEMMA EqualDigests ==
    ASSUME NEW d \in Directories, NEW e \in Directories, limits \in Limits,
           Inventory!Readable(d), Inventory!Readable(e)
    PROVE  Inventory!Instance(d).digest = Inventory!Instance(e).digest <=> d.files = e.files
<1> DEFINE Pairs(files) == [j \in 1..Len(files) |-> <<j, files[j]>>]
<1>1. /\ Inventory!Instance(d).digest = Pairs(d.files)
      /\ Inventory!Instance(e).digest = Pairs(e.files)
  BY InstanceFacts
<1>2. ASSUME Pairs(d.files) = Pairs(e.files) PROVE d.files = e.files
  <2>1. 1..Len(d.files) = 1..Len(e.files)
    <3>1. DOMAIN Pairs(d.files) = 1..Len(d.files) /\ DOMAIN Pairs(e.files) = 1..Len(e.files)
      OBVIOUS
    <3> HIDE DEF Pairs
    <3> QED BY <3>1, <1>2
  <2>2. ASSUME NEW j \in 1..Len(d.files) PROVE d.files[j] = e.files[j]
    <3>1. Pairs(d.files)[j] = <<j, d.files[j]>>
      OBVIOUS
    <3>2. Pairs(e.files)[j] = <<j, e.files[j]>>
      BY <2>1
    <3>3. <<j, d.files[j]>> = <<j, e.files[j]>>
      <4> HIDE DEF Pairs
      <4> QED BY <3>1, <3>2, <1>2
    <3> QED BY <3>3
  <2>3. /\ d.files = [f \in 1..Len(d.files) |-> d.files[f]]
        /\ e.files = [f \in 1..Len(e.files) |-> e.files[f]]
    BY DirectoryFacts
  <2> HIDE DEF Pairs
  <2> QED BY <2>1, <2>2, <2>3
<1> QED BY <1>1, <1>2

SkillTyped ==
    /\ shared \in [Shared -> Directories \cup {None}]
    /\ target \in [Targets -> Directories \cup {None}]
    /\ limits \in Limits

\* What StatusIsOfTheFiles says of the status st.
IsOfTheFiles(st) ==
    LET here == {t \in Targets : target[t] # None}
        sources == {p \in Shared : shared[p] # None}
        all == {shared[p] : p \in sources} \cup {target[t] : t \in here}
        first == {p \in sources : \A q \in sources : p <= q}
        equal == \A t \in here, p \in first : target[t].files = shared[p].files
        lacking == {t \in Targets \ here : filter[t].include # "other" /\ ~filter[t].exclude}
        whole == \A d \in all : Inventory!Readable(d)
    IN  /\ st = "scan_warning" => ~whole
        /\ st = "diverged" => whole /\ ~equal
        /\ st = "missing" => whole /\ equal /\ sources # {} /\ lacking # {}
        /\ st = "consistent" => whole /\ equal /\ sources # {} /\ lacking = {}
        /\ st = "local_only" => whole /\ sources = {}

LEMMA StatusFacts ==
    ASSUME SkillTyped, NEW st, st = Inventory!AssetStatus
    PROVE  IsOfTheFiles(st)
<1> DEFINE here == {t \in Targets : target[t] # None}
           sources == {p \in Shared : shared[p] # None}
           all == {shared[p] : p \in sources} \cup {target[t] : t \in here}
           first == {p \in sources : \A q \in sources : p <= q}
           equal == \A t \in here, p \in first : target[t].files = shared[p].files
           lacking == {t \in Targets \ here : filter[t].include # "other" /\ ~filter[t].exclude}
           whole == \A d \in all : Inventory!Readable(d)
           source == Inventory!Source
<1>1. /\ Inventory!Copies(shared) = sources /\ Inventory!Copies(target) = here
      /\ Inventory!HasSource <=> sources # {}
  BY DEF SkillTyped, Inventory!Copies, Inventory!HasSource
<1>2. /\ all \subseteq Directories /\ limits \in Limits
      /\ \A t \in here : target[t] \in all
      /\ \A p \in sources : shared[p] \in all
  BY DEF SkillTyped
<1>3. sources # {} => source \in sources /\ first = {source}
  <2> SUFFICES ASSUME sources # {} PROVE source \in sources /\ first = {source}
    OBVIOUS
  <2>1. sources \in SUBSET Nat
    BY InventoryAssumption DEF Inventory!SharedAssumption
  <2> HIDE DEF sources
  <2>2. \E p \in sources : \A q \in sources : p <= q
    BY <2>1, LeastExists
  <2>3. source = CHOOSE p \in sources : \A q \in sources : p <= q
    BY <1>1 DEF Inventory!Source
  <2>4. source \in sources /\ \A q \in sources : source <= q
    BY <2>2, <2>3
  <2>5. ASSUME NEW p \in sources, \A q \in sources : p <= q PROVE p = source
    BY <2>1, <2>4, <2>5
  <2> QED BY <2>4, <2>5
<1>4. (\E d \in all : Inventory!Instance(d).warned) <=> ~whole
  <2> HIDE DEF all
  <2> QED BY <1>2, InstanceFacts
<1>5. ASSUME whole, sources # {}
      PROVE  (\E t \in here : Inventory!Instance(target[t]).digest
                                 # Inventory!Instance(shared[source]).digest) <=> ~equal
  <2>1. \A t \in here : /\ target[t] \in Directories /\ Inventory!Readable(target[t])
    BY <1>2, <1>5
  <2>2. shared[source] \in Directories /\ Inventory!Readable(shared[source])
    BY <1>2, <1>3, <1>5
  <2>3. \A t \in here : Inventory!Instance(target[t]).digest
                           = Inventory!Instance(shared[source]).digest
                        <=> target[t].files = shared[source].files
    <3> HIDE DEF here, source
    <3> QED BY <1>2, <2>1, <2>2, EqualDigests
  <2>4. equal <=> \A t \in here : target[t].files = shared[source].files
    <3> HIDE DEF here, source, sources, first
    <3> QED BY <1>3, <1>5
  <2> HIDE DEF here, equal, source
  <2> QED BY <2>3, <2>4
<1>6. sources = {} => equal
  OBVIOUS
<1>7. Inventory!MissingTargets = IF sources # {} THEN lacking ELSE {}
  BY <1>1 DEF Inventory!MissingTargets, Inventory!Expects
<1>8. st = IF ~whole THEN "scan_warning"
               ELSE IF sources # {} /\ ~equal THEN "diverged"
               ELSE IF sources # {} /\ lacking # {} THEN "missing"
               ELSE IF sources # {} THEN "consistent" ELSE "local_only"
  <2>1. st =
          IF \E d \in all : Inventory!Instance(d).warned THEN "scan_warning"
          ELSE IF sources # {} /\ \E t \in here :
                     Inventory!Instance(target[t]).digest
                        # Inventory!Instance(shared[source]).digest THEN "diverged"
          ELSE IF Inventory!MissingTargets # {} THEN "missing"
          ELSE IF sources # {} THEN "consistent" ELSE "local_only"
    <3> HIDE DEF here, sources
    <3> QED BY <1>1 DEF Inventory!AssetStatus
  <2> HIDE DEF here, sources, all, equal, lacking, whole, source
  <2> QED BY <2>1, <1>4, <1>5, <1>7
<1>9. /\ st = "scan_warning" => ~whole
      /\ st = "diverged" => whole /\ ~equal
      /\ st = "missing" => whole /\ equal /\ sources # {} /\ lacking # {}
      /\ st = "consistent" => whole /\ equal /\ sources # {} /\ lacking = {}
      /\ st = "local_only" => whole /\ sources = {}
  <2> HIDE DEF here, sources, all, first, equal, lacking, whole
  <2> QED BY <1>6, <1>8
<1> QED BY <1>9 DEF IsOfTheFiles

\* InventoryScan: the status of a skill is what one would say of the files of
\* its copies, for directories of any size and any limits.
THEOREM StatusesAreOfTheFiles == Inventory!Spec => []StatusIsOfTheFiles
<1> DEFINE SkillInv == SkillTyped /\ StatusIsOfTheFiles
<1>1. Inventory!Init => SkillInv
  BY InventoryAssumption
     DEF Inventory!Init, SkillTyped, Inventory!SharedAssumption, Inventory!Statuses,
         StatusIsOfTheFiles, Inventory!StatusIsOfTheFiles
<1>2. SkillInv /\ [Inventory!Next]_(Inventory!vars) => SkillInv'
  <2> SUFFICES ASSUME SkillInv, [Inventory!Next]_(Inventory!vars) PROVE SkillInv'
    OBVIOUS
  <2>1. UNCHANGED <<shared, target, filter, limits>>
    BY DEF Inventory!Next, Inventory!Aggregate, Inventory!vars
  <2>2. SkillTyped'
    BY <2>1 DEF SkillTyped
  <2>3. IsOfTheFiles(status')
    <3>1. CASE status' = status
      BY <3>1 DEF StatusIsOfTheFiles, Inventory!StatusIsOfTheFiles, IsOfTheFiles
    <3>2. CASE status' = Inventory!AssetStatus
      BY <3>2, StatusFacts
    <3> QED BY <3>1, <3>2 DEF Inventory!Next, Inventory!Aggregate, Inventory!vars
  <2>4. \A d : Inventory!Readable(d)' <=> Inventory!Readable(d)
    BY <2>1 DEF Inventory!Readable
  <2>5. StatusIsOfTheFiles'
    BY <2>1, <2>3, <2>4 DEF StatusIsOfTheFiles, Inventory!StatusIsOfTheFiles, IsOfTheFiles
  <2> QED BY <2>2, <2>5
<1>3. SkillInv => StatusIsOfTheFiles
  OBVIOUS
<1> QED BY <1>1, <1>2, <1>3, PTL DEF Inventory!Spec

=============================================================================
