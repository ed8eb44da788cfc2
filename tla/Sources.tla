------------------------------- MODULE Sources -------------------------------
(***************************************************************************)
(* What skillctl makes of what others change: the directories that a       *)
(* deployment rests on, which this module extends, the registry that a     *)
(* plan is made from, the documents that a starting Portal finds, and the  *)
(* directories that the inventory scans. The four share nothing; edits     *)
(* counts those of the owner in each.                                      *)
(***************************************************************************)
EXTENDS ProjectionStore

CONSTANTS
    Assets, Profiles, Revisions, MaxRegistryEdits, MaxCommands,
    Portals, Nothing, NoItems, MaxDocuments, MaxOwnerWrites,
    Shared, Targets, Directories, Filters, Limits

VARIABLES
    docs, job, plan, commands, began, quiet, asked,
    text, config, start, writes, owned, raced, cut,
    shared, target, filter, limits, status

Registry == INSTANCE Planning WITH MaxEdits <- MaxRegistryEdits
Portal == INSTANCE PortalStart WITH MaxWrites <- MaxOwnerWrites
Inventory == INSTANCE InventoryScan

ASSUME StoreAssumption == ValuesAssumption /\ BoundsAssumption
ASSUME RegistryAssumption == Registry!NoneIsNoRevision /\ Registry!BoundsAssumption
ASSUME PortalAssumption == Portal!TextsAssumption /\ Portal!BoundsAssumption
ASSUME InventoryAssumption ==
    /\ Inventory!SharedAssumption /\ Inventory!FiltersAssumption
    /\ Inventory!LimitsAssumption /\ Inventory!DirectoriesAssumption

storeVars == <<disk, planner, deployer, damages, stops, history>>
registryVars == <<docs, job, plan, commands, began, quiet, asked>>
portalVars == <<text, config, start, writes, owned, raced, cut>>
inventoryVars == <<shared, target, filter, limits, status>>

(* A plan asks for what one state of the registry asked for if one of its  *)
(* two loads was undisturbed.                                              *)
OneQuietLoadIsEnough == Registry!OneQuietLoadIsEnough

(* An apply whose own load was undisturbed deploys what is desired.        *)
DeployedIsDesired == Registry!DeployedIsDesired

(* Starting a Portal leaves the owner's documents.                         *)
StartsKeepDocuments == Portal!StartsKeepDocuments

(* A skill's status is what one would say of its files themselves.         *)
StatusIsOfTheFiles == Inventory!StatusIsOfTheFiles

=============================================================================
