------------------------------ MODULE Planning ------------------------------
(***************************************************************************)
(* What a plan is made from: load_snapshot reads six documents one after   *)
(* the other while the owner edits them, `plan` loads twice and `apply`    *)
(* once more, and only digests tie the loads together. One target and one  *)
(* plan at a time are modelled. A revision stands for a revision with its  *)
(* checksum: the code compares them together.                              *)
(***************************************************************************)
EXTENDS Naturals, Sequences

CONSTANTS Assets, Profiles, Revisions, None, MaxEdits, MaxCommands

NoneIsNoRevision == None \notin Revisions
BoundsAssumption == {MaxEdits, MaxCommands} \subseteq Nat

VARIABLES
    docs,      \* the documents, as they are on disk
    job,       \* the command under way and what it has read so far
    plan,      \* the plan that was published last, or None
    edits, commands,
    began,     \* history: the documents when the current load began
    quiet,     \* history: has no edit come between its first and last read?
    asked      \* history: what the documents asked for at each quiet load of "plan"

vars == <<docs, job, plan, edits, commands, began, quiet, asked>>

\* The order in which load_snapshot reads.
Order == <<"assets", "targets", "profiles", "memberships", "bindings", "observations">>

PartialMaps(S, T) == UNION {[X -> T] : X \in SUBSET S}

\* What the owner can write in each document.
Values ==
    [assets |-> PartialMaps(Assets, [revision : Revisions, allowed : BOOLEAN]),
     targets |-> SUBSET {"target"},
     profiles |-> PartialMaps(Profiles, {"selects", "other", "malformed"}),
     memberships |-> SUBSET [asset : Assets, profile : Profiles, approved : BOOLEAN],
     bindings |-> SUBSET Assets,
     observations |-> PartialMaps(Assets, Revisions)]
Documents ==
    [assets : Values.assets, targets : Values.targets, profiles : Values.profiles,
     memberships : Values.memberships, bindings : Values.bindings,
     observations : Values.observations]

\* Every reference resolves, and nothing refers to a quarantined asset.
Valid(d) ==
    /\ \A m \in d.memberships :
          /\ m.asset \in DOMAIN d.assets /\ m.profile \in DOMAIN d.profiles
          /\ d.assets[m.asset].allowed
    /\ \A a \in d.bindings :
          a \in DOMAIN d.assets /\ "target" \in d.targets /\ d.assets[a].allowed
    /\ \A a \in DOMAIN d.observations : a \in DOMAIN d.assets /\ "target" \in d.targets

----------------------------------------------------------------------------
(* desired_assets and calculate_changes                                    *)

Plannable(d) ==
    "target" \in d.targets /\ \A p \in DOMAIN d.profiles : d.profiles[p] # "malformed"

Desired(d) ==
    LET matching == {p \in DOMAIN d.profiles : d.profiles[p] = "selects"}
        approved == {m.asset : m \in {n \in d.memberships : n.profile \in matching /\ n.approved}}
    IN  [a \in {b \in DOMAIN d.assets : b \in approved /\ d.assets[b].allowed}
            |-> d.assets[a].revision]

\* An asset that is observed and no longer desired is left as it is.
Changes(desired, observed) ==
    LET same == {a \in DOMAIN desired \cap DOMAIN observed : observed[a] = desired[a]} IN
    [a \in DOMAIN desired \ same |->
        [before |-> IF a \in DOMAIN observed THEN observed[a] ELSE None,
         after |-> desired[a]]]

----------------------------------------------------------------------------

Idle == [pc |-> "idle", read |-> 0, got |-> <<>>, evidence |-> <<>>]

Init ==
    /\ docs \in {d \in Documents : Valid(d) /\ Plannable(d)}
    /\ job = Idle /\ plan = None /\ edits = 0 /\ commands = 0
    /\ began = docs /\ quiet = TRUE /\ asked = {}

\* The owner saves one of the documents.
Edit(name) ==
    /\ edits < MaxEdits
    /\ \E v \in Values[name] \ {docs[name]} : docs' = [docs EXCEPT ![name] = v]
    /\ edits' = edits + 1
    /\ quiet' = (quiet /\ job.read \in {0, Len(Order)})
    /\ UNCHANGED <<job, plan, commands, began, asked>>

Load(pc, evidence) == job' = [Idle EXCEPT !.pc = pc, !.evidence = evidence]

BeginPlan ==
    /\ job.pc = "idle" /\ commands < MaxCommands
    /\ commands' = commands + 1
    /\ Load("first", <<>>)
    /\ asked' = {} /\ plan' = None
    /\ UNCHANGED <<docs, edits, began, quiet>>

BeginApply ==
    /\ job.pc = "idle" /\ commands < MaxCommands /\ plan # None
    /\ commands' = commands + 1
    /\ Load("apply", <<>>)
    /\ UNCHANGED <<docs, plan, edits, began, quiet, asked>>

ReadDocument ==
    /\ job.pc \in {"first", "second", "apply"} /\ job.read < Len(Order)
    /\ LET name == Order[job.read + 1] IN
          job' = [job EXCEPT !.read = @ + 1,
                             !.got = [n \in DOMAIN @ \cup {name} |->
                                         IF n = name THEN docs[n] ELSE @[n]]]
    /\ IF job.read = 0 THEN began' = docs /\ quiet' = TRUE ELSE UNCHANGED <<began, quiet>>
    /\ UNCHANGED <<docs, plan, edits, commands, asked>>

\* A document cannot be read or parsed, or has an id twice; the adapter, the
\* approval or another check refuses.
CommandFails ==
    /\ job.pc # "idle"
    /\ job' = Idle
    /\ UNCHANGED <<docs, plan, edits, commands, began, quiet, asked>>

Loaded(pc) == job.pc = pc /\ job.read = Len(Order)
Usable == Valid(job.got) /\ Plannable(job.got)

Refuse ==
    /\ \E pc \in {"first", "second", "apply"} : Loaded(pc)
    /\ ~Usable
    /\ job' = Idle
    /\ UNCHANGED <<docs, plan, edits, commands, began, quiet, asked>>

Needed(d) == Changes(Desired(d), d.observations)
Ask == asked' = IF quiet THEN asked \cup {Needed(began)} ELSE asked

\* GovernanceRuntime.create_plan: the adapter is asked about these changes.
AskAdapter ==
    /\ Loaded("first") /\ Usable
    /\ Load("second", Needed(job.got))
    /\ Ask
    /\ UNCHANGED <<docs, plan, edits, commands, began, quiet>>

Proposed == [changes |-> Needed(job.got), desired |-> Desired(job.got),
             observed |-> job.got.observations]

\* Mutant: the changes that the adapter saw are not compared.
PublishUnbound ==
    /\ Loaded("second") /\ Usable
    /\ plan' = Proposed
    /\ job' = Idle /\ Ask
    /\ UNCHANGED <<docs, edits, commands, began, quiet>>

\* PlanService.create: what the adapter was asked about must be the changes.
Publish ==
    /\ Loaded("second") /\ Usable
    /\ plan' = IF job.evidence = Needed(job.got) THEN Proposed ELSE None
    /\ job' = Idle /\ Ask
    /\ UNCHANGED <<docs, edits, commands, began, quiet>>

\* Mutant: what was observed may have changed since.
FreshDesired == plan.desired = Desired(job.got)

Fresh == plan.desired = Desired(job.got) /\ plan.observed = job.got.observations

\* DeploymentService._validate_fresh_state
ValidateFreshState ==
    /\ Loaded("apply") /\ Usable
    /\ job' = IF Fresh THEN [job EXCEPT !.pc = "deploy"] ELSE Idle
    /\ UNCHANGED <<docs, plan, edits, commands, began, quiet, asked>>

Deploy ==
    /\ job.pc = "deploy"
    /\ job' = Idle
    /\ UNCHANGED <<docs, plan, edits, commands, began, quiet, asked>>

Next ==
    \/ \E name \in DOMAIN docs : Edit(name)
    \/ BeginPlan \/ BeginApply \/ ReadDocument \/ CommandFails \/ Refuse
    \/ AskAdapter \/ Publish \/ ValidateFreshState \/ Deploy

Spec == Init /\ [][Next]_vars

----------------------------------------------------------------------------
(* Properties                                                              *)

(* What the documents d say, asset by asset: it is registered and not      *)
(* quarantined, and some profile that selects the target has it, approved. *)
ApprovedFor(d, a) ==
    /\ a \in DOMAIN d.assets /\ d.assets[a].allowed
    /\ \E p \in DOMAIN d.profiles :
          /\ d.profiles[p] = "selects"
          /\ [asset |-> a, profile |-> p, approved |-> TRUE] \in d.memberships

(* A plan whose documents were edited while they were read may mix two     *)
(* states of the registry. It asks for exactly what one state asked for as *)
(* soon as one of its two loads was undisturbed.                           *)
OneQuietLoadIsEnough == plan # None => asked \subseteq {plan.changes}

(* However a plan came about: an apply whose own load was undisturbed goes *)
(* on only with a plan that asks, of exactly the assets that are approved  *)
(* and not yet observed in their revision, for that revision.              *)
DeployedIsDesired ==
    job.pc = "deploy" /\ quiet =>
        LET needed == {a \in Assets :
                          /\ ApprovedFor(began, a)
                          /\ a \in DOMAIN began.observations =>
                                began.observations[a] # began.assets[a].revision}
        IN  /\ DOMAIN plan.changes = needed
            /\ \A a \in needed : plan.changes[a].after = began.assets[a].revision

=============================================================================
