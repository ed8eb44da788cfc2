----------------------------- MODULE ReadService -----------------------------
(***************************************************************************)
(* GovernanceReadService.status and drift beside the commands that change  *)
(* what they read. A report reads the registry, then the ledger, then --   *)
(* of the deployment that the ledger names -- the plan, the projection and *)
(* the two runtime trees, and takes no lock. One target is modelled; what  *)
(* is raised about one target is raised in place of the whole report.      *)
(***************************************************************************)
EXTENDS Deployment

VARIABLES
    view,       \* the report under way or given last
    at,         \* history: how many entries there were when the report began
    busy,       \* history: was a deployment under way at some time since?
    touched,    \* history: has a tree or the ledger changed since?
    meddled     \* history: has someone else ever written a tree?

reader == <<view, at, busy, touched, meddled>>
all == <<vars, reader>>

Answers == {"healthy", "drifted", "unmanaged"}
Views == [pc : {"idle", "ledger", "projection", "diff"} \cup Answers, entry : Nat,
          todo : SUBSET Sides, differs : BOOLEAN]
NewView == [pc |-> "idle", entry |-> 0, todo |-> Sides, differs |-> FALSE]

ReadInit ==
    /\ Init
    /\ view = NewView /\ at = 0 /\ busy = FALSE /\ touched = FALSE /\ meddled = FALSE

\* load_snapshot, and the target's entry in it.
BeginReport ==
    /\ view.pc \in {"idle"} \cup Answers
    /\ view' = [NewView EXCEPT !.pc = "ledger"]
    /\ at' = Len(ledger) /\ busy' = ~AtRest /\ touched' = FALSE
    /\ UNCHANGED <<vars, meddled>>

\* _latest_successful_deployments. A ledger that cannot be read is an error.
ReadLedger ==
    /\ view.pc = "ledger" /\ ~torn
    /\ view' = [view EXCEPT !.entry = LatestSuccessful,
                            !.pc = IF LatestSuccessful = 0 THEN "unmanaged" ELSE "projection"]
    /\ UNCHANGED <<vars, at, busy, touched, meddled>>

\* get_plan, ProjectionLocator.for_plan_id and the adapter's discover, which
\* does not look at the trees.
FindProjection ==
    /\ view.pc = "projection"
    /\ projections[ledger[view.entry].plan] # None
    /\ view' = [view EXCEPT !.pc = "diff"]
    /\ UNCHANGED <<vars, at, busy, touched, meddled>>

\* adapter.verify: skillshare diff compares one tree after the other.
DiffSide(s) ==
    /\ view.pc = "diff" /\ s \in view.todo
    /\ view' = [view EXCEPT !.todo = @ \ {s},
                            !.differs = @ \/ trees[s] # Content(ledger[view.entry].plan)]
    /\ UNCHANGED <<vars, at, busy, touched, meddled>>

\* Mutant: one target in sync makes up for the other.
ReportLastSide ==
    /\ view.pc = "diff" /\ Cardinality(view.todo) < 2
    /\ view' = [view EXCEPT !.pc = IF view.differs THEN "drifted" ELSE "healthy"]
    /\ UNCHANGED <<vars, at, busy, touched, meddled>>

\* _parse_diff, and the report.
Report ==
    /\ view.pc = "diff" /\ view.todo = {}
    /\ view' = [view EXCEPT !.pc = IF view.differs THEN "drifted" ELSE "healthy"]
    /\ UNCHANGED <<vars, at, busy, touched, meddled>>

\* Anything raised on the way, a capability that is not supported included.
ReportFails ==
    /\ view.pc \in {"ledger", "projection", "diff"}
    /\ view' = NewView
    /\ UNCHANGED <<vars, at, busy, touched, meddled>>

\* A command takes a step.
Command ==
    /\ Next
    /\ busy' = (busy \/ ~AtRest')
    /\ touched' = (touched \/ trees' # trees \/ log' # log)
    /\ UNCHANGED <<view, at, meddled>>

\* Somebody changes a runtime tree behind skillctl's back.
Meddle(s) ==
    /\ edits < MaxEdits /\ trees[s] # Mixed
    /\ Write(s, Mixed, NoDep)
    /\ edits' = edits + 1
    /\ touched' = TRUE /\ meddled' = TRUE
    /\ UNCHANGED <<world, disk, log, job, stragglers, nextDep, kills, begun, unrecorded,
                   overlapped, view, at, busy>>

ReadNext ==
    \/ BeginReport \/ ReadLedger \/ FindProjection \/ Report \/ ReportFails
    \/ \E s \in Sides : DiffSide(s) \/ Meddle(s)
    \/ Command

ReadSpec == ReadInit /\ [][ReadNext]_all

----------------------------------------------------------------------------
(* Properties                                                              *)

Given == view.pc \in Answers

(* A report is never about an older deployment than the last one that was  *)
(* recorded as a success before the report began: who asks for the status  *)
(* after an apply or a rollback returned is told of that one, or of a      *)
(* later one.                                                              *)
ReportIsNotOlder ==
    Given => \A i \in (view.entry + 1)..at : ledger[i].result = "failed"

(* Nothing is locked, so a report can mix two moments. If neither a tree   *)
(* nor the ledger changed while it was made it is exact: unmanaged before  *)
(* the first success, and otherwise healthy if and only if both trees hold *)
(* what the latest success deployed, or rolled back to.                    *)
Successes == {i \in 1..Len(ledger) : ledger[i].result # "failed"}

UndisturbedReportIsExact ==
    Given /\ ~touched =>
        /\ view.pc = "unmanaged" <=> Successes = {}
        /\ view.pc = "healthy" <=>
              \E i \in Successes :
                 /\ \A k \in Successes : k <= i
                 /\ \A s \in Sides : trees[s] = Content(ledger[i].plan)

(* A target whose trees only skillctl writes is not called drifted without *)
(* a cause: a deployment that was under way at some time since the report  *)
(* began, one that failed after the one the report is about, one that ran  *)
(* beside another, or one whose outcome was never recorded.                *)
DriftHasACause ==
    view.pc = "drifted" =>
        \/ meddled \/ busy
        \/ overlapped # {} \/ unrecorded # {}
        \/ \E k \in (view.entry + 1)..Len(ledger) : ledger[k].result = "failed"

=============================================================================
