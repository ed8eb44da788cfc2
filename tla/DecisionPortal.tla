--------------------------- MODULE DecisionPortal ----------------------------
(***************************************************************************)
(* Deciding a plan in the Portal: the plan's page (rendered by a thread    *)
(* of the pool) and the decision form it carries (handled on the event     *)
(* loop, one at a time), the token that links the two, and the approval    *)
(* record, for which other processes compete.                              *)
(*                                                                         *)
(* Plans are immutable (RecordStore), so a plan is its expiry here and the *)
(* form's digest always matches.                                           *)
(***************************************************************************)
EXTENDS TokenStore

CONSTANTS Plans,
          ExpiresAt,    \* when each plan expires
          Pages,        \* the plan pages that are requested
          None,         \* "nothing there"
          MaxTime,      \* bound on the clock
          MaxPosts,     \* bound on the forms sent
          MaxRestarts   \* bound on the Portal's restarts

ASSUME PlansAssumption == ExpiresAt \in [Plans -> Nat]
ASSUME NoneAssumption == None \notin Pages \cup Plans
ASSUME NoneIsNoApproval ==
    None \notin [decision : {"approved", "rejected"}, by : Pages \cup {None}, at : Nat]
ASSUME BoundsAssumption == MaxTime \in Nat /\ MaxPosts \in Nat /\ MaxRestarts \in Nat

VARIABLES now,        \* the clock
          approvals,  \* the approval records
          tokens,     \* the Portal's token store, in memory
          page,       \* page[k]: a page, from its request to the browser
          post,       \* the form the event loop is handling
          answers,    \* history: what the browser was told of page k's form
          uses,       \* history: how often page k's token was accepted
          posts, restarts

vars == <<now, approvals, tokens, page, post, answers, uses, posts, restarts>>

Times == 0..MaxTime
Decisions == {"approved", "rejected"}

\* "by" is the page whose form made the decision, None for another process.
Approvals == [decision : Decisions, by : Pages \cup {None}, at : Times]

\* "open": the browser shows a decision form; "closed": a page without one.
PagePcs == {"none", "check", "stamp", "issue", "open", "closed"}
PageStates == [pc : PagePcs, plan : Plans \cup {None}, at : Times]

PostPcs == {"idle", "stamp", "consume", "clock", "record"}
PostStates == [pc : PostPcs, page : Pages \cup {None}, decision : Decisions \cup {None}, at : Times]

NoPost == [pc |-> "idle", page |-> None, decision |-> None, at |-> 0]

TypeOK ==
    /\ now \in Times
    /\ approvals \in [Plans -> Approvals \cup {None}]
    /\ tokens \in SUBSET Tokens(Pages, Plans, 0..(MaxTime + Ttl))
    /\ page \in [Pages -> PageStates]
    /\ \A k \in Pages : page[k].pc # "none" => page[k].plan \in Plans
    /\ post \in PostStates
    /\ post.pc # "idle" => post.page \in Pages /\ post.decision \in Decisions
    /\ answers \in [Pages -> SUBSET {"recorded", "rejected", "unavailable"}]
    /\ uses \in [Pages -> 0..MaxPosts]
    /\ posts \in 0..MaxPosts /\ restarts \in 0..MaxRestarts

Init ==
    /\ now = 0
    /\ approvals = [p \in Plans |-> None]
    /\ tokens = {}
    /\ page = [k \in Pages |-> [pc |-> "none", plan |-> None, at |-> 0]]
    /\ post = NoPost
    /\ answers = [k \in Pages |-> {}] /\ uses = [k \in Pages |-> 0]
    /\ posts = 0 /\ restarts = 0

history == <<answers, uses>>
bounds == <<posts, restarts>>

----------------------------------------------------------------------------
(* GET /plans/{plan_id}                                                    *)

Becomes(k, s) == page' = [page EXCEPT ![k] = s]
Goto(k, pc) == Becomes(k, [page[k] EXCEPT !.pc = pc])

\* get_plan and approval_for_plan; either may find the state unreadable.
ViewPlan(k, p) ==
    /\ page[k].pc = "none"
    /\ \E pc \in {IF approvals[p] = None THEN "check" ELSE "closed", "closed"} :
          Becomes(k, [pc |-> pc, plan |-> p, at |-> 0])
    /\ UNCHANGED <<now, approvals, tokens, post, history, bounds>>

CheckExpiry(k) ==
    /\ page[k].pc = "check"
    /\ Goto(k, IF now < ExpiresAt[page[k].plan] THEN "stamp" ELSE "closed")
    /\ UNCHANGED <<now, approvals, tokens, post, history, bounds>>

ReadIssueClock(k) ==
    /\ page[k].pc = "stamp"
    /\ Becomes(k, [page[k] EXCEPT !.pc = "issue", !.at = now])
    /\ UNCHANGED <<now, approvals, tokens, post, history, bounds>>

Issue(k) ==
    /\ page[k].pc = "issue"
    /\ LET t == page[k].at IN
       IF HasRoom(tokens, t)
       THEN tokens' = Issued(tokens, t, k, page[k].plan) /\ Goto(k, "open")
       ELSE tokens' = Unexpired(tokens, t) /\ Goto(k, "closed")
    /\ UNCHANGED <<now, approvals, post, history, bounds>>

PageStep(k) == CheckExpiry(k) \/ ReadIssueClock(k) \/ Issue(k)

----------------------------------------------------------------------------
(* POST /plans/{plan_id}/decision                                          *)

\* The reviewer sends the form, and may send it again.
Submit(k, decision) ==
    /\ page[k].pc = "open" /\ post.pc = "idle" /\ posts < MaxPosts
    /\ posts' = posts + 1
    /\ post' = [pc |-> "stamp", page |-> k, decision |-> decision, at |-> 0]
    /\ UNCHANGED <<now, approvals, tokens, page, history, restarts>>

ReadConsumeClock ==
    /\ post.pc = "stamp"
    /\ post' = [post EXCEPT !.pc = "consume", !.at = now]
    /\ UNCHANGED <<now, approvals, tokens, page, history, bounds>>

Answer(a) == post' = NoPost /\ answers' = [answers EXCEPT ![post.page] = @ \cup {a}]

\* get_plan finds the state unreadable.
PlanUnreadable ==
    /\ post.pc = "stamp"
    /\ Answer("unavailable")
    /\ UNCHANGED <<now, approvals, tokens, page, uses, bounds>>

ConsumeToken ==
    /\ post.pc = "consume"
    /\ Accepts(tokens, post.at, post.page, page[post.page].plan)
    /\ tokens' = Consumed(tokens, post.at, post.page)
    /\ uses' = [uses EXCEPT ![post.page] = @ + 1]
    /\ post' = [post EXCEPT !.pc = "clock"]
    /\ UNCHANGED <<now, approvals, page, answers, bounds>>

RefuseToken ==
    /\ post.pc = "consume"
    /\ ~Accepts(tokens, post.at, post.page, page[post.page].plan)
    /\ tokens' = Unexpired(tokens, post.at)
    /\ Answer("rejected")
    /\ UNCHANGED <<now, approvals, page, uses, bounds>>

\* decision_tokens.current_time(), the time of the decision.
ReadDecisionClock ==
    /\ post.pc = "clock"
    /\ post' = [post EXCEPT !.pc = "record", !.at = now]
    /\ UNCHANGED <<now, approvals, tokens, page, history, bounds>>

DecidedPlan == page[post.page].plan

Decided == [decision |-> post.decision, by |-> post.page, at |-> post.at]

\* Mutant: the expiry is not looked at.
RecordDecisionLate ==
    /\ post.pc = "record"
    /\ approvals[DecidedPlan] = None
    /\ approvals' = [approvals EXCEPT ![DecidedPlan] = Decided]
    /\ Answer("recorded") \/ Answer("unavailable")
    /\ UNCHANGED <<now, tokens, page, uses, bounds>>

\* create_approval: a failure after the link is reported as one.
RecordDecision ==
    /\ post.pc = "record"
    /\ post.at < ExpiresAt[DecidedPlan]
    /\ approvals[DecidedPlan] = None
    /\ approvals' = [approvals EXCEPT ![DecidedPlan] = Decided]
    /\ Answer("recorded") \/ Answer("unavailable")
    /\ UNCHANGED <<now, tokens, page, uses, bounds>>

\* Mutant: a decision that exists already is taken for one's own.
DecisionExistsIsFine ==
    /\ post.pc = "record"
    /\ Answer(IF approvals[DecidedPlan] # None THEN "recorded" ELSE "unavailable")
    /\ UNCHANGED <<now, approvals, tokens, page, uses, bounds>>

\* The reason is refused, the plan has expired or is decided, the disk fails.
DecisionFails ==
    /\ post.pc = "record"
    /\ Answer("unavailable")
    /\ UNCHANGED <<now, approvals, tokens, page, uses, bounds>>

PostStep ==
    \/ ReadConsumeClock \/ PlanUnreadable \/ ConsumeToken \/ RefuseToken \/ ReadDecisionClock
    \/ RecordDecision \/ DecisionFails

----------------------------------------------------------------------------
(* The environment                                                         *)

\* A decision of another process, which read the clock some time ago.
DecideElsewhere(p, decision) ==
    /\ approvals[p] = None
    /\ \E t \in 0..now :
          /\ t < ExpiresAt[p]
          /\ approvals' = [approvals EXCEPT ![p] = [decision |-> decision, by |-> None, at |-> t]]
    /\ UNCHANGED <<now, tokens, page, post, history, bounds>>

Tick ==
    /\ now < MaxTime
    /\ now' = now + 1
    /\ UNCHANGED <<approvals, tokens, page, post, history, bounds>>

\* The Portal dies and starts again; browsers keep the pages they show.
Restart ==
    /\ restarts < MaxRestarts
    /\ restarts' = restarts + 1
    /\ tokens' = {} /\ post' = NoPost
    /\ page' = [k \in Pages |-> IF page[k].pc \in {"check", "stamp", "issue"}
                                THEN [page[k] EXCEPT !.pc = "closed"] ELSE page[k]]
    /\ UNCHANGED <<now, approvals, history, posts>>

Next ==
    \/ \E k \in Pages :
          \/ \E p \in Plans : ViewPlan(k, p)
          \/ PageStep(k)
          \/ \E decision \in Decisions : Submit(k, decision)
    \/ PostStep
    \/ \E p \in Plans, decision \in Decisions : DecideElsewhere(p, decision)
    \/ Tick
    \/ Restart

Spec == Init /\ [][Next]_vars

----------------------------------------------------------------------------
(* Properties                                                              *)

(* The store never holds more tokens than its limit, nor two for a page,   *)
(* although threads that render pages issue concurrently and each has read *)
(* the clock before it took the lock.                                      *)
TokensBounded ==
    /\ Cardinality(tokens) <= MaxTokens
    /\ \A x, y \in tokens : x.page = y.page => x = y

(* A form decides at most once: sent twice, replayed after a restart or    *)
(* after a failed record, its token is accepted one time only.             *)
FormsAreUsedOnce == \A k \in Pages : uses[k] <= 1

(* A decision made in the Portal comes from a form of that very plan whose *)
(* token was accepted, and is dated before the plan's expiry, and not      *)
(* before the page it was made on.                                         *)
DecisionsAreAuthorised ==
    \A p \in Plans : approvals[p] # None /\ approvals[p].by # None =>
        LET k == approvals[p].by IN
        /\ page[k].plan = p /\ uses[k] = 1
        /\ page[k].at <= approvals[p].at /\ approvals[p].at < ExpiresAt[p]

(* A reviewer who is told that the decision is recorded made the decision  *)
(* that counts: another process that decided meanwhile cannot be behind it.*)
RecordedIsMine ==
    \A k \in Pages : "recorded" \in answers[k] =>
        approvals[page[k].plan] # None /\ approvals[page[k].plan].by = k

(* A token is accepted only within its lifetime, counted from the clock    *)
(* that the page read to the clock that the form read.                     *)
AcceptedInTime ==
    post.pc = "clock" => page[post.page].at <= post.at /\ post.at < page[post.page].at + Ttl

=============================================================================
