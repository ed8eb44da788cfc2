------------------------ MODULE DecisionPortal_proofs ------------------------
(***************************************************************************)
(* Proofs about DecisionPortal, for any number of plans, pages, tokens,    *)
(* forms and restarts: type correctness, the bound on the token store, and *)
(* that a decision of the Portal is authorised by a token that was used    *)
(* once and in time.                                                       *)
(***************************************************************************)
EXTENDS DecisionPortal, FiniteSetTheorems, TLAPS

----------------------------------------------------------------------------
(* The token store                                                         *)

LEMMA UnexpiredFacts ==
    ASSUME NEW ts, NEW t, IsFiniteSet(ts), Cardinality(ts) <= MaxTokens
    PROVE  /\ Unexpired(ts, t) \subseteq ts
           /\ IsFiniteSet(Unexpired(ts, t)) /\ Cardinality(Unexpired(ts, t)) <= MaxTokens
<1>1. Unexpired(ts, t) \subseteq ts
  BY DEF Unexpired
<1>2. IsFiniteSet(Unexpired(ts, t)) /\ Cardinality(Unexpired(ts, t)) <= Cardinality(ts)
  BY <1>1, FS_Subset
<1>3. Cardinality(Unexpired(ts, t)) \in Nat /\ Cardinality(ts) \in Nat
  BY <1>2, FS_CardinalityType
<1> QED BY <1>1, <1>2, <1>3, LimitsAssumption

LEMMA IssuedFacts ==
    ASSUME NEW ts, NEW t, NEW k, NEW b, IsFiniteSet(ts), Cardinality(ts) <= MaxTokens,
           HasRoom(ts, t)
    PROVE  IsFiniteSet(Issued(ts, t, k, b)) /\ Cardinality(Issued(ts, t, k, b)) <= MaxTokens
<1> DEFINE u == Unexpired(ts, t)
<1> DEFINE x == [page |-> k, for |-> b, expires |-> t + Ttl]
<1>1. IsFiniteSet(u) /\ Cardinality(u) \in Nat /\ Cardinality(u) < MaxTokens
  BY UnexpiredFacts, FS_CardinalityType DEF HasRoom
<1> HIDE DEF u, x
<1>2. IsFiniteSet(u \cup {x}) /\ (Cardinality(u \cup {x}) = Cardinality(u) \/
                                    Cardinality(u \cup {x}) = Cardinality(u) + 1)
  BY <1>1, FS_AddElement
<1>3. Issued(ts, t, k, b) = u \cup {x}
  BY DEF Issued, u, x
<1> QED BY <1>1, <1>2, <1>3, LimitsAssumption

LEMMA ConsumedFacts ==
    ASSUME NEW ts, NEW t, NEW k, IsFiniteSet(ts), Cardinality(ts) <= MaxTokens
    PROVE  /\ Consumed(ts, t, k) \subseteq ts
           /\ IsFiniteSet(Consumed(ts, t, k)) /\ Cardinality(Consumed(ts, t, k)) <= MaxTokens
<1>1. Consumed(ts, t, k) \subseteq ts
  BY DEF Consumed, Unexpired
<1>2. IsFiniteSet(Consumed(ts, t, k)) /\ Cardinality(Consumed(ts, t, k)) <= Cardinality(ts)
  BY <1>1, FS_Subset
<1>3. Cardinality(Consumed(ts, t, k)) \in Nat /\ Cardinality(ts) \in Nat
  BY <1>2, FS_CardinalityType
<1> QED BY <1>1, <1>2, <1>3, LimitsAssumption

----------------------------------------------------------------------------
(* The inductive invariant                                                 *)

TimesTyped == now \in Times /\ posts \in 0..MaxPosts /\ restarts \in 0..MaxRestarts

ApprovalsTyped == approvals \in [Plans -> Approvals \cup {None}]

\* A page that was not issued a form has none to be used or answered.
PagesOK ==
    /\ page \in [Pages -> PageStates]
    /\ \A k \in Pages :
          /\ page[k].at <= now
          /\ page[k].pc # "none" => page[k].plan \in Plans
          /\ page[k].pc # "open" => uses[k] = 0 /\ answers[k] = {}

UsesOK ==
    /\ uses \in [Pages -> 0..1]
    /\ answers \in [Pages -> SUBSET {"recorded", "rejected", "unavailable"}]
    /\ posts = 0 => \A k \in Pages : uses[k] = 0

\* A token is its page's, and was not used.
TokensOK ==
    /\ tokens \in SUBSET Tokens(Pages, Plans, 0..(MaxTime + Ttl))
    /\ IsFiniteSet(tokens) /\ Cardinality(tokens) <= MaxTokens
    /\ \A x \in tokens :
          /\ page[x.page].pc = "open" /\ uses[x.page] = 0
          /\ x.for = page[x.page].plan /\ x.expires = page[x.page].at + Ttl

\* What the event loop has established about the form it handles.
PostOK ==
    /\ post \in PostStates
    /\ post.pc # "idle" =>
          /\ post.page \in Pages /\ post.decision \in Decisions /\ posts # 0
          /\ page[post.page].pc = "open"
    /\ post.pc \in {"consume", "clock", "record"} =>
          page[post.page].at <= post.at /\ post.at <= now
    /\ post.pc \in {"clock", "record"} => uses[post.page] = 1

IInv ==
    /\ TimesTyped /\ ApprovalsTyped /\ PagesOK /\ UsesOK /\ TokensOK /\ PostOK
    /\ AcceptedInTime /\ DecisionsAreAuthorised /\ RecordedIsMine

LEMMA InitIInv == Init => IInv
<1> SUFFICES ASSUME Init PROVE IInv
    OBVIOUS
<1>1. TimesTyped /\ ApprovalsTyped
  BY BoundsAssumption DEF Init, TimesTyped, ApprovalsTyped, Times
<1>2. PagesOK /\ UsesOK
  BY BoundsAssumption DEF Init, PagesOK, UsesOK, PageStates, PagePcs, Times
<1>3. TokensOK
  BY FS_EmptySet, LimitsAssumption DEF Init, TokensOK
<1>4. PostOK /\ AcceptedInTime
  BY BoundsAssumption
  DEF Init, PostOK, AcceptedInTime, NoPost, PostStates, PostPcs, Times
<1>5. DecisionsAreAuthorised /\ RecordedIsMine
  BY DEF Init, DecisionsAreAuthorised, RecordedIsMine
<1> QED BY <1>1, <1>2, <1>3, <1>4, <1>5 DEF IInv

----------------------------------------------------------------------------
(* Steps                                                                   *)

\* A step of a page that carries no form yet, before it may get one.
LEMMA PageChanges ==
    ASSUME IInv, NEW k \in Pages, NEW s \in PageStates, page[k].pc # "open",
           s.at <= now, s.pc # "none" => s.plan \in Plans, Becomes(k, s),
           UNCHANGED <<now, approvals, post, history, bounds>>
    PROVE  /\ TimesTyped' /\ ApprovalsTyped' /\ PagesOK' /\ UsesOK' /\ PostOK'
           /\ AcceptedInTime' /\ DecisionsAreAuthorised' /\ RecordedIsMine'
           /\ \A q \in Pages : page[q].pc = "open" => page'[q] = page[q]
           /\ page'[k] = s
<1>0. /\ page \in [Pages -> PageStates] /\ page' = [page EXCEPT ![k] = s]
      /\ UNCHANGED <<now, approvals, post, answers, uses, posts, restarts>>
  BY DEF IInv, PagesOK, Becomes, history, bounds
<1>1. page' \in [Pages -> PageStates] /\ page'[k] = s /\ \A q \in Pages \ {k} : page'[q] = page[q]
  BY <1>0
<1>2. \A q \in Pages : page[q].pc = "open" => page'[q] = page[q]
  BY <1>1
<1>3. TimesTyped' /\ ApprovalsTyped' /\ UsesOK'
  BY <1>0 DEF IInv, TimesTyped, ApprovalsTyped, UsesOK
<1>4. PagesOK'
  BY <1>0, <1>1 DEF IInv, PagesOK
<1>5. PostOK' /\ AcceptedInTime'
  BY <1>0, <1>2 DEF IInv, PostOK, AcceptedInTime
<1>6. DecisionsAreAuthorised'
  <2> SUFFICES ASSUME NEW p \in Plans, approvals[p] # None, approvals[p].by # None
               PROVE  LET q == approvals[p].by IN
                      /\ page'[q].plan = p /\ uses[q] = 1
                      /\ page'[q].at <= approvals[p].at /\ approvals[p].at < ExpiresAt[p]
    BY <1>0 DEF DecisionsAreAuthorised
  <2>1. approvals[p].by \in Pages
    BY DEF IInv, ApprovalsTyped, Approvals
  <2>2. page[approvals[p].by].pc = "open"
    BY <2>1 DEF IInv, DecisionsAreAuthorised, PagesOK
  <2> QED BY <1>2, <2>1, <2>2 DEF IInv, DecisionsAreAuthorised
<1>7. RecordedIsMine'
  BY <1>0, <1>2 DEF IInv, PagesOK, RecordedIsMine
<1> QED BY <1>1, <1>2, <1>3, <1>4, <1>5, <1>6, <1>7

\* The token store only loses tokens.
LEMMA TokensShrink ==
    ASSUME IInv, tokens' \subseteq tokens, IsFiniteSet(tokens'), Cardinality(tokens') <= MaxTokens,
           \A q \in Pages : page[q].pc = "open" => page'[q] = page[q],
           \A x \in tokens' : uses'[x.page] = uses[x.page]
    PROVE  TokensOK'
<1>1. \A x \in tokens : x.page \in Pages
  BY DEF IInv, TokensOK, Tokens
<1> QED BY <1>1 DEF IInv, TokensOK

LEMMA TokensStay ==
    ASSUME IInv, UNCHANGED <<tokens, uses>>,
           \A q \in Pages : page[q].pc = "open" => page'[q] = page[q]
    PROVE  TokensOK'
BY TokensShrink DEF IInv, TokensOK

LEMMA PageSteps ==
    ASSUME IInv, NEW k \in Pages,
           (\E p \in Plans : ViewPlan(k, p)) \/ CheckExpiry(k) \/ ReadIssueClock(k)
    PROVE  IInv'
<1>0. page[k] \in PageStates /\ now \in Times /\ 0 \in Times /\ 0 <= now
  BY BoundsAssumption DEF IInv, PagesOK, TimesTyped, Times
<1>1. ASSUME NEW s \in PageStates, page[k].pc # "open", s.at <= now,
             s.pc # "none" => s.plan \in Plans, Becomes(k, s),
             UNCHANGED <<now, approvals, tokens, post, history, bounds>>
      PROVE  IInv'
  <2>1. TokensOK'
    BY <1>1, PageChanges, TokensStay DEF history
  <2> QED BY <1>1, <2>1, PageChanges DEF IInv
<1>2. ASSUME NEW p \in Plans, ViewPlan(k, p) PROVE IInv'
  <2>1. PICK pc \in {IF approvals[p] = None THEN "check" ELSE "closed", "closed"} :
            Becomes(k, [pc |-> pc, plan |-> p, at |-> 0])
    BY <1>2 DEF ViewPlan
  <2> DEFINE s == [pc |-> pc, plan |-> p, at |-> 0]
  <2>2. s \in PageStates /\ s.at = 0 /\ s.plan = p
    BY <1>0 DEF PageStates, PagePcs
  <2>3. /\ Becomes(k, s) /\ page[k].pc = "none"
        /\ UNCHANGED <<now, approvals, tokens, post, history, bounds>>
    BY <1>2, <2>1 DEF ViewPlan
  <2> HIDE DEF s
  <2> QED BY <1>0, <1>1, <2>2, <2>3
<1>3. CASE CheckExpiry(k)
  <2> DEFINE s == [page[k] EXCEPT !.pc = IF now < ExpiresAt[page[k].plan] THEN "stamp" ELSE "closed"]
  <2>1. s \in PageStates /\ s.at = page[k].at /\ s.plan = page[k].plan
    BY <1>0 DEF PageStates, PagePcs
  <2>2. /\ Becomes(k, s) /\ page[k].pc = "check"
        /\ UNCHANGED <<now, approvals, tokens, post, history, bounds>>
    BY <1>3 DEF CheckExpiry, Goto
  <2>3. page[k].at <= now /\ page[k].plan \in Plans
    BY <2>2 DEF IInv, PagesOK
  <2> HIDE DEF s
  <2> QED BY <1>1, <2>1, <2>2, <2>3
<1>4. CASE ReadIssueClock(k)
  <2> DEFINE s == [page[k] EXCEPT !.pc = "issue", !.at = now]
  <2>1. s \in PageStates /\ s.at = now /\ s.plan = page[k].plan
    BY <1>0 DEF PageStates, PagePcs
  <2>2. /\ Becomes(k, s) /\ page[k].pc = "stamp"
        /\ UNCHANGED <<now, approvals, tokens, post, history, bounds>>
    BY <1>4 DEF ReadIssueClock
  <2>3. now <= now /\ page[k].plan \in Plans
    BY <1>0, <2>2 DEF IInv, PagesOK, Times
  <2> HIDE DEF s
  <2> QED BY <1>1, <2>1, <2>2, <2>3
<1> QED BY <1>2, <1>3, <1>4

LEMMA IssueKeeps == ASSUME IInv, NEW k \in Pages, Issue(k) PROVE IInv'
<1> DEFINE t == page[k].at
<1>0. /\ page[k] \in PageStates /\ t \in Times /\ t <= now /\ page[k].plan \in Plans
      /\ page[k].pc = "issue" /\ uses[k] = 0 /\ IsFiniteSet(tokens) /\ Cardinality(tokens) <= MaxTokens
  BY DEF Issue, IInv, PagesOK, PageStates, TokensOK
<1>1. ASSUME NEW pc \in {"open", "closed"}, Goto(k, pc) 
      PROVE  /\ TimesTyped' /\ ApprovalsTyped' /\ PagesOK' /\ UsesOK' /\ PostOK'
             /\ AcceptedInTime' /\ DecisionsAreAuthorised' /\ RecordedIsMine'
             /\ \A q \in Pages : page[q].pc = "open" => page'[q] = page[q]
             /\ page'[k] = [page[k] EXCEPT !.pc = pc]
  <2> DEFINE s == [page[k] EXCEPT !.pc = pc]
  <2>1. s \in PageStates /\ s.at = t /\ s.plan = page[k].plan
    BY <1>0 DEF PageStates, PagePcs
  <2>2. Becomes(k, s) /\ UNCHANGED <<now, approvals, post, history, bounds>>
    BY <1>1 DEF Issue, Goto
  <2> HIDE DEF s
  <2>3. /\ TimesTyped' /\ ApprovalsTyped' /\ PagesOK' /\ UsesOK' /\ PostOK'
        /\ AcceptedInTime' /\ DecisionsAreAuthorised' /\ RecordedIsMine'
        /\ \A q \in Pages : page[q].pc = "open" => page'[q] = page[q]
        /\ page'[k] = s
    BY <1>0, <2>1, <2>2, PageChanges
  <2> QED BY <2>3 DEF s
<1>2. CASE HasRoom(tokens, t)
  <2> DEFINE x == [page |-> k, for |-> page[k].plan, expires |-> t + Ttl]
  <2>1. Goto(k, "open") /\ tokens' = Issued(tokens, t, k, page[k].plan) /\ UNCHANGED uses
    BY <1>2 DEF Issue, history
  <2>2. /\ page'[k] = [page[k] EXCEPT !.pc = "open"]
        /\ \A q \in Pages : page[q].pc = "open" => page'[q] = page[q]
    BY <1>1, <2>1
  <2>3. tokens' = Unexpired(tokens, t) \cup {x}
    BY <2>1 DEF Issued
  <2>4. IsFiniteSet(tokens') /\ Cardinality(tokens') <= MaxTokens
    BY <1>0, <1>2, <2>1, IssuedFacts
  <2>5. ASSUME NEW y \in Unexpired(tokens, t)
        PROVE  /\ y \in Tokens(Pages, Plans, 0..(MaxTime + Ttl))
               /\ page'[y.page].pc = "open" /\ uses'[y.page] = 0
               /\ y.for = page'[y.page].plan /\ y.expires = page'[y.page].at + Ttl
    <3>1. y \in tokens /\ y.page \in Pages
      BY <1>0, UnexpiredFacts DEF IInv, TokensOK, Tokens
    <3> QED BY <2>1, <2>2, <3>1 DEF IInv, TokensOK
  <2>6. t + Ttl \in 0..(MaxTime + Ttl)
    BY <1>0, LimitsAssumption, BoundsAssumption DEF Times
  <2>7. /\ x \in Tokens(Pages, Plans, 0..(MaxTime + Ttl))
        /\ page'[x.page].pc = "open" /\ uses'[x.page] = 0
        /\ x.for = page'[x.page].plan /\ x.expires = page'[x.page].at + Ttl
    BY <1>0, <2>1, <2>2, <2>6 DEF Tokens, PageStates
  <2> HIDE DEF x
  <2>8. TokensOK'
    BY <2>3, <2>4, <2>5, <2>7 DEF TokensOK
  <2> QED BY <1>1, <2>1, <2>8 DEF IInv
<1>3. CASE ~HasRoom(tokens, t)
  <2>1. Goto(k, "closed") /\ tokens' = Unexpired(tokens, t) /\ UNCHANGED uses
    BY <1>3 DEF Issue, history
  <2>2. TokensOK'
    BY <1>0, <1>1, <2>1, UnexpiredFacts, TokensShrink
  <2> QED BY <1>1, <2>1, <2>2 DEF IInv
<1> QED BY <1>2, <1>3

\* A step of the event loop that records nothing and uses no token.
LEMMA PostChanges ==
    ASSUME IInv, UNCHANGED <<now, approvals, page, uses, restarts>>,
           posts' \in 0..MaxPosts, posts = 0 \/ posts' # 0,
           tokens' \subseteq tokens, IsFiniteSet(tokens'), Cardinality(tokens') <= MaxTokens,
           PostOK', AcceptedInTime',
           \/ UNCHANGED answers
           \/ \E a \in {"rejected", "unavailable"} :
                 post.page \in Pages /\ page[post.page].pc = "open" /\ Answer(a)
    PROVE  IInv'
<1>1. /\ answers' \in [Pages -> SUBSET {"recorded", "rejected", "unavailable"}]
      /\ \A k \in Pages : /\ page[k].pc # "open" => answers'[k] = answers[k]
                          /\ "recorded" \in answers'[k] => "recorded" \in answers[k]
  <2>1. answers \in [Pages -> SUBSET {"recorded", "rejected", "unavailable"}]
    BY DEF IInv, UsesOK
  <2>2. ASSUME NEW a \in {"rejected", "unavailable"}, post.page \in Pages,
               page[post.page].pc = "open", Answer(a)
        PROVE  <1>1!1 /\ <1>1!2
    BY <2>1, <2>2 DEF Answer
  <2> QED BY <2>1, <2>2
<1>2. TimesTyped' /\ ApprovalsTyped' /\ DecisionsAreAuthorised'
  BY DEF IInv, TimesTyped, ApprovalsTyped, DecisionsAreAuthorised
<1>3. PagesOK' /\ UsesOK' /\ RecordedIsMine'
  BY <1>1 DEF IInv, PagesOK, UsesOK, RecordedIsMine
<1>4. TokensOK'
  BY TokensShrink
<1> QED BY <1>2, <1>3, <1>4 DEF IInv

LEMMA PostSteps ==
    ASSUME IInv,
           \/ \E k \in Pages, decision \in Decisions : Submit(k, decision)
           \/ ReadConsumeClock \/ PlanUnreadable \/ RefuseToken \/ ReadDecisionClock
           \/ DecisionFails
    PROVE  IInv'
<1>0. /\ post \in PostStates /\ now \in Times /\ posts \in 0..MaxPosts /\ 0 \in Times
      /\ IsFiniteSet(tokens) /\ Cardinality(tokens) <= MaxTokens
      /\ \A k \in Pages : page[k].at \in Times /\ page[k].at <= now
  BY BoundsAssumption DEF IInv, PostOK, TimesTyped, TokensOK, Times, PagesOK, PageStates
<1>1. ASSUME post' = NoPost PROVE PostOK' /\ AcceptedInTime'
  BY <1>0, <1>1 DEF NoPost, PostOK, AcceptedInTime, PostStates, PostPcs
<1>2. ASSUME NEW k \in Pages, NEW decision \in Decisions, Submit(k, decision) PROVE IInv'
  <2>1. post' = [pc |-> "stamp", page |-> k, decision |-> decision, at |-> 0]
    BY <1>2 DEF Submit
  <2>2. posts' \in 0..MaxPosts /\ posts' # 0
    BY <1>0, <1>2, BoundsAssumption DEF Submit
  <2>3. PostOK' /\ AcceptedInTime'
    BY <1>0, <1>2, <2>1, <2>2 DEF Submit, PostOK, AcceptedInTime, PostStates, PostPcs
  <2> QED BY <1>0, <1>2, <2>2, <2>3, PostChanges DEF Submit, history
<1>3. ASSUME NEW pc \in {"consume", "record"}, post.pc \in {"stamp", "clock"},
             pc = "record" => post.pc = "clock",
             post' = [post EXCEPT !.pc = pc, !.at = now],
             UNCHANGED <<now, approvals, tokens, page, history, bounds>>
      PROVE  IInv'
  <2>1. /\ post'.pc = pc /\ post'.at = now /\ post'.page = post.page
        /\ post'.decision = post.decision /\ post' \in PostStates
    BY <1>0, <1>3 DEF PostStates, PostPcs
  <2>2. /\ post.page \in Pages /\ post.decision \in Decisions /\ posts # 0
        /\ page[post.page].pc = "open" /\ (pc = "record" => uses[post.page] = 1)
    BY <1>3 DEF IInv, PostOK
  <2>3. page[post.page].at <= now /\ now <= now
    BY <1>0, <2>2 DEF Times
  <2>4. PostOK' /\ AcceptedInTime'
    BY <1>3, <2>1, <2>2, <2>3 DEF PostOK, AcceptedInTime, history, bounds
  <2> QED BY <1>0, <1>3, <2>4, PostChanges DEF history, bounds
<1>4. CASE ReadConsumeClock
  BY <1>3, <1>4 DEF ReadConsumeClock
<1>5. CASE ReadDecisionClock
  BY <1>3, <1>5 DEF ReadDecisionClock
<1>6. ASSUME NEW a \in {"rejected", "unavailable"}, post.pc # "idle", Answer(a),
             UNCHANGED <<now, approvals, page, uses, bounds>>,
             tokens' = tokens \/ tokens' = Unexpired(tokens, post.at)
      PROVE  IInv'
  <2>1. post.page \in Pages /\ page[post.page].pc = "open"
    BY <1>6 DEF IInv, PostOK
  <2>2. tokens' \subseteq tokens /\ IsFiniteSet(tokens') /\ Cardinality(tokens') <= MaxTokens
    BY <1>0, <1>6, UnexpiredFacts
  <2>3. PostOK' /\ AcceptedInTime'
    BY <1>1, <1>6 DEF Answer
  <2> QED BY <1>0, <1>6, <2>1, <2>2, <2>3, PostChanges DEF bounds
<1>7. CASE PlanUnreadable \/ RefuseToken \/ DecisionFails
  BY <1>6, <1>7 DEF PlanUnreadable, RefuseToken, DecisionFails
<1> QED BY <1>2, <1>4, <1>5, <1>7

LEMMA ConsumeKeeps == ASSUME IInv, ConsumeToken PROVE IInv'
<1> DEFINE k == post.page
<1>0. /\ post \in PostStates /\ post.pc = "consume" /\ k \in Pages /\ page[k].pc = "open"
      /\ post.decision \in Decisions /\ posts # 0 /\ page[k].at <= post.at /\ post.at <= now
      /\ IsFiniteSet(tokens) /\ Cardinality(tokens) <= MaxTokens /\ uses \in [Pages -> 0..1]
  BY DEF ConsumeToken, IInv, PostOK, TokensOK, UsesOK
<1>1. PICK x \in tokens : x.page = k /\ post.at < x.expires
  BY DEF ConsumeToken, Accepts, Unexpired
<1>2. uses[k] = 0 /\ post.at < page[k].at + Ttl
  BY <1>1 DEF IInv, TokensOK
<1>3. uses' \in [Pages -> 0..1] /\ uses'[k] = 1 /\ \A q \in Pages \ {k} : uses'[q] = uses[q]
  BY <1>0, <1>2 DEF ConsumeToken
<1>4. /\ post'.pc = "clock" /\ post'.page = k /\ post'.at = post.at
      /\ post'.decision = post.decision /\ post' \in PostStates
  BY <1>0 DEF ConsumeToken, PostStates, PostPcs
<1>5. UNCHANGED <<now, approvals, page, answers, posts, restarts>>
  BY DEF ConsumeToken, bounds
<1>6. TimesTyped' /\ ApprovalsTyped'
  BY <1>5 DEF IInv, TimesTyped, ApprovalsTyped
<1>7. PagesOK' /\ UsesOK'
  BY <1>0, <1>3, <1>5 DEF IInv, PagesOK, UsesOK
<1>8. PostOK' /\ AcceptedInTime'
  BY <1>0, <1>2, <1>3, <1>4, <1>5 DEF PostOK, AcceptedInTime
<1>9. TokensOK'
  <2>1. tokens' = Consumed(tokens, post.at, k)
    BY DEF ConsumeToken
  <2>2. tokens' \subseteq tokens /\ IsFiniteSet(tokens') /\ Cardinality(tokens') <= MaxTokens
    BY <1>0, <2>1, ConsumedFacts
  <2>3. \A y \in tokens' : y.page # k /\ y.page \in Pages
    BY <2>1, <2>2 DEF Consumed, IInv, TokensOK, Tokens
  <2> QED BY <1>3, <1>5, <2>2, <2>3, TokensShrink
<1>10. DecisionsAreAuthorised' /\ RecordedIsMine'
  <2>1. \A p \in Plans : approvals[p] # None /\ approvals[p].by # None => approvals[p].by \in Pages
    BY DEF IInv, ApprovalsTyped, Approvals
  <2> QED BY <1>2, <1>3, <1>5, <2>1 DEF IInv, DecisionsAreAuthorised, RecordedIsMine
<1> QED BY <1>6, <1>7, <1>8, <1>9, <1>10 DEF IInv

LEMMA RecordKeeps == ASSUME IInv, RecordDecision PROVE IInv'
<1> DEFINE k == post.page
<1> DEFINE p == page[k].plan
<1> DEFINE d == Decided
<1>0. /\ post \in PostStates /\ post.pc = "record" /\ k \in Pages /\ page[k].pc = "open"
      /\ post.decision \in Decisions /\ page[k].at <= post.at /\ uses[k] = 1 /\ p \in Plans
      /\ post.at < ExpiresAt[p] /\ approvals[p] = None
  BY DEF RecordDecision, DecidedPlan, IInv, PostOK, PagesOK
<1>1. d \in Approvals /\ d.by = k /\ d.at = post.at
  BY <1>0 DEF Decided, Approvals, PostStates
<1>2. UNCHANGED <<now, tokens, page, uses, posts, restarts>> /\ post' = NoPost
  BY DEF RecordDecision, Answer, bounds
<1>3. approvals' = [approvals EXCEPT ![p] = d] /\ approvals \in [Plans -> Approvals \cup {None}]
  BY DEF RecordDecision, DecidedPlan, IInv, ApprovalsTyped
<1> HIDE DEF d
<1>4. /\ approvals' \in [Plans -> Approvals \cup {None}] /\ approvals'[p] = d
      /\ \A q \in Plans \ {p} : approvals'[q] = approvals[q]
  BY <1>0, <1>1, <1>3
<1>5. d # None
  <2>1. Approvals \subseteq [decision : {"approved", "rejected"}, by : Pages \cup {None},
                             at : Nat]
    BY BoundsAssumption DEF Approvals, Decisions, Times
  <2> QED BY <1>1, <2>1, NoneIsNoApproval
<1>6. PICK a \in {"recorded", "unavailable"} : Answer(a)
  BY DEF RecordDecision
<1>7. /\ answers' \in [Pages -> SUBSET {"recorded", "rejected", "unavailable"}]
      /\ \A q \in Pages \ {k} : answers'[q] = answers[q]
  BY <1>0, <1>6 DEF Answer, IInv, UsesOK
<1>8. TimesTyped' /\ ApprovalsTyped'
  BY <1>2, <1>4 DEF IInv, TimesTyped, ApprovalsTyped
<1>9. PagesOK' /\ UsesOK'
  BY <1>0, <1>2, <1>7 DEF IInv, PagesOK, UsesOK
<1>10. TokensOK'
  BY <1>2, TokensStay
<1>11. PostOK' /\ AcceptedInTime'
  BY <1>2, BoundsAssumption DEF PostOK, AcceptedInTime, NoPost, PostStates, PostPcs, Times
<1>12. DecisionsAreAuthorised'
  BY <1>0, <1>1, <1>2, <1>4 DEF IInv, DecisionsAreAuthorised
<1>13. RecordedIsMine'
  <2> SUFFICES ASSUME NEW q \in Pages, "recorded" \in answers'[q]
               PROVE  approvals'[page[q].plan] # None /\ approvals'[page[q].plan].by = q
    BY <1>2 DEF RecordedIsMine
  <2>1. CASE q = k
    BY <1>1, <1>4, <1>5, <2>1
  <2>2. CASE q # k
    <3>1. "recorded" \in answers[q] /\ approvals[page[q].plan] # None
          /\ approvals[page[q].plan].by = q
      BY <1>7, <2>2 DEF IInv, RecordedIsMine
    <3>2. page[q].plan \in Plans
      <4>1. page[q].pc = "open"
        BY <3>1 DEF IInv, PagesOK
      <4> QED BY <4>1 DEF IInv, PagesOK
    <3> QED BY <1>0, <1>4, <3>1, <3>2
  <2> QED BY <2>1, <2>2
<1> QED BY <1>8, <1>9, <1>10, <1>11, <1>12, <1>13 DEF IInv

LEMMA EnvironmentKeeps ==
    ASSUME IInv,
           \/ \E p \in Plans, decision \in Decisions : DecideElsewhere(p, decision)
           \/ Tick \/ Restart \/ UNCHANGED vars
    PROVE  IInv'
<1>1. ASSUME NEW p \in Plans, NEW decision \in Decisions, DecideElsewhere(p, decision) PROVE IInv'
  <2>1. PICK t \in 0..now :
            approvals' = [approvals EXCEPT ![p] = [decision |-> decision, by |-> None, at |-> t]]
    BY <1>1 DEF DecideElsewhere
  <2> DEFINE d == [decision |-> decision, by |-> None, at |-> t]
  <2>2. d \in Approvals /\ d.by = None
    BY BoundsAssumption DEF Approvals, Times, IInv, TimesTyped
  <2>3. /\ UNCHANGED <<now, tokens, page, post, answers, uses, posts, restarts>>
        /\ approvals[p] = None /\ approvals' = [approvals EXCEPT ![p] = d]
        /\ approvals \in [Plans -> Approvals \cup {None}]
    BY <1>1, <2>1 DEF DecideElsewhere, history, bounds, IInv, ApprovalsTyped
  <2> HIDE DEF d
  <2>4. /\ approvals' \in [Plans -> Approvals \cup {None}] /\ approvals'[p] = d
        /\ \A q \in Plans \ {p} : approvals'[q] = approvals[q]
    BY <2>2, <2>3
  <2>5. TimesTyped' /\ ApprovalsTyped' /\ PagesOK' /\ UsesOK' /\ PostOK' /\ AcceptedInTime'
    BY <2>3, <2>4
    DEF IInv, TimesTyped, ApprovalsTyped, PagesOK, UsesOK, PostOK, AcceptedInTime
  <2>6. TokensOK'
    BY <2>3, TokensStay
  <2>7. DecisionsAreAuthorised'
    BY <2>2, <2>3, <2>4 DEF IInv, DecisionsAreAuthorised
  <2>8. RecordedIsMine'
    <3> SUFFICES ASSUME NEW q \in Pages, "recorded" \in answers[q]
                 PROVE  approvals'[page[q].plan] # None /\ approvals'[page[q].plan].by = q
      BY <2>3 DEF RecordedIsMine
    <3>1. /\ approvals[page[q].plan] # None /\ approvals[page[q].plan].by = q
          /\ page[q].pc = "open"
      BY DEF IInv, RecordedIsMine, PagesOK
    <3>2. page[q].plan \in Plans
      BY <3>1 DEF IInv, PagesOK
    <3> QED BY <2>3, <2>4, <3>1, <3>2
  <2> QED BY <2>5, <2>6, <2>7, <2>8 DEF IInv
<1>2. CASE Tick
  <2>1. /\ now' \in Times /\ now \in Times /\ now' = now + 1
        /\ UNCHANGED <<approvals, tokens, page, post, answers, uses, posts, restarts>>
    BY <1>2, BoundsAssumption DEF Tick, IInv, TimesTyped, Times, history, bounds
  <2>2. TimesTyped' /\ ApprovalsTyped' /\ UsesOK' /\ AcceptedInTime'
    BY <2>1 DEF IInv, TimesTyped, ApprovalsTyped, UsesOK, AcceptedInTime
  <2>3. PagesOK'
    <3>1. \A k \in Pages : page[k].at \in Times /\ page[k].at <= now
      BY DEF IInv, PagesOK, PageStates
    <3>2. \A k \in Pages : page[k].at <= now'
      BY <2>1, <3>1 DEF Times
    <3> QED BY <2>1, <3>2 DEF IInv, PagesOK
  <2>4. PostOK'
    <3>1. post.at \in Times
      BY DEF IInv, PostOK, PostStates
    <3>2. post.at <= now => post.at <= now'
      BY <2>1, <3>1 DEF Times
    <3> QED BY <2>1, <3>2 DEF IInv, PostOK
  <2>5. TokensOK'
    BY <2>1, TokensStay
  <2>6. DecisionsAreAuthorised' /\ RecordedIsMine'
    BY <2>1 DEF IInv, DecisionsAreAuthorised, RecordedIsMine
  <2> QED BY <2>2, <2>3, <2>4, <2>5, <2>6 DEF IInv
<1>3. CASE Restart
  <2>1. /\ UNCHANGED <<now, approvals, answers, uses, posts>> /\ restarts' \in 0..MaxRestarts
        /\ tokens' = {} /\ post' = NoPost
    BY <1>3, BoundsAssumption DEF Restart, IInv, TimesTyped, history
  <2>2. ASSUME NEW k \in Pages
        PROVE  /\ page'[k] \in PageStates /\ page'[k].plan = page[k].plan /\ page'[k].at = page[k].at
               /\ page[k].pc = "open" => page'[k] = page[k]
               /\ page[k].pc = "none" => page'[k] = page[k]
               /\ page[k].pc # "open" => page'[k].pc # "open"
    <3>1. page[k] \in PageStates
      BY DEF IInv, PagesOK
    <3> QED BY <1>3, <3>1 DEF Restart, PageStates, PagePcs
  <2>3. page' \in [Pages -> PageStates]
    BY <1>3, <2>2 DEF Restart
  <2>4. TimesTyped' /\ ApprovalsTyped' /\ UsesOK'
    BY <2>1 DEF IInv, TimesTyped, ApprovalsTyped, UsesOK
  <2>5. PagesOK'
    <3>1. ASSUME NEW k \in Pages
          PROVE  /\ page'[k].at <= now
                 /\ page'[k].pc # "none" => page'[k].plan \in Plans
                 /\ page'[k].pc # "open" => uses[k] = 0 /\ answers[k] = {}
      BY <2>2 DEF IInv, PagesOK
    <3> QED BY <2>1, <2>3, <3>1 DEF PagesOK
  <2>6. TokensOK'
    BY <2>1, FS_EmptySet, LimitsAssumption DEF TokensOK
  <2>7. PostOK' /\ AcceptedInTime'
    BY <2>1, BoundsAssumption DEF PostOK, AcceptedInTime, NoPost, PostStates, PostPcs, Times
  <2>8. DecisionsAreAuthorised'
    <3>1. \A p \in Plans : approvals[p] # None /\ approvals[p].by # None => approvals[p].by \in Pages
      BY DEF IInv, ApprovalsTyped, Approvals
    <3> QED BY <2>1, <2>2, <3>1 DEF IInv, DecisionsAreAuthorised
  <2>9. RecordedIsMine'
    BY <2>1, <2>2 DEF IInv, RecordedIsMine
  <2> QED BY <2>4, <2>5, <2>6, <2>7, <2>8, <2>9 DEF IInv
<1>4. CASE UNCHANGED vars
  <2>1. UNCHANGED <<now, approvals, tokens, page, post, answers, uses, posts, restarts>>
    BY <1>4 DEF vars
  <2>2. TokensOK'
    BY <2>1, TokensStay
  <2> QED
    BY <2>1, <2>2
    DEF IInv, TimesTyped, ApprovalsTyped, PagesOK, UsesOK, PostOK, AcceptedInTime,
        DecisionsAreAuthorised, RecordedIsMine
<1> QED BY <1>1, <1>2, <1>3, <1>4

LEMMA NextIInv == ASSUME IInv, [Next]_vars PROVE IInv'
BY PageSteps, IssueKeeps, PostSteps, ConsumeKeeps, RecordKeeps, EnvironmentKeeps
DEF Next, PageStep, PostStep

LEMMA Invariance == Spec => []IInv
BY InitIInv, NextIInv, PTL DEF Spec

----------------------------------------------------------------------------

(* DecisionPortal is type correct.                                         *)
THEOREM TypeCorrect == Spec => []TypeOK
<1>1. IInv => TypeOK
  <2> SUFFICES ASSUME IInv PROVE TypeOK
      OBVIOUS
  <2>1. uses \in [Pages -> 0..MaxPosts]
    <3>1. uses \in [Pages -> 0..1] /\ posts \in 0..MaxPosts /\ MaxPosts \in Nat
      BY BoundsAssumption DEF IInv, UsesOK, TimesTyped
    <3>2. CASE posts = 0
      BY <3>1, <3>2 DEF IInv, UsesOK
    <3>3. CASE posts # 0
      BY <3>1, <3>3
    <3> QED BY <3>2, <3>3
  <2> QED
    BY <2>1 DEF IInv, TimesTyped, ApprovalsTyped, PagesOK, UsesOK, TokensOK, PostOK, TypeOK
<1> QED BY <1>1, Invariance, PTL

(* The token store never holds more than its limit, nor two tokens for a   *)
(* page, however many threads issue at once.                               *)
THEOREM StoreIsBounded == Spec => []TokensBounded
<1>1. IInv => TokensBounded
  <2> SUFFICES ASSUME IInv PROVE TokensBounded
      OBVIOUS
  <2>1. \A x \in tokens : x = [page |-> x.page, for |-> page[x.page].plan,
                               expires |-> page[x.page].at + Ttl]
    BY DEF IInv, TokensOK, Tokens
  <2> QED BY <2>1 DEF IInv, TokensOK, TokensBounded
<1> QED BY <1>1, Invariance, PTL

(* A form's token is accepted at most once.                                *)
THEOREM UsedOnce == Spec => []FormsAreUsedOnce
<1>1. IInv => FormsAreUsedOnce
  BY DEF IInv, UsesOK, FormsAreUsedOnce
<1> QED BY <1>1, Invariance, PTL

(* A decision of the Portal comes from a form of that plan, used once, and *)
(* is dated before the plan's expiry and after its page.                   *)
THEOREM Authorised == Spec => []DecisionsAreAuthorised
<1>1. IInv => DecisionsAreAuthorised
  BY DEF IInv
<1> QED BY <1>1, Invariance, PTL

(* Who is told that the decision is recorded made the decision that counts.*)
THEOREM RecordedByMe == Spec => []RecordedIsMine
<1>1. IInv => RecordedIsMine
  BY DEF IInv
<1> QED BY <1>1, Invariance, PTL

(* A token is accepted within its lifetime only.                           *)
THEOREM InTime == Spec => []AcceptedInTime
<1>1. IInv => AcceptedInTime
  BY DEF IInv
<1> QED BY <1>1, Invariance, PTL

=============================================================================
