----------------------- MODULE InventoryPortal_proofs -----------------------
(***************************************************************************)
(* Proofs about InventoryPortal, for any number of Portals, pages, refresh *)
(* attempts, forms, kills and power failures: types, that a success is     *)
(* kept, what pages show, and that a snapshot is refreshed once.           *)
(***************************************************************************)
EXTENDS InventoryPortal, Integers, TLAPS

----------------------------------------------------------------------------
(* The inductive invariant                                                 *)

Committed == {"consume", "discover"} \cup Saving

\* A file is renamed once, and it was synced before.
LinksOK ==
    /\ \A i, j \in 1..Len(links) : links[i] = links[j] => i = j
    /\ \A i \in 1..Len(links) : bytes[links[i]] = "synced" /\ links[i] <= attempts

\* x was snapshot.json at one of the first n renames.
Linked(x, n) == \E i \in 1..Len(links) : i <= n /\ links[i] = x

\* An attempt is its Portal's alone until it is renamed.
SavingOK(p) ==
    LET g == job[p].attempt IN
    /\ job[p].pc \in Saving => g \in 1..attempts /\ finder[g] = p /\ g > failed[p]
    /\ job[p].pc \in {"write", "replace"} => ~Linked(g, Len(links))
    /\ job[p].pc = "replace" => bytes[g] = "synced"
    /\ job[p].pc = "syncdir" => Linked(g, Len(links)) /\ (finder[Visible] = p => Visible = g)

\* A refresh that was asked for replaces the snapshot of the page; no other of
\* this Portal did.
FormOK(p) ==
    LET k == job[p].page  x == page[k].shown IN
    /\ job[p].pc \in {"down", "idle"} => k = None
    /\ job[p].pc \in {"stat", "open", "consume"} => k # None
    /\ k # None => page[k].pc = "shown"
    /\ k # None /\ x # None /\ job[p].pc \in Committed =>
          /\ Linked(x, IF job[p].pc = "syncdir" THEN Len(links) - 1 ELSE Len(links))
          /\ \A r \in succeeded : r.portal = p => r.from # x

\* A Portal that serves without a warning has succeeded since it failed.
PortalOK(p) ==
    /\ failed[p] <= attempts
    /\ Serving(p) /\ error[p] = "none" /\ Visible # None /\ finder[Visible] = p
          => Visible > failed[p]

\* What page k showed x was found after the last failure of its Portal.
Recent(k, x) == finder[x] = page[k].portal => x > page[k].after

PageOK(k) ==
    LET s == page[k] IN
    /\ s.pc \in {"open", "flag", "issue", "shown"} => s.portal \in Portals
    /\ s.seen # None => s.seen <= attempts
    /\ s.shown # None => s.shown <= attempts /\ s.pc \in {"flag", "issue", "shown"}
    /\ s.pc = "open" => s.seen # None /\ (k \notin raced => Visible = s.seen)
    /\ s.pc \in {"flag", "issue", "shown"} /\ s.seen # None /\ s.shown = None => k \in raced
    /\ k \notin raced =>
          /\ s.pc = "open" /\ error[s.portal] = "none" => Recent(k, s.seen)
          /\ s.pc = "flag" /\ s.shown # None /\ error[s.portal] = "none" => Recent(k, s.shown)
          /\ s.pc \in {"issue", "shown"} /\ s.shown # None /\ ~s.stale => Recent(k, s.shown)

SuccessOK ==
    /\ \A r \in succeeded : /\ Linked(r.attempt, durable)
                            /\ r.from # None => Linked(r.from, durable - 1)
    /\ OneRefreshPerSnapshot

IInv ==
    /\ TypeOK /\ LinksOK /\ SuccessOK
    /\ \A p \in Portals : SavingOK(p) /\ FormOK(p) /\ PortalOK(p)
    /\ \A k \in Pages : PageOK(k)

----------------------------------------------------------------------------
(* Renamed files                                                           *)

LEMMA NumbersAreSomething == \A n \in Nat : n # None
BY NoneAssumption

LEMMA VisibleFacts ==
    ASSUME TypeOK
    PROVE  /\ Len(links) \in Nat /\ durable \in 0..Len(links)
           /\ \A i \in 1..Len(links) : links[i] \in Attempts
           /\ Visible = None <=> Len(links) = 0
           /\ Visible # None => Len(links) \in 1..Len(links) /\ Visible = links[Len(links)]
                                /\ Visible \in Attempts
<1>1. links \in Seq(Attempts) /\ durable \in 0..Len(links)
  BY DEF TypeOK
<1>2. Len(links) \in Nat /\ \A i \in 1..Len(links) : links[i] \in Attempts
  BY <1>1
<1>3. links = <<>> <=> Len(links) = 0
  BY <1>1
<1>4. CASE links = <<>>
  BY <1>1, <1>2, <1>3, <1>4 DEF Visible
<1>5. CASE links # <<>>
  <2>1. Len(links) \in 1..Len(links) /\ Visible = links[Len(links)]
    BY <1>2, <1>3, <1>5 DEF Visible
  <2>2. Visible \in Attempts /\ Visible # None
    BY <1>2, <2>1, NumbersAreSomething DEF Attempts
  <2> QED BY <1>1, <1>2, <1>3, <1>5, <2>1, <2>2
<1> QED BY <1>4, <1>5

LEMMA AppendFacts ==
    ASSUME TypeOK, NEW a \in Attempts, links' = Append(links, a)
    PROVE  /\ links' \in Seq(Attempts) /\ Len(links') = Len(links) + 1
           /\ \A i \in 1..Len(links) : links'[i] = links[i]
           /\ links'[Len(links) + 1] = a /\ Visible' = a
<1>1. links \in Seq(Attempts)
  BY DEF TypeOK
<1>2. /\ links' \in Seq(Attempts) /\ Len(links') = Len(links) + 1
      /\ \A i \in 1..Len(links) : links'[i] = links[i]
      /\ links'[Len(links) + 1] = a
  BY <1>1
<1>3. links' # <<>>
  BY <1>1, <1>2
<1> QED BY <1>2, <1>3 DEF Visible

\* What was linked stays so when a file is renamed.
LEMMA LinkedStays ==
    ASSUME TypeOK, links' = links \/ \E a \in Attempts : links' = Append(links, a),
           NEW x, NEW n, Linked(x, n)
    PROVE  Linked(x, n)'
<1>1. PICK i \in 1..Len(links) : i <= n /\ links[i] = x
  BY DEF Linked
<1>2. CASE links' = links
  BY <1>1, <1>2 DEF Linked
<1>3. ASSUME NEW a \in Attempts, links' = Append(links, a) PROVE Linked(x, n)'
  <2>1. Len(links) \in Nat /\ i \in 1..Len(links') /\ links'[i] = x
    BY <1>1, <1>3, AppendFacts, VisibleFacts
  <2> QED BY <1>1, <2>1 DEF Linked
<1> QED BY <1>2, <1>3

LEMMA LinkedMonotone ==
    ASSUME TypeOK, NEW x, NEW m \in Int, NEW n \in Int, m <= n, Linked(x, m)
    PROVE  Linked(x, n)
<1>1. PICK i \in 1..Len(links) : i <= m /\ links[i] = x
  BY DEF Linked
<1>2. i \in Int /\ i <= n
  BY <1>1, VisibleFacts
<1> QED BY <1>1, <1>2 DEF Linked

\* What is linked further back is not snapshot.json.
LEMMA LinkedIsPast ==
    ASSUME TypeOK, LinksOK, NEW x, Linked(x, durable - 1)
    PROVE  Visible # x
<1>1. PICK i \in 1..Len(links) : i <= durable - 1 /\ links[i] = x
  BY DEF Linked
<1>2. /\ Len(links) \in Nat /\ i < Len(links) /\ Len(links) \in 1..Len(links)
      /\ Visible = links[Len(links)]
  BY <1>1, VisibleFacts
<1> QED BY <1>1, <1>2 DEF LinksOK

----------------------------------------------------------------------------
(* What the steps of others leave of a Portal and of a page                *)

\* Attempts that were made are what they were.
Past ==
    /\ attempts \in Nat /\ attempts' \in Nat /\ attempts <= attempts'
    /\ \A g \in 1..attempts : finder'[g] = finder[g]
    /\ \A g \in Attempts : bytes[g] = "synced" => bytes'[g] = "synced"

\* At most one file was renamed, and no file of p.
OthersRename(p) ==
    \/ links' = links
    \/ \E a \in Attempts : a <= attempts /\ finder[a] # p /\ links' = Append(links, a)

LEMMA PortalKept ==
    ASSUME IInv, NEW p \in Portals, Past, OthersRename(p),
           job'[p] = job[p], error'[p] = error[p], failed'[p] = failed[p],
           \A k \in Pages : page[k].pc = "shown" =>
               page'[k].pc = "shown" /\ page'[k].shown = page[k].shown,
           \A r \in succeeded' : r \in succeeded \/ r.portal # p
    PROVE  SavingOK(p)' /\ FormOK(p)' /\ PortalOK(p)'
<1>0. TypeOK /\ LinksOK /\ SavingOK(p) /\ FormOK(p) /\ PortalOK(p)
  BY DEF IInv
<1> DEFINE Other(b) == b \in Attempts /\ b <= attempts /\ finder[b] # p /\ links' = Append(links, b)
<1>a. PICK a : links' = links \/ Other(a)
  <2>1. links' = links \/ \E b : Other(b)
    BY DEF OthersRename
  <2> HIDE DEF Other
  <2> QED BY <2>1, Zenon
<1>1. Len(links) \in Nat /\ Len(links') \in Nat /\ Len(links) <= Len(links')
  <2>1. CASE links' = links
    BY <1>0, <2>1, VisibleFacts
  <2>2. CASE a \in Attempts /\ links' = Append(links, a)
    BY <1>0, <2>2, VisibleFacts, AppendFacts
  <2> QED BY <1>a, <2>1, <2>2
<1>2. \A x, n : Linked(x, n) => Linked(x, n)'
  BY <1>0, <1>a, LinkedStays
<1>3. /\ Visible # None => Visible \in 1..attempts
      /\ Visible' = Visible \/ (Visible' = a /\ finder'[a] # p)
  <2>1. Visible # None => Visible \in 1..attempts
    <3>1. Visible # None => Visible \in Attempts /\ Visible <= attempts
      BY <1>0, VisibleFacts DEF LinksOK
    <3> QED BY <3>1 DEF Attempts, Past
  <2>2. CASE links' = links
    <3>1. Visible' = Visible
      BY <2>2 DEF Visible
    <3> QED BY <2>1, <3>1
  <2>3. CASE links' # links
    <3>1. Visible' = a /\ finder[a] # p /\ a \in 1..attempts
      BY <1>0, <1>a, <2>3, AppendFacts DEF Attempts, Past
    <3> QED BY <2>1, <3>1 DEF Past
  <2> QED BY <2>2, <2>3, <2>1
<1>4. SavingOK(p)'
  <2> DEFINE g == job[p].attempt
  <2>1. job[p].pc \in Saving => g \in 1..attempts /\ finder[g] = p /\ g > failed[p] /\ g \in Attempts
    BY <1>0 DEF SavingOK, TypeOK, Jobs, Saving
  <2>2. job'[p].pc \in Saving => g \in 1..attempts' /\ finder'[g] = p /\ g > failed'[p]
    BY <2>1 DEF Past
  <2>3. ASSUME job[p].pc \in {"write", "replace"} PROVE ~Linked(g, Len(links))'
    <3>1. ~Linked(g, Len(links)) /\ finder[g] = p
      BY <1>0, <2>1, <2>3 DEF SavingOK, Saving
    <3>2. CASE links' = links
      BY <3>1, <3>2 DEF Linked
    <3>3. CASE a \in Attempts /\ links' = Append(links, a) /\ finder[a] # p
      <4>1. SUFFICES ASSUME NEW i \in 1..Len(links'), links'[i] = g PROVE FALSE
        BY DEF Linked
      <4>2. i # Len(links) + 1
        BY <1>0, <3>1, <3>3, <4>1, AppendFacts
      <4>3. i \in 1..Len(links) /\ links[i] = g /\ i <= Len(links)
        BY <1>0, <1>1, <3>3, <4>1, <4>2, AppendFacts
      <4> QED BY <3>1, <4>3 DEF Linked
    <3> QED BY <1>a, <3>2, <3>3
  <2>4. job[p].pc = "replace" => bytes'[g] = "synced"
    BY <1>0, <2>1 DEF SavingOK, Past, Saving
  <2>5. job[p].pc = "syncdir" => Linked(g, Len(links))' /\ (finder'[Visible'] = p => Visible' = g)
    <3> SUFFICES ASSUME job[p].pc = "syncdir"
                 PROVE  Linked(g, Len(links))' /\ (finder'[Visible'] = p => Visible' = g)
      OBVIOUS
    <3>1. Linked(g, Len(links)) /\ (finder[Visible] = p => Visible = g)
      BY <1>0 DEF SavingOK
    <3>2. PICK i \in 1..Len(links) : links[i] = g
      BY <3>1 DEF Linked
    <3>3. Visible # None
      BY <1>0, <1>1, <3>2, VisibleFacts
    <3>4. finder'[Visible'] = p => Visible' = g
      BY <1>3, <3>1, <3>3 DEF Past
    <3>5. i \in 1..Len(links') /\ links'[i] = g
      <4>1. CASE links' = links
        BY <3>2, <4>1
      <4>2. CASE a \in Attempts /\ links' = Append(links, a)
        BY <1>0, <1>1, <3>2, <4>2, AppendFacts
      <4> QED BY <1>a, <4>1, <4>2
    <3> QED BY <1>1, <3>4, <3>5 DEF Linked
  <2> QED BY <2>2, <2>3, <2>4, <2>5 DEF SavingOK
<1>5. FormOK(p)'
  <2>1. PICK k : k = job[p].page
    OBVIOUS
  <2>2. k # None => k \in Pages /\ page[k].pc = "shown" /\ page'[k].pc = "shown"
                    /\ page'[k].shown = page[k].shown
    BY <1>0, <2>1 DEF FormOK, TypeOK, Jobs
  <2>3. PICK n \in Int : n = IF job[p].pc = "syncdir" THEN Len(links) - 1 ELSE Len(links)
    <3>1. Len(links) \in Int /\ Len(links) - 1 \in Int
      BY <1>1
    <3> QED BY <3>1, Zenon
  <2>4. PICK m \in Int : /\ m = IF job[p].pc = "syncdir" THEN Len(links') - 1 ELSE Len(links')
                         /\ n <= m
    <3>1. CASE job[p].pc = "syncdir"
      <4>1. n = Len(links) - 1 /\ Len(links') - 1 \in Int /\ n <= Len(links') - 1
        BY <1>1, <2>3, <3>1
      <4> QED BY <3>1, <4>1, Zenon
    <3>2. CASE job[p].pc # "syncdir"
      <4>1. n = Len(links) /\ Len(links') \in Int /\ n <= Len(links')
        BY <1>1, <2>3, <3>2
      <4> QED BY <3>2, <4>1, Zenon
    <3> QED BY <3>1, <3>2
  <2>5. ASSUME k # None, page[k].shown # None, job[p].pc \in Committed
        PROVE  Linked(page[k].shown, m)' /\ \A r \in succeeded' : r.portal = p => r.from # page[k].shown
    <3>1. Linked(page[k].shown, n) /\ \A r \in succeeded : r.portal = p => r.from # page[k].shown
      BY <1>0, <2>1, <2>3, <2>5 DEF FormOK
    <3>2. Linked(page[k].shown, m)
      BY <1>0, <2>4, <3>1, LinkedMonotone
    <3>3. PICK x : x = page[k].shown
      OBVIOUS
    <3>4. Linked(x, m)'
      BY <1>2, <3>2, <3>3
    <3> QED BY <2>2, <2>5, <3>1, <3>3, <3>4
  <2> QED BY <1>0, <2>1, <2>2, <2>4, <2>5 DEF FormOK
<1>6. PortalOK(p)'
  <2>1. failed'[p] <= attempts'
    BY <1>0 DEF PortalOK, Past, TypeOK
  <2>2. Serving(p)' <=> Serving(p)
    BY DEF Serving
  <2> QED BY <1>0, <1>3, <2>1, <2>2, NumbersAreSomething DEF PortalOK, Past
<1> QED BY <1>4, <1>5, <1>6

\* Nothing of page k changes but what its browser was told.
SamePage(k) == page'[k] = [page[k] EXCEPT !.told = page'[k].told]

LEMMA PageKept ==
    ASSUME IInv, NEW k \in Pages, Past, SamePage(k), raced \subseteq raced',
           links' = links \/ (page[k].pc = "open" => k \in raced'),
           page[k].pc \in {"open", "flag"} /\ k \notin raced' =>
               error'[page[k].portal] \in {error[page[k].portal], "discovery_failed",
                                           "persistence_failed"}
    PROVE  PageOK(k)'
<1>1. PageOK(k) /\ page[k] \in PageStates
  BY DEF IInv, TypeOK
<1>2. /\ page'[k].pc = page[k].pc /\ page'[k].portal = page[k].portal
      /\ page'[k].seen = page[k].seen /\ page'[k].shown = page[k].shown
      /\ page'[k].stale = page[k].stale /\ page'[k].after = page[k].after
  BY <1>1 DEF SamePage, PageStates
<1>3. ASSUME NEW x \in Attempts, x <= attempts PROVE Recent(k, x)' <=> Recent(k, x)
  BY <1>2, <1>3 DEF Recent, Past, Attempts
<1>4. /\ page[k].seen # None => page[k].seen \in Attempts /\ page[k].seen <= attempts
      /\ page[k].shown # None => page[k].shown \in Attempts /\ page[k].shown <= attempts
  BY <1>1 DEF PageOK, PageStates
<1>5. links' = links => Visible' = Visible
  BY DEF Visible
<1>6. /\ page'[k].seen # None => page'[k].seen <= attempts'
      /\ page'[k].shown # None => page'[k].shown <= attempts'
  BY <1>2, <1>4 DEF Past, Attempts
<1>7. PICK seen, shown : seen = page[k].seen /\ shown = page[k].shown
  OBVIOUS
<1>8. ASSUME k \notin raced'
      PROVE  /\ page[k].pc = "open" /\ error'[page[k].portal] = "none" => Recent(k, seen)'
             /\ page[k].pc = "flag" /\ shown # None /\ error'[page[k].portal] = "none" =>
                   Recent(k, shown)'
             /\ page[k].pc \in {"issue", "shown"} /\ shown # None /\ ~page[k].stale =>
                   Recent(k, shown)'
  <2>1. /\ page[k].pc = "open" /\ error[page[k].portal] = "none" => Recent(k, seen)
        /\ page[k].pc = "flag" /\ shown # None /\ error[page[k].portal] = "none" =>
              Recent(k, shown)
        /\ page[k].pc \in {"issue", "shown"} /\ shown # None /\ ~page[k].stale =>
              Recent(k, shown)
        /\ page[k].pc = "open" => seen # None
    BY <1>1, <1>7, <1>8 DEF PageOK
  <2>2. /\ seen # None => (Recent(k, seen)' <=> Recent(k, seen))
        /\ shown # None => (Recent(k, shown)' <=> Recent(k, shown))
    BY <1>3, <1>4, <1>7
  <2> QED BY <1>8, <2>1, <2>2
<1> QED BY <1>1, <1>2, <1>5, <1>6, <1>7, <1>8 DEF PageOK

----------------------------------------------------------------------------
(* Steps that rename nothing and succeed at nothing                        *)

LEMMA InitIInv == Init => IInv
<1> SUFFICES ASSUME Init PROVE IInv
    OBVIOUS
<1>1. TypeOK
  BY BoundsAssumption
  DEF Init, TypeOK, Attempts, Errors, Jobs, JobPcs, Saving, Waiting, PageStates, PagePcs, NewPage
<1>2. LinksOK /\ SuccessOK
  BY DEF Init, LinksOK, SuccessOK, OneRefreshPerSnapshot
<1>3. \A p \in Portals : SavingOK(p) /\ FormOK(p) /\ PortalOK(p)
  BY BoundsAssumption
  DEF Init, SavingOK, FormOK, PortalOK, Saving, Committed, Waiting, Serving
<1>4. \A k \in Pages : PageOK(k)
  BY DEF Init, PageOK, NewPage
<1> QED BY <1>1, <1>2, <1>3, <1>4 DEF IInv

\* What was linked is so as long as the links are the same.
LEMMA SameLinks ==
    ASSUME UNCHANGED <<links, durable>>, LinksOK, SuccessOK, UNCHANGED succeeded, Past, TypeOK
    PROVE  LinksOK' /\ SuccessOK'
<1>1. LinksOK'
  <2>1. \A i \in 1..Len(links) : links[i] \in Attempts
    BY VisibleFacts
  <2>2. \A i \in 1..Len(links) : bytes'[links[i]] = "synced" /\ links[i] <= attempts'
    BY <2>1 DEF LinksOK, Past, Attempts
  <2> QED BY <2>2 DEF LinksOK
<1>2. SuccessOK'
  BY DEF SuccessOK, Linked, OneRefreshPerSnapshot
<1> QED BY <1>1, <1>2

\* A step of the event loop of Portal p.
LEMMA EventLoopMoves ==
    ASSUME IInv, NEW p \in Portals, UNCHANGED <<links, durable, succeeded, raced>>, TypeOK', Past,
           \A q \in Portals \ {p} : UNCHANGED <<job[q], error[q], failed[q]>>,
           error'[p] \in {error[p], "discovery_failed", "persistence_failed"},
           \A k \in Pages : SamePage(k),
           SavingOK(p)', FormOK(p)', PortalOK(p)'
    PROVE  IInv'
<1>1. LinksOK' /\ SuccessOK'
  BY SameLinks DEF IInv
<1>2. ASSUME NEW k \in Pages
      PROVE  PageOK(k)' /\ (page[k].pc = "shown" =>
                               page'[k].pc = "shown" /\ page'[k].shown = page[k].shown)
  <2>1. page[k] \in PageStates /\ PageOK(k)
    BY DEF IInv, TypeOK
  <2>2. page'[k].pc = page[k].pc /\ page'[k].shown = page[k].shown
    BY <1>2, <2>1 DEF SamePage, PageStates
  <2>3. page[k].pc \in {"open", "flag"} =>
            error'[page[k].portal] \in {error[page[k].portal], "discovery_failed",
                                        "persistence_failed"}
    BY <2>1 DEF PageOK
  <2> QED BY <2>2, <2>3, PageKept
<1>3. ASSUME NEW q \in Portals \ {p} PROVE SavingOK(q)' /\ FormOK(q)' /\ PortalOK(q)'
  BY <1>2, PortalKept DEF OthersRename
<1> QED BY <1>1, <1>2, <1>3 DEF IInv

LEMMA PagesSame == ASSUME TypeOK, UNCHANGED page PROVE \A k \in Pages : SamePage(k)
BY DEF TypeOK, SamePage, PageStates

LEMMA BecomeFacts ==
    ASSUME TypeOK, NEW p \in Portals, NEW j \in Jobs, Become(p, j)
    PROVE  /\ job' \in [Portals -> Jobs] /\ job'[p] = j
           /\ \A q \in Portals \ {p} : job'[q] = job[q]
BY DEF TypeOK, Become

LEMMA WaitingFacts ==
    ASSUME NEW pc \in JobPcs
    PROVE  /\ Waiting(pc) \in Jobs /\ Waiting(pc).pc = pc /\ Waiting(pc).page = None
           /\ Waiting(pc).attempt = None
BY DEF Waiting, Jobs

LEMMA ToldFacts ==
    ASSUME TypeOK, NEW p \in Portals, NEW t \in {"nothing", "refreshed", "failed", "rejected"},
           Told(p, t)
    PROVE  page' \in [Pages -> PageStates] /\ \A k \in Pages : SamePage(k)
<1>1. CASE job[p].page = None
  BY <1>1, PagesSame DEF Told, TypeOK
<1>2. CASE job[p].page # None
  <2>1. PICK k \in Pages : k = job[p].page
    BY <1>2 DEF TypeOK, Jobs
  <2>2. page' = [page EXCEPT ![k].told = t]
    BY <1>2, <2>1 DEF Told
  <2>3. \A j \in Pages : page[j] \in PageStates
    BY DEF TypeOK
  <2>4. /\ page'[k] = [page[k] EXCEPT !.told = t]
        /\ \A j \in Pages \ {k} : page'[j] = page[j]
        /\ page' = [j \in Pages |-> page'[j]]
    BY <2>1, <2>2 DEF TypeOK
  <2>5. page'[k] \in PageStates /\ SamePage(k)
    BY <2>3, <2>4 DEF PageStates, SamePage
  <2>6. \A j \in Pages \ {k} : page'[j] \in PageStates /\ SamePage(j)
    BY <2>3, <2>4 DEF PageStates, SamePage
  <2> QED BY <2>4, <2>5, <2>6
<1> QED BY <1>1, <1>2

\* The attempts are the same.
LEMMA PastSame ==
    ASSUME TypeOK, UNCHANGED <<attempts, finder, bytes>>
    PROVE  Past
BY BoundsAssumption DEF TypeOK, Past

LEMMA StartIInv == ASSUME IInv, NEW p \in Portals, Start(p) PROVE IInv'
<1>1. /\ UNCHANGED <<disk, error, tokens, page, bounds, history>>
      /\ Become(p, Waiting("discover"))
  BY DEF Start
<1>2. Waiting("discover") \in Jobs /\ job'[p].pc = "discover" /\ job'[p].page = None
      /\ job' \in [Portals -> Jobs] /\ \A q \in Portals \ {p} : job'[q] = job[q]
  BY <1>1, WaitingFacts, BecomeFacts DEF IInv, JobPcs
<1>3. TypeOK'
  BY <1>1, <1>2 DEF IInv, TypeOK, disk, bounds, history, Saving
<1>4. SavingOK(p)' /\ FormOK(p)' /\ PortalOK(p)'
  BY <1>1, <1>2 DEF IInv, SavingOK, FormOK, PortalOK, Serving, Saving, disk, bounds, history
<1>5. (\A k \in Pages : SamePage(k)) /\ Past
  BY <1>1, PagesSame, PastSame DEF IInv, disk, bounds, history
<1> QED BY <1>1, <1>2, <1>3, <1>4, <1>5, EventLoopMoves DEF disk, bounds, history

LEMMA FailIInv ==
    ASSUME IInv, NEW p \in Portals, NEW code \in {"discovery_failed", "persistence_failed"}, NEW g,
           Fail(p, code, g),
           UNCHANGED <<disk, tokens, now, posts, crashes, finder, succeeded, raced>>,
           attempts' \in 0..MaxAttempts, attempts <= attempts', g \in 1..attempts'
    PROVE  IInv'
<1>1. /\ error' = [error EXCEPT ![p] = code] /\ failed' = [failed EXCEPT ![p] = g]
      /\ Become(p, Waiting("idle")) /\ Told(p, "failed")
  BY DEF Fail
<1>2. /\ job'[p].pc = "idle" /\ job'[p].page = None
      /\ job' \in [Portals -> Jobs] /\ \A q \in Portals \ {p} : job'[q] = job[q]
  BY <1>1, WaitingFacts, BecomeFacts DEF IInv, JobPcs
<1>3. page' \in [Pages -> PageStates] /\ \A k \in Pages : SamePage(k)
  BY <1>1, ToldFacts DEF IInv
<1>4. /\ error' \in [Portals -> Errors] /\ error'[p] = code
      /\ failed' \in [Portals -> 0..MaxAttempts] /\ failed'[p] = g
      /\ \A q \in Portals \ {p} : error'[q] = error[q] /\ failed'[q] = failed[q]
  BY <1>1, BoundsAssumption DEF IInv, TypeOK, Errors
<1>5. TypeOK'
  BY <1>2, <1>3, <1>4 DEF IInv, TypeOK, disk, Saving
<1>6. SavingOK(p)' /\ FormOK(p)' /\ PortalOK(p)'
  BY <1>2, <1>4 DEF SavingOK, FormOK, PortalOK, Saving, Committed
<1>7. Past
  BY BoundsAssumption DEF Past, IInv, TypeOK, disk
<1>8. UNCHANGED <<links, durable, succeeded, raced>>
  BY DEF disk
<1> QED BY <1>2, <1>3, <1>4, <1>5, <1>6, <1>7, <1>8, EventLoopMoves

LEMMA FailsIInv ==
    ASSUME IInv, NEW p \in Portals, DiscoveryFails(p) \/ SaveFails(p) \/ SyncDirectoryFails(p)
    PROVE  IInv'
<1>1. CASE DiscoveryFails(p)
  <2>1. attempts' = attempts + 1 /\ attempts \in Nat /\ attempts' \in 0..MaxAttempts
    BY <1>1, BoundsAssumption DEF DiscoveryFails, IInv, TypeOK
  <2>2. Fail(p, "discovery_failed", attempts')
    BY <1>1 DEF DiscoveryFails
  <2>3. UNCHANGED <<disk, tokens, now, posts, crashes, finder, succeeded, raced>>
    BY <1>1 DEF DiscoveryFails
  <2>4. PICK g : g = attempts'
    OBVIOUS
  <2> QED BY <2>1, <2>2, <2>3, <2>4, FailIInv
<1>2. CASE SaveFails(p) \/ SyncDirectoryFails(p)
  <2>1. job[p].pc \in Saving /\ Fail(p, "persistence_failed", job[p].attempt)
    BY <1>2 DEF SaveFails, SyncDirectoryFails, Saving
  <2>2. UNCHANGED <<disk, tokens, bounds, finder, succeeded, raced>>
    BY <1>2 DEF SaveFails, SyncDirectoryFails
  <2>3. job[p].attempt \in 1..attempts /\ attempts \in 0..MaxAttempts
    BY <2>1 DEF IInv, SavingOK, TypeOK
  <2> QED BY <2>1, <2>2, <2>3, FailIInv, BoundsAssumption DEF bounds
<1> QED BY <1>1, <1>2

LEMMA DiscoverIInv == ASSUME IInv, NEW p \in Portals, Discover(p) PROVE IInv'
<1>0. PICK g : g = attempts + 1
  OBVIOUS
<1> DEFINE j == [job[p] EXCEPT !.pc = "write", !.attempt = g]
<1>1. /\ job[p].pc = "discover" /\ attempts < MaxAttempts /\ attempts' = g /\ Become(p, j)
      /\ finder' = [finder EXCEPT ![g] = p]
      /\ UNCHANGED <<disk, error, tokens, page, now, posts, crashes, succeeded, failed, raced>>
  BY <1>0 DEF Discover
<1>2. attempts \in Nat /\ g \in Nat /\ g \in Attempts /\ g \in 0..MaxAttempts /\ g # None
  BY <1>0, <1>1, BoundsAssumption, NumbersAreSomething DEF IInv, TypeOK, Attempts
<1>3. /\ j \in Jobs /\ j.pc = "write" /\ j.attempt = g /\ j.page = job[p].page
  BY <1>2 DEF IInv, TypeOK, Jobs, JobPcs, Saving
<1>4. /\ job'[p] = j /\ job' \in [Portals -> Jobs] /\ \A q \in Portals \ {p} : job'[q] = job[q]
  BY <1>1, <1>3, BecomeFacts DEF IInv
<1>5. finder' \in [Attempts -> Portals \cup {None}] /\ finder'[g] = p
      /\ \A h \in Attempts \ {g} : finder'[h] = finder[h]
  BY <1>1, <1>2 DEF IInv, TypeOK
<1>6. \A h \in 1..attempts : h \in Attempts \ {g}
  BY <1>0, <1>2, BoundsAssumption DEF Attempts
<1>7. TypeOK'
  <2> HIDE DEF j
  <2>1. attempts' \in 0..MaxAttempts
    BY <1>1, <1>2
  <2>2. \A q \in Portals : job'[q].pc \in Saving => job'[q].attempt # None
    BY <1>2, <1>3, <1>4 DEF IInv, TypeOK
  <2>3. UNCHANGED <<links, durable, bytes, error, tokens, page, now, posts, crashes, succeeded,
                    failed, raced>>
    BY <1>1 DEF disk
  <2> QED BY <1>4, <1>5, <2>1, <2>2, <2>3 DEF IInv, TypeOK
<1>8. Past
  BY <1>0, <1>1, <1>2, <1>5, <1>6 DEF Past, disk
<1>9. SavingOK(p)'
  <2>1. failed[p] <= attempts /\ failed[p] \in Nat
    BY DEF IInv, PortalOK, TypeOK
  <2>2. ~Linked(g, Len(links))'
    <3>1. \A i \in 1..Len(links) : links[i] \in Attempts /\ links[i] <= attempts
      BY VisibleFacts DEF IInv, LinksOK
    <3> QED BY <1>0, <1>1, <1>2, <3>1 DEF Linked, Attempts, disk
  <2>3. g \in 1..attempts' /\ g > failed'[p]
    <3> HIDE DEF j
    <3>1. attempts' = g /\ failed' = failed /\ g \in Nat /\ g = attempts + 1 /\ attempts \in Nat
      BY <1>0, <1>1, <1>2
    <3> QED BY <2>1, <3>1
  <2>4. job'[p].pc = "write" /\ job'[p].attempt = g
    BY <1>3, <1>4
  <2> HIDE DEF j
  <2> QED BY <1>5, <2>2, <2>3, <2>4 DEF SavingOK, Saving
<1>10. FormOK(p)'
  BY <1>1, <1>3, <1>4 DEF IInv, FormOK, Linked, Committed, Saving, disk
<1>11. PortalOK(p)'
  <2>1. Serving(p)' => Serving(p)
    BY <1>1, <1>3, <1>4 DEF Serving
  <2>2. Visible' = Visible /\ (Visible # None => finder'[Visible] = finder[Visible])
    <3>1. Visible # None => Visible \in Attempts /\ Visible <= attempts
      BY VisibleFacts DEF IInv, LinksOK
    <3> QED BY <1>1, <1>5, <1>6, <3>1 DEF Visible, disk, Attempts
  <2>3. failed'[p] <= attempts'
    BY <1>0, <1>1, <1>2 DEF IInv, PortalOK, TypeOK
  <2> QED BY <1>1, <2>1, <2>2, <2>3 DEF IInv, PortalOK
<1>12. \A k \in Pages : SamePage(k)
  BY <1>1, PagesSame DEF IInv
<1> QED BY <1>1, <1>4, <1>7, <1>8, <1>9, <1>10, <1>11, <1>12, EventLoopMoves DEF disk

LEMMA WriteTemporaryIInv == ASSUME IInv, NEW p \in Portals, WriteTemporary(p) PROVE IInv'
<1> DEFINE j == [job[p] EXCEPT !.pc = "replace"]
<1>1. /\ job[p].pc = "write" /\ Become(p, j)
      /\ bytes' = [bytes EXCEPT ![job[p].attempt] = "synced"]
      /\ UNCHANGED <<links, durable, error, tokens, page, bounds, history>>
  BY DEF WriteTemporary, Goto
<1>2. /\ j \in Jobs /\ j.pc = "replace" /\ j.attempt = job[p].attempt /\ j.page = job[p].page
  BY DEF IInv, TypeOK, Jobs, JobPcs, Saving
<1>3. /\ job'[p] = j /\ job' \in [Portals -> Jobs] /\ \A q \in Portals \ {p} : job'[q] = job[q]
  BY <1>1, <1>2, BecomeFacts DEF IInv
<1>4. job[p].attempt \in Attempts /\ job[p].attempt # None
  BY <1>1 DEF IInv, TypeOK, Jobs, Saving
<1>5. /\ bytes' \in [Attempts -> {"none", "partial", "whole", "synced"}]
      /\ bytes'[job[p].attempt] = "synced"
      /\ \A g \in Attempts : bytes[g] = "synced" => bytes'[g] = "synced"
  BY <1>1, <1>4 DEF IInv, TypeOK
<1>6. TypeOK'
  BY <1>1, <1>2, <1>3, <1>4, <1>5 DEF IInv, TypeOK, bounds, history, Saving
<1>7. Past
  BY <1>1, <1>5, BoundsAssumption DEF IInv, TypeOK, Past, bounds, history
<1>8. SavingOK(p)' /\ FormOK(p)' /\ PortalOK(p)'
  BY <1>1, <1>2, <1>3, <1>5
  DEF IInv, SavingOK, FormOK, PortalOK, Serving, Linked, Visible, Saving, Committed, bounds, history
<1>9. \A k \in Pages : SamePage(k)
  BY <1>1, PagesSame DEF IInv
<1> QED BY <1>1, <1>3, <1>6, <1>7, <1>8, <1>9, EventLoopMoves DEF bounds, history

----------------------------------------------------------------------------
(* The refresh form                                                        *)

LEMMA SubmitIInv == ASSUME IInv, NEW k \in Pages, NEW p \in Portals, Submit(k, p) PROVE IInv'
<1> DEFINE j == [Waiting("stat") EXCEPT !.page = k]
<1>1. /\ page[k].pc = "shown" /\ job[p].pc = "idle" /\ posts < MaxPosts /\ posts' = posts + 1
      /\ Become(p, j)
      /\ UNCHANGED <<disk, error, tokens, page, now, attempts, crashes, history>>
  BY DEF Submit
<1>2. j \in Jobs /\ j.pc = "stat" /\ j.page = k
  BY DEF Waiting, Jobs, JobPcs
<1>3. /\ job'[p].pc = "stat" /\ job'[p].page = k
      /\ job' \in [Portals -> Jobs] /\ \A q \in Portals \ {p} : job'[q] = job[q]
  <2> HIDE DEF j
  <2> QED BY <1>1, <1>2, BecomeFacts DEF IInv
<1>4. posts' \in 0..MaxPosts
  BY <1>1, BoundsAssumption DEF IInv, TypeOK
<1>5. TypeOK'
  BY <1>1, <1>3, <1>4 DEF IInv, TypeOK, disk, history, Saving
<1>6. k # None
  BY NoneAssumption
<1>7. SavingOK(p)' /\ FormOK(p)' /\ PortalOK(p)'
  BY <1>1, <1>3, <1>6
  DEF IInv, SavingOK, FormOK, PortalOK, Serving, Visible, Saving, Committed, disk, history
<1>8. (\A i \in Pages : SamePage(i)) /\ Past
  BY <1>1, PagesSame, PastSame DEF IInv, disk, history
<1> QED BY <1>1, <1>3, <1>5, <1>7, <1>8, EventLoopMoves DEF disk, history

LEMMA StatCurrentIInv == ASSUME IInv, NEW p \in Portals, StatCurrent(p) PROVE IInv'
<1> DEFINE j == [job[p] EXCEPT !.pc = "open", !.seen = Visible]
<1>1. /\ job[p].pc = "stat" /\ Become(p, j)
      /\ UNCHANGED <<disk, error, tokens, page, bounds, history>>
  BY DEF StatCurrent
<1>2. j \in Jobs /\ j.pc = "open" /\ j.page = job[p].page
  <2>1. Visible \in Attempts \cup {None}
    BY VisibleFacts DEF IInv
  <2> QED BY <2>1 DEF IInv, TypeOK, Jobs, JobPcs
<1>3. /\ job'[p].pc = "open" /\ job'[p].page = job[p].page
      /\ job' \in [Portals -> Jobs] /\ \A q \in Portals \ {p} : job'[q] = job[q]
  <2> HIDE DEF j
  <2> QED BY <1>1, <1>2, BecomeFacts DEF IInv
<1>4. TypeOK'
  BY <1>1, <1>3 DEF IInv, TypeOK, disk, bounds, history, Saving
<1>5. SavingOK(p)' /\ FormOK(p)' /\ PortalOK(p)'
  BY <1>1, <1>3
  DEF IInv, SavingOK, FormOK, PortalOK, Serving, Visible, Saving, Committed, disk, bounds, history
<1>6. (\A i \in Pages : SamePage(i)) /\ Past
  BY <1>1, PagesSame, PastSame DEF IInv, disk, bounds, history
<1> QED BY <1>1, <1>3, <1>4, <1>5, <1>6, EventLoopMoves DEF disk, history

\* The form is rejected: the Portal waits again.
LEMMA RejectIInv ==
    ASSUME IInv, NEW p \in Portals, job[p].page # None, job[p].pc # "down",
           Become(p, Waiting("idle")), Told(p, "rejected"),
           UNCHANGED <<disk, error, bounds, history>>,
           tokens' \in [Portals -> SUBSET Tokens(Pages, Attempts \cup {None}, 0..(MaxTime + Ttl))]
    PROVE  IInv'
<1>1. /\ job'[p].pc = "idle" /\ job'[p].page = None
      /\ job' \in [Portals -> Jobs] /\ \A q \in Portals \ {p} : job'[q] = job[q]
  BY WaitingFacts, BecomeFacts DEF IInv, JobPcs
<1>2. page' \in [Pages -> PageStates] /\ \A k \in Pages : SamePage(k)
  BY ToldFacts DEF IInv
<1>3. TypeOK'
  BY <1>1, <1>2 DEF IInv, TypeOK, disk, bounds, history, Saving
<1>4. SavingOK(p)' /\ FormOK(p)'
  BY <1>1 DEF SavingOK, FormOK, Saving, Committed
<1>5. PortalOK(p)'
  BY DEF IInv, PortalOK, Serving, Visible, disk, bounds, history
<1>6. Past
  BY PastSame DEF IInv, disk, bounds, history
<1> QED BY <1>1, <1>2, <1>3, <1>4, <1>5, <1>6, EventLoopMoves DEF disk, history

LEMMA CompareIInv == ASSUME IInv, NEW p \in Portals, Compare(p) PROVE IInv'
<1>1. /\ job[p].pc = "open" /\ job[p].page # None
      /\ UNCHANGED <<disk, error, tokens, bounds, history>>
  BY DEF Compare, IInv, FormOK
<1>2. CASE page[job[p].page].shown # Current(p)
  <2>1. Become(p, Waiting("idle")) /\ Told(p, "rejected")
    BY <1>2 DEF Compare
  <2>2. tokens' \in [Portals -> SUBSET Tokens(Pages, Attempts \cup {None}, 0..(MaxTime + Ttl))]
    BY <1>1 DEF IInv, TypeOK
  <2> QED BY <1>1, <2>1, <2>2, RejectIInv
<1>3. CASE page[job[p].page].shown = Current(p)
  <2> DEFINE j == [job[p] EXCEPT !.pc = "consume"]
  <2>1. Become(p, j) /\ UNCHANGED page
    BY <1>3 DEF Compare, Goto
  <2>2. j \in Jobs /\ j.pc = "consume" /\ j.page = job[p].page
    BY DEF IInv, TypeOK, Jobs, JobPcs
  <2>3. /\ job'[p].pc = "consume" /\ job'[p].page = job[p].page
        /\ job' \in [Portals -> Jobs] /\ \A q \in Portals \ {p} : job'[q] = job[q]
    <3> HIDE DEF j
    <3> QED BY <2>1, <2>2, BecomeFacts DEF IInv
  <2>4. TypeOK'
    BY <1>1, <2>1, <2>3 DEF IInv, TypeOK, disk, bounds, history, Saving
  <2>5. SavingOK(p)' /\ PortalOK(p)'
    BY <1>1, <2>1, <2>3
    DEF IInv, SavingOK, PortalOK, Serving, Visible, Saving, Committed, disk, bounds, history
  <2>6. PICK k, x : k = job[p].page /\ x = page[k].shown
    OBVIOUS
  <2>7. ASSUME x # None PROVE Linked(x, Len(links)) /\ \A r \in succeeded : r.from # x
    <3>1. Visible = x
      BY <1>3, <2>6, <2>7 DEF Current, Found
    <3>2. Linked(x, Len(links))
      <4>1. Len(links) \in 1..Len(links) /\ Len(links) \in Nat /\ links[Len(links)] = x
        BY <2>7, <3>1, VisibleFacts DEF IInv
      <4> QED BY <4>1 DEF Linked
    <3>3. \A r \in succeeded : r.from # x
      BY <2>7, <3>1, LinkedIsPast DEF IInv, SuccessOK
    <3> QED BY <3>2, <3>3
  <2>8. FormOK(p)'
    <3>1. page[k].pc = "shown" /\ k # None
      BY <1>1, <2>6 DEF IInv, FormOK
    <3>2. x # None => Linked(x, Len(links))' /\ \A r \in succeeded' : r.from # x
      BY <1>1, <2>7 DEF Linked, disk, history
    <3> QED BY <2>1, <2>3, <2>6, <3>1, <3>2 DEF FormOK
  <2>9. (\A i \in Pages : SamePage(i)) /\ Past
    BY <1>1, <2>1, PagesSame, PastSame DEF IInv, disk, bounds, history
  <2> QED BY <1>1, <2>3, <2>4, <2>5, <2>8, <2>9, EventLoopMoves DEF disk, history
<1> QED BY <1>2, <1>3

LEMMA TokensStayTyped ==
    ASSUME TypeOK, NEW p \in Portals, NEW t, NEW k, NEW us,
           us \subseteq tokens[p], tokens' = [tokens EXCEPT ![p] = us]
    PROVE  tokens' \in [Portals -> SUBSET Tokens(Pages, Attempts \cup {None}, 0..(MaxTime + Ttl))]
BY DEF TypeOK

LEMMA ConsumeTokenIInv == ASSUME IInv, NEW p \in Portals, ConsumeToken(p) PROVE IInv'
<1>1. /\ job[p].pc = "consume" /\ job[p].page # None
      /\ UNCHANGED <<disk, error, bounds, history>>
  BY DEF ConsumeToken, IInv, FormOK
<1>2. PICK k : k = job[p].page
  OBVIOUS
<1>3. CASE ~Accepts(tokens[p], now, k, page[k].shown)
  <2>1. /\ Become(p, Waiting("idle")) /\ Told(p, "rejected")
        /\ tokens' = [tokens EXCEPT ![p] = Unexpired(tokens[p], now)]
    BY <1>2, <1>3 DEF ConsumeToken
  <2>2. Unexpired(tokens[p], now) \subseteq tokens[p]
    BY DEF Unexpired
  <2>3. tokens' \in [Portals -> SUBSET Tokens(Pages, Attempts \cup {None}, 0..(MaxTime + Ttl))]
    BY <2>1, <2>2, TokensStayTyped DEF IInv
  <2> QED BY <1>1, <2>1, <2>3, RejectIInv
<1>4. CASE Accepts(tokens[p], now, k, page[k].shown)
  <2> DEFINE j == [job[p] EXCEPT !.pc = "discover"]
  <2>1. /\ Become(p, j) /\ UNCHANGED page
        /\ tokens' = [tokens EXCEPT ![p] = Consumed(tokens[p], now, k)]
    BY <1>2, <1>4 DEF ConsumeToken, Goto
  <2>2. j \in Jobs /\ j.pc = "discover" /\ j.page = job[p].page
    BY DEF IInv, TypeOK, Jobs, JobPcs
  <2>3. /\ job'[p].pc = "discover" /\ job'[p].page = job[p].page
        /\ job' \in [Portals -> Jobs] /\ \A q \in Portals \ {p} : job'[q] = job[q]
    <3> HIDE DEF j
    <3> QED BY <2>1, <2>2, BecomeFacts DEF IInv
  <2>4. Consumed(tokens[p], now, k) \subseteq tokens[p]
    BY DEF Consumed, Unexpired
  <2>5. tokens' \in [Portals -> SUBSET Tokens(Pages, Attempts \cup {None}, 0..(MaxTime + Ttl))]
    BY <2>1, <2>4, TokensStayTyped DEF IInv
  <2>6. TypeOK'
    BY <1>1, <2>1, <2>3, <2>5 DEF IInv, TypeOK, disk, bounds, history, Saving
  <2>7. SavingOK(p)' /\ PortalOK(p)'
    BY <1>1, <2>1, <2>3
    DEF IInv, SavingOK, PortalOK, Serving, Visible, Saving, Committed, disk, bounds, history
  <2>8. FormOK(p)'
    BY <1>1, <2>1, <2>3 DEF IInv, FormOK, Linked, Committed, Saving, disk, history
  <2>9. (\A i \in Pages : SamePage(i)) /\ Past
    BY <1>1, <2>1, PagesSame, PastSame DEF IInv, disk, bounds, history
  <2> QED BY <1>1, <2>3, <2>6, <2>7, <2>8, <2>9, EventLoopMoves DEF disk, history
<1> QED BY <1>3, <1>4

----------------------------------------------------------------------------
(* Pages                                                                   *)

\* A step of a page that was not shown yet.
LEMMA PageMoves ==
    ASSUME IInv, NEW k \in Pages, page[k].pc # "shown", NEW s \in PageStates, PageBecomes(k, s),
           UNCHANGED <<disk, error, job, bounds, history>>,
           tokens' \in [Portals -> SUBSET Tokens(Pages, Attempts \cup {None}, 0..(MaxTime + Ttl))],
           PageOK(k)'
    PROVE  IInv'
<1>1. /\ page' \in [Pages -> PageStates] /\ page'[k] = s
      /\ \A i \in Pages \ {k} : page'[i] = page[i]
  BY DEF IInv, TypeOK, PageBecomes
<1>2. TypeOK'
  BY <1>1 DEF IInv, TypeOK, disk, bounds, history
<1>3. Past
  BY PastSame DEF IInv, disk, bounds, history
<1>4. LinksOK' /\ SuccessOK'
  BY <1>3, SameLinks DEF IInv, disk, history
<1>5. ASSUME NEW p \in Portals PROVE SavingOK(p)' /\ FormOK(p)' /\ PortalOK(p)'
  <2>1. \A i \in Pages : page[i].pc = "shown" => page'[i] = page[i]
    BY <1>1
  <2> QED BY <1>3, <2>1, PortalKept DEF OthersRename, disk, history
<1>6. ASSUME NEW i \in Pages \ {k} PROVE PageOK(i)'
  <2>1. SamePage(i)
    BY <1>1 DEF SamePage, IInv, TypeOK, PageStates
  <2> QED BY <1>3, <2>1, PageKept DEF disk, history
<1> QED BY <1>2, <1>4, <1>5, <1>6 DEF IInv

LEMMA TokensTyped ==
    ASSUME TypeOK, NEW p \in Portals, NEW us, tokens' = [tokens EXCEPT ![p] = us],
           us \in SUBSET Tokens(Pages, Attempts \cup {None}, 0..(MaxTime + Ttl))
    PROVE  tokens' \in [Portals -> SUBSET Tokens(Pages, Attempts \cup {None}, 0..(MaxTime + Ttl))]
BY DEF TypeOK

LEMMA ViewIInv == ASSUME IInv, NEW k \in Pages, NEW p \in Portals, View(k, p) PROVE IInv'
<1> DEFINE s == [NewPage EXCEPT !.pc = IF Visible = None THEN "flag" ELSE "open",
                                !.portal = p, !.seen = Visible, !.after = failed[p]]
<1>1. /\ page[k].pc = "none" /\ Serving(p) /\ PageBecomes(k, s)
      /\ UNCHANGED <<disk, error, tokens, job, bounds, history>>
  BY DEF View
<1>2. /\ Visible \in Attempts \cup {None} /\ failed[p] \in Attempts \cup {0}
      /\ Visible # None => Visible \in Attempts /\ Visible <= attempts
  <2>1. failed[p] \in 0..MaxAttempts
    BY DEF IInv, TypeOK
  <2> QED BY <2>1, BoundsAssumption, VisibleFacts DEF IInv, LinksOK, Attempts
<1>3. /\ s \in PageStates /\ s.portal = p /\ s.seen = Visible /\ s.shown = None
      /\ s.after = failed[p] /\ s.pc = IF Visible = None THEN "flag" ELSE "open"
  BY <1>2 DEF NewPage, PageStates, PagePcs
<1>4. page'[k] = s
  BY <1>1 DEF PageBecomes, IInv, TypeOK
<1>5. /\ page'[k].portal = p /\ page'[k].seen = Visible /\ page'[k].shown = None
      /\ page'[k].after = failed[p] /\ page'[k].pc = IF Visible = None THEN "flag" ELSE "open"
  BY <1>3, <1>4
<1>6. UNCHANGED <<finder, error, attempts, failed, raced>> /\ Visible' = Visible
  BY <1>1 DEF disk, bounds, history, Visible
<1> HIDE DEF s
<1>7. PageOK(k)'
  <2>1. CASE Visible = None
    BY <1>5, <1>6, <2>1 DEF PageOK
  <2>2. CASE Visible # None
    <3>1. error[p] = "none" /\ finder[Visible] = p => Visible > failed[p]
      BY <1>1, <2>2 DEF IInv, PortalOK
    <3>2. PICK x : x = Visible
      OBVIOUS
    <3>3. error[p] = "none" => Recent(k, x)'
      BY <1>5, <1>6, <3>1, <3>2 DEF Recent
    <3> QED BY <1>2, <1>5, <1>6, <2>2, <3>2, <3>3 DEF PageOK
  <2> QED BY <2>1, <2>2
<1> QED BY <1>1, <1>3, <1>7, PageMoves DEF IInv, TypeOK

LEMMA OpenSnapshotIInv == ASSUME IInv, NEW k \in Pages, OpenSnapshot(k) PROVE IInv'
<1> DEFINE s == [page[k] EXCEPT !.pc = "flag", !.shown = Found(page[k].seen)]
<1>1. /\ page[k].pc = "open" /\ PageBecomes(k, s)
      /\ UNCHANGED <<disk, error, tokens, job, bounds, history>>
  BY DEF OpenSnapshot
<1>2. PICK x : x = page[k].seen
  OBVIOUS
<1>3. /\ x # None /\ x \in Attempts /\ x <= attempts
      /\ Found(x) \in {x, None}
      /\ k \notin raced => Found(x) = x
      /\ page[k] \in PageStates /\ page[k].portal \in Portals
  <2>1. x # None /\ x \in Attempts /\ x <= attempts /\ page[k] \in PageStates
        /\ page[k].portal \in Portals /\ (k \notin raced => Visible = x)
    BY <1>1, <1>2 DEF IInv, TypeOK, PageOK, PageStates
  <2>2. Visible = x => bytes[x] = "synced"
    BY <2>1, VisibleFacts DEF IInv, LinksOK
  <2> QED BY <2>1, <2>2 DEF Found
<1>4. /\ s \in PageStates /\ s.portal = page[k].portal /\ s.seen = x /\ s.shown = Found(x)
      /\ s.after = page[k].after /\ s.pc = "flag"
  BY <1>2, <1>3 DEF PageStates, PagePcs
<1>5. /\ page'[k].portal = page[k].portal /\ page'[k].seen = x /\ page'[k].shown = Found(x)
      /\ page'[k].after = page[k].after /\ page'[k].pc = "flag"
  BY <1>1, <1>4 DEF PageBecomes, IInv, TypeOK
<1>6. UNCHANGED <<finder, error, attempts, raced>>
  BY <1>1 DEF bounds, history
<1> HIDE DEF s
<1>7. k \notin raced /\ error[page[k].portal] = "none" => Recent(k, x)'
  <2>1. k \notin raced /\ error[page[k].portal] = "none" => Recent(k, x)
    BY <1>1, <1>2 DEF IInv, PageOK
  <2> QED BY <1>5, <1>6, <2>1 DEF Recent
<1>8. PICK y \in {x, None} : y = Found(x)
  BY <1>3
<1>9. PageOK(k)'
  BY <1>3, <1>5, <1>6, <1>7, <1>8 DEF PageOK
<1> QED BY <1>1, <1>4, <1>9, PageMoves DEF IInv, TypeOK

LEMMA FlagIInv == ASSUME IInv, NEW k \in Pages, Flag(k) PROVE IInv'
<1> DEFINE s == [page[k] EXCEPT !.pc = "issue",
                    !.stale = page[k].shown # None /\ error[page[k].portal] # "none"]
<1>1. /\ page[k].pc = "flag" /\ PageBecomes(k, s)
      /\ UNCHANGED <<disk, error, tokens, job, bounds, history>>
  BY DEF Flag
<1>2. PICK x : x = page[k].shown
  OBVIOUS
<1>3. page[k] \in PageStates
  BY DEF IInv, TypeOK
<1>4. /\ s \in PageStates /\ s.portal = page[k].portal /\ s.seen = page[k].seen /\ s.shown = x
      /\ s.after = page[k].after /\ s.pc = "issue"
      /\ s.stale = (x # None /\ error[page[k].portal] # "none")
  BY <1>2, <1>3 DEF PageStates, PagePcs
<1>5. /\ page'[k].portal = page[k].portal /\ page'[k].seen = page[k].seen /\ page'[k].shown = x
      /\ page'[k].after = page[k].after /\ page'[k].pc = "issue"
      /\ page'[k].stale = (x # None /\ error[page[k].portal] # "none")
  BY <1>1, <1>4 DEF PageBecomes, IInv, TypeOK
<1>6. UNCHANGED <<finder, error, attempts, raced>>
  BY <1>1 DEF bounds, history
<1> HIDE DEF s
<1>7. k \notin raced /\ x # None /\ error[page[k].portal] = "none" => Recent(k, x)'
  <2>1. k \notin raced /\ x # None /\ error[page[k].portal] = "none" => Recent(k, x)
    BY <1>1, <1>2 DEF IInv, PageOK
  <2> QED BY <1>5, <1>6, <2>1 DEF Recent
<1>8. PageOK(k)'
  <2>1. PageOK(k)
    BY DEF IInv
  <2> QED BY <1>1, <1>2, <1>5, <1>6, <1>7, <2>1 DEF PageOK
<1> QED BY <1>1, <1>4, <1>8, PageMoves DEF IInv, TypeOK

LEMMA IssueTokenIInv == ASSUME IInv, NEW k \in Pages, IssueToken(k) PROVE IInv'
<1>0. PICK p, room : p = page[k].portal /\ room = HasRoom(tokens[p], now)
  OBVIOUS
<1> DEFINE s == [page[k] EXCEPT !.pc = "shown", !.form = room]
           us == IF room THEN Issued(tokens[p], now, k, page[k].shown) ELSE Unexpired(tokens[p], now)
<1>1. /\ page[k].pc = "issue" /\ PageBecomes(k, s) /\ tokens' = [tokens EXCEPT ![p] = us]
      /\ UNCHANGED <<disk, error, job, bounds, history>>
  BY <1>0 DEF IssueToken
<1>2. PICK x : x = page[k].shown
  OBVIOUS
<1>3. page[k] \in PageStates /\ room \in BOOLEAN /\ p \in Portals
  BY <1>0, <1>1 DEF IInv, TypeOK, PageOK, HasRoom
<1>4. /\ s \in PageStates /\ s.portal = p /\ s.seen = page[k].seen /\ s.shown = x
      /\ s.after = page[k].after /\ s.pc = "shown" /\ s.stale = page[k].stale
  BY <1>0, <1>2, <1>3 DEF PageStates, PagePcs
<1>5. /\ page'[k].portal = p /\ page'[k].seen = page[k].seen /\ page'[k].shown = x
      /\ page'[k].after = page[k].after /\ page'[k].pc = "shown" /\ page'[k].stale = page[k].stale
  BY <1>1, <1>4 DEF PageBecomes, IInv, TypeOK
<1>6. UNCHANGED <<finder, error, attempts, raced>>
  BY <1>1 DEF bounds, history
<1> HIDE DEF s
<1>7. k \notin raced /\ x # None /\ ~page[k].stale => Recent(k, x)'
  <2>1. k \notin raced /\ x # None /\ ~page[k].stale => Recent(k, x)
    BY <1>1, <1>2 DEF IInv, PageOK
  <2> QED BY <1>0, <1>5, <1>6, <2>1 DEF Recent
<1>8. PageOK(k)'
  <2>1. PageOK(k)
    BY DEF IInv
  <2> QED BY <1>0, <1>1, <1>2, <1>3, <1>5, <1>6, <1>7, <2>1 DEF PageOK
<1>9. us \in SUBSET Tokens(Pages, Attempts \cup {None}, 0..(MaxTime + Ttl))
  <2>1. tokens[p] \in SUBSET Tokens(Pages, Attempts \cup {None}, 0..(MaxTime + Ttl))
    BY <1>3 DEF IInv, TypeOK
  <2>2. x \in Attempts \cup {None} /\ now + Ttl \in 0..(MaxTime + Ttl)
    BY <1>2, <1>3, LimitsAssumption, BoundsAssumption DEF IInv, TypeOK, PageStates
  <2> QED BY <1>2, <2>1, <2>2 DEF Issued, Unexpired, Tokens
<1>10. tokens' \in [Portals -> SUBSET Tokens(Pages, Attempts \cup {None}, 0..(MaxTime + Ttl))]
  <2> HIDE DEF us
  <2> QED BY <1>1, <1>3, <1>9, TokensTyped DEF IInv
<1> QED BY <1>1, <1>4, <1>8, <1>10, PageMoves

----------------------------------------------------------------------------
(* The rename and the success                                              *)

LEMMA ReplaceIInv == ASSUME IInv, NEW p \in Portals, Replace(p) PROVE IInv'
<1>0. PICK g : g = job[p].attempt
  OBVIOUS
<1> DEFINE j == [job[p] EXCEPT !.pc = "syncdir"]
<1>1. /\ job[p].pc = "replace" /\ links' = Append(links, g) /\ Become(p, j)
      /\ raced' = raced \cup {k \in Pages : page[k].pc = "open"}
      /\ UNCHANGED <<durable, bytes, error, tokens, page, bounds, finder, succeeded, failed>>
  BY <1>0 DEF Replace, Goto
<1>2. /\ g \in Attempts /\ g \in 1..attempts /\ finder[g] = p /\ g > failed[p]
      /\ ~Linked(g, Len(links)) /\ bytes[g] = "synced" /\ g # None /\ attempts \in Nat
  BY <1>0, <1>1, BoundsAssumption DEF IInv, SavingOK, TypeOK, Jobs, Saving
<1>3. /\ links' \in Seq(Attempts) /\ Len(links) \in Nat /\ Len(links') = Len(links) + 1
      /\ \A i \in 1..Len(links) : links'[i] = links[i] /\ links[i] \in Attempts
      /\ links'[Len(links) + 1] = g /\ Visible' = g /\ durable \in 0..Len(links)
  BY <1>1, <1>2, AppendFacts, VisibleFacts DEF IInv
<1>4. \A i \in 1..Len(links') : i \in 1..Len(links) \/ i = Len(links) + 1
  BY <1>3
<1>5. j \in Jobs /\ j.pc = "syncdir" /\ j.attempt = g /\ j.page = job[p].page
  BY <1>0 DEF IInv, TypeOK, Jobs, JobPcs, Saving
<1>6. /\ job'[p].pc = "syncdir" /\ job'[p].attempt = g /\ job'[p].page = job[p].page
      /\ job' \in [Portals -> Jobs] /\ \A q \in Portals \ {p} : job'[q] = job[q]
  <2> HIDE DEF j
  <2> QED BY <1>1, <1>5, BecomeFacts DEF IInv
<1>7. TypeOK'
  <2>1. durable' \in 0..Len(links')
    BY <1>1, <1>3
  <2>2. \A q \in Portals : job'[q].pc \in Saving => job'[q].attempt # None
    BY <1>2, <1>6 DEF IInv, TypeOK
  <2>3. raced' \in SUBSET Pages
    BY <1>1 DEF IInv, TypeOK
  <2> QED BY <1>1, <1>3, <1>6, <2>1, <2>2, <2>3 DEF IInv, TypeOK, bounds
<1>8. LinksOK'
  <2>1. \A i \in 1..Len(links) : links[i] # g /\ links'[i] = links[i]
    BY <1>2, <1>3 DEF Linked
  <2>2. \A i, m \in 1..Len(links') : links'[i] = links'[m] => i = m
    BY <1>3, <1>4, <2>1 DEF IInv, LinksOK
  <2>3. \A i \in 1..Len(links') : bytes'[links'[i]] = "synced" /\ links'[i] <= attempts'
    BY <1>1, <1>2, <1>3, <1>4 DEF IInv, LinksOK, bounds
  <2> QED BY <2>2, <2>3 DEF LinksOK
<1>9. \A x, n : Linked(x, n) => Linked(x, n)'
  BY <1>1, <1>2, LinkedStays DEF IInv
<1>10. SuccessOK'
  <2>1. PICK d : d = durable
    OBVIOUS
  <2>2. ASSUME NEW r \in succeeded
        PROVE  Linked(r.attempt, d)' /\ (r.from # None => Linked(r.from, d - 1)')
    BY <1>9, <2>1 DEF IInv, SuccessOK
  <2> QED BY <1>1, <2>1, <2>2 DEF IInv, SuccessOK, OneRefreshPerSnapshot
<1>11. Past
  BY <1>1, PastSame DEF IInv, bounds
<1>12. ASSUME NEW q \in Portals \ {p} PROVE SavingOK(q)' /\ FormOK(q)' /\ PortalOK(q)'
  <2>1. OthersRename(q)
    BY <1>1, <1>2 DEF OthersRename
  <2> QED BY <1>1, <1>6, <1>11, <2>1, PortalKept
<1>13. ASSUME NEW k \in Pages PROVE PageOK(k)'
  <2>1. SamePage(k)
    BY <1>1, PagesSame DEF IInv
  <2> QED BY <1>1, <1>11, <2>1, PageKept
<1>14. SavingOK(p)'
  <2>1. Linked(g, Len(links))'
    BY <1>3 DEF Linked
  <2> QED BY <1>1, <1>2, <1>3, <1>6, <2>1 DEF SavingOK, bounds, Saving
<1>15. FormOK(p)'
  <2>1. PICK k, x : k = job[p].page /\ x = page[k].shown
    OBVIOUS
  <2>2. k # None => page[k].pc = "shown"
    BY <2>1 DEF IInv, FormOK
  <2>3. k # None /\ x # None => Linked(x, Len(links)) /\ \A r \in succeeded : r.portal = p => r.from # x
    BY <1>1, <2>1 DEF IInv, FormOK, Committed, Saving
  <2>4. Linked(x, Len(links)) => Linked(x, Len(links) - 1)'
    <3>1. PICK n : n = Len(links)
      OBVIOUS
    <3>2. Linked(x, n) => Linked(x, n)'
      BY <1>9
    <3>3. n = Len(links') - 1
      BY <1>3, <3>1
    <3> QED BY <3>1, <3>2, <3>3 DEF Linked
  <2> QED BY <1>1, <1>6, <2>1, <2>2, <2>3, <2>4 DEF FormOK
<1>16. PortalOK(p)'
  BY <1>1, <1>2, <1>3 DEF IInv, PortalOK, bounds
<1> QED BY <1>7, <1>8, <1>10, <1>12, <1>13, <1>14, <1>15, <1>16 DEF IInv

LEMMA SyncDirectoryIInv == ASSUME IInv, NEW p \in Portals, SyncDirectory(p) PROVE IInv'
<1>0. PICK g, k, x : /\ g = job[p].attempt /\ k = job[p].page
                     /\ x = IF k = None THEN None ELSE page[k].shown
  OBVIOUS
<1> DEFINE r == [portal |-> p, attempt |-> g, from |-> x]
<1>1. /\ job[p].pc = "syncdir" /\ durable' = Len(links)
      /\ error' = [error EXCEPT ![p] = "none"] /\ succeeded' = succeeded \cup {r}
      /\ raced' = raced \cup InFlight(p)
      /\ Become(p, Waiting("idle")) /\ Told(p, "refreshed")
      /\ UNCHANGED <<links, bytes, tokens, bounds, finder, failed>>
  BY <1>0 DEF SyncDirectory, Succeed
<1>2. /\ g \in Attempts /\ g > failed[p] /\ finder[g] = p
      /\ Linked(g, Len(links)) /\ (finder[Visible] = p => Visible = g)
  BY <1>0, <1>1 DEF IInv, SavingOK, TypeOK, Jobs, Saving
<1>3. /\ x \in Attempts \cup {None}
      /\ x # None => Linked(x, Len(links) - 1) /\ \A s \in succeeded : s.portal = p => s.from # x
  <2>1. k # None => k \in Pages /\ page[k].shown \in Attempts \cup {None}
    BY <1>0 DEF IInv, TypeOK, Jobs, PageStates
  <2>2. x # None => k # None /\ x = page[k].shown
    BY <1>0
  <2> QED BY <1>0, <1>1, <2>1, <2>2 DEF IInv, FormOK, Committed, Saving
<1>4. /\ job'[p].pc = "idle" /\ job'[p].page = None
      /\ job' \in [Portals -> Jobs] /\ \A q \in Portals \ {p} : job'[q] = job[q]
  BY <1>1, WaitingFacts, BecomeFacts DEF IInv, JobPcs
<1>5. page' \in [Pages -> PageStates] /\ \A i \in Pages : SamePage(i)
  BY <1>1, ToldFacts DEF IInv
<1>6. /\ error' \in [Portals -> Errors] /\ error'[p] = "none"
      /\ \A q \in Portals \ {p} : error'[q] = error[q]
  BY <1>1 DEF IInv, TypeOK, Errors
<1>7. TypeOK'
  <2>1. durable' \in 0..Len(links')
    BY <1>1, VisibleFacts DEF IInv
  <2>2. r \in [portal : Portals, from : Attempts \cup {None}, attempt : Attempts]
    BY <1>2, <1>3
  <2> HIDE DEF r
  <2>3. raced' \in SUBSET Pages
    BY <1>1 DEF IInv, TypeOK, InFlight
  <2> QED BY <1>1, <1>4, <1>5, <1>6, <2>1, <2>2, <2>3 DEF IInv, TypeOK, bounds, Saving
<1>8. LinksOK' /\ Visible' = Visible /\ \A y, n : Linked(y, n)' <=> Linked(y, n)
  BY <1>1 DEF IInv, LinksOK, Linked, Visible, bounds
<1>9. SuccessOK'
  <2>1. Len(links) \in Nat /\ durable \in Int /\ durable <= Len(links) /\ durable - 1 \in Int
        /\ Len(links) - 1 \in Int /\ durable - 1 <= Len(links) - 1
    BY VisibleFacts DEF IInv
  <2>2. ASSUME NEW s \in succeeded
        PROVE  Linked(s.attempt, Len(links)) /\ (s.from # None => Linked(s.from, Len(links) - 1))
    <3>1. Linked(s.attempt, durable) /\ (s.from # None => Linked(s.from, durable - 1))
      BY DEF IInv, SuccessOK
    <3> QED BY <2>1, <3>1, LinkedMonotone DEF IInv
  <2>3. /\ Linked(r.attempt, Len(links)) /\ (r.from # None => Linked(r.from, Len(links) - 1))
        /\ r.portal = p /\ r.from = x
    BY <1>2, <1>3
  <2> HIDE DEF r
  <2>4. PICK n : n = Len(links)
    OBVIOUS
  <2>5. \A s \in succeeded' : Linked(s.attempt, n)' /\ (s.from # None => Linked(s.from, n - 1)')
    BY <1>1, <1>8, <2>2, <2>3, <2>4
  <2>6. OneRefreshPerSnapshot'
    <3>1. \A s \in succeeded : s.portal = p /\ x # None => s.from # x
      BY <1>3
    <3> QED BY <1>1, <2>3, <3>1 DEF IInv, SuccessOK, OneRefreshPerSnapshot
  <2> QED BY <1>1, <2>4, <2>5, <2>6 DEF SuccessOK
<1>10. Past
  BY <1>1, PastSame DEF IInv, bounds
<1>11. ASSUME NEW i \in Pages
       PROVE  PageOK(i)' /\ (page[i].pc = "shown" =>
                                page'[i].pc = "shown" /\ page'[i].shown = page[i].shown)
  <2>1. page[i] \in PageStates /\ PageOK(i)
    BY DEF IInv, TypeOK
  <2>2. page'[i].pc = page[i].pc /\ page'[i].shown = page[i].shown
    BY <1>5, <2>1 DEF SamePage, PageStates
  <2>3. page[i].pc \in {"open", "flag"} /\ i \notin raced' =>
            page[i].portal \in Portals /\ page[i].portal # p
    BY <1>1, <2>1 DEF PageOK, InFlight
  <2> QED BY <1>1, <1>5, <1>6, <1>10, <2>2, <2>3, PageKept
<1>12. ASSUME NEW q \in Portals \ {p} PROVE SavingOK(q)' /\ FormOK(q)' /\ PortalOK(q)'
  <2>1. \A s \in succeeded' : s \in succeeded \/ s.portal # q
    BY <1>1
  <2> QED BY <1>1, <1>4, <1>6, <1>10, <1>11, <2>1, PortalKept DEF OthersRename
<1>13. SavingOK(p)' /\ FormOK(p)'
  BY <1>4 DEF SavingOK, FormOK, Saving, Committed
<1>14. PortalOK(p)'
  BY <1>1, <1>2, <1>8 DEF IInv, PortalOK, bounds
<1> QED BY <1>7, <1>8, <1>9, <1>11, <1>12, <1>13, <1>14 DEF IInv

----------------------------------------------------------------------------
(* Kills, power failures, time                                             *)

GonePage == [NewPage EXCEPT !.pc = "gone"]

LEMMA DieFacts ==
    ASSUME IInv, NEW ps \in SUBSET Portals, Die(ps)
    PROVE  /\ job' \in [Portals -> Jobs] /\ error' \in [Portals -> Errors]
           /\ tokens' \in [Portals -> SUBSET Tokens(Pages, Attempts \cup {None}, 0..(MaxTime + Ttl))]
           /\ page' \in [Pages -> PageStates]
           /\ \A p \in ps : job'[p].pc = "down" /\ job'[p].page = None
           /\ \A p \in Portals \ ps : job'[p] = job[p] /\ error'[p] = error[p]
           /\ \A k \in Pages :
                 \/ page'[k] = page[k] /\ (page[k].pc \in {"open", "flag", "issue"} =>
                                              page[k].portal \in Portals \ ps)
                 \/ page'[k] = GonePage /\ page[k].pc # "shown"
<1>1. Waiting("down") \in Jobs /\ Waiting("down").pc = "down" /\ Waiting("down").page = None
  BY WaitingFacts DEF JobPcs
<1>2. /\ job' \in [Portals -> Jobs]
      /\ \A p \in ps : job'[p] = Waiting("down")
      /\ \A p \in Portals \ ps : job'[p] = job[p]
  BY <1>1 DEF Die, IInv, TypeOK
<1>3. /\ error' \in [Portals -> Errors]
      /\ \A p \in Portals \ ps : error'[p] = error[p]
  BY DEF Die, IInv, TypeOK, Errors
<1>4. tokens' \in [Portals -> SUBSET Tokens(Pages, Attempts \cup {None}, 0..(MaxTime + Ttl))]
  BY DEF Die, IInv, TypeOK
<1>5. GonePage \in PageStates
  BY DEF GonePage, NewPage, PageStates, PagePcs
<1>6. page' = [k \in Pages |-> IF k \in UNION {InFlight(p) : p \in ps} THEN GonePage ELSE page[k]]
  BY DEF Die, GonePage
<1>7. page' \in [Pages -> PageStates]
  BY <1>5, <1>6 DEF IInv, TypeOK
<1>8. ASSUME NEW k \in Pages
      PROVE  \/ page'[k] = page[k] /\ (page[k].pc \in {"open", "flag", "issue"} =>
                                          page[k].portal \in Portals \ ps)
             \/ page'[k] = GonePage /\ page[k].pc # "shown"
  <2>1. CASE k \in UNION {InFlight(p) : p \in ps}
    <3>1. PICK p \in ps : k \in InFlight(p)
      BY <2>1
    <3> QED BY <1>6, <2>1, <3>1 DEF InFlight
  <2>2. CASE k \notin UNION {InFlight(p) : p \in ps}
    <3>1. \A p \in ps : k \notin InFlight(p)
      BY <2>2
    <3>2. PageOK(k)
      BY DEF IInv
    <3> QED BY <1>6, <2>2, <3>1, <3>2 DEF InFlight, PageOK
  <2> QED BY <2>1, <2>2
<1> QED BY <1>1, <1>2, <1>3, <1>4, <1>7, <1>8

LEMMA GonePageOK == ASSUME NEW k \in Pages, page'[k] = GonePage PROVE PageOK(k)'
<1>1. page'[k].pc = "gone" /\ page'[k].seen = None /\ page'[k].shown = None
  BY DEF GonePage, NewPage
<1> QED BY <1>1 DEF PageOK

LEMMA KillIInv == ASSUME IInv, NEW p \in Portals, Kill(p) PROVE IInv'
<1>1. /\ UNCHANGED <<disk, now, attempts, posts, history>> /\ Die({p})
      /\ crashes' \in 0..MaxCrashes
  BY BoundsAssumption DEF Kill, IInv, TypeOK
<1>2. /\ job' \in [Portals -> Jobs] /\ error' \in [Portals -> Errors]
      /\ tokens' \in [Portals -> SUBSET Tokens(Pages, Attempts \cup {None}, 0..(MaxTime + Ttl))]
      /\ page' \in [Pages -> PageStates]
      /\ job'[p].pc = "down" /\ job'[p].page = None
      /\ \A q \in Portals \ {p} : job'[q] = job[q] /\ error'[q] = error[q]
      /\ \A k \in Pages :
            \/ page'[k] = page[k] /\ (page[k].pc \in {"open", "flag", "issue"} =>
                                         page[k].portal \in Portals \ {p})
            \/ page'[k] = GonePage /\ page[k].pc # "shown"
  BY <1>1, DieFacts
<1>3. TypeOK'
  BY <1>1, <1>2 DEF IInv, TypeOK, disk, history, Saving
<1>4. Past
  BY <1>1, PastSame DEF IInv, disk, history
<1>5. LinksOK' /\ SuccessOK'
  BY <1>1, <1>4, SameLinks DEF IInv, disk, history
<1>6. ASSUME NEW k \in Pages
      PROVE  PageOK(k)' /\ (page[k].pc = "shown" =>
                               page'[k].pc = "shown" /\ page'[k].shown = page[k].shown)
  <2>1. CASE page'[k] = GonePage /\ page[k].pc # "shown"
    BY <2>1, GonePageOK
  <2>2. CASE page'[k] = page[k] /\ (page[k].pc \in {"open", "flag", "issue"} =>
                                       page[k].portal \in Portals \ {p})
    <3>1. SamePage(k)
      BY <2>2 DEF SamePage, IInv, TypeOK, PageStates
    <3> QED BY <1>1, <1>2, <1>4, <2>2, <3>1, PageKept DEF disk, history
  <2> QED BY <1>2, <2>1, <2>2
<1>7. ASSUME NEW q \in Portals \ {p} PROVE SavingOK(q)' /\ FormOK(q)' /\ PortalOK(q)'
  BY <1>1, <1>2, <1>4, <1>6, PortalKept DEF OthersRename, disk, history
<1>8. SavingOK(p)' /\ FormOK(p)' /\ PortalOK(p)'
  BY <1>1, <1>2 DEF IInv, SavingOK, FormOK, PortalOK, Saving, Committed, Serving, history
<1> QED BY <1>3, <1>5, <1>6, <1>7, <1>8 DEF IInv

LEMMA PowerFailureIInv == IInv /\ PowerFailure => IInv'
<1> SUFFICES ASSUME IInv, PowerFailure PROVE IInv'
    OBVIOUS
<1>1. /\ UNCHANGED <<now, attempts, posts, history>> /\ Die(Portals)
      /\ crashes' \in 0..MaxCrashes
      /\ bytes' = [g \in Attempts |-> IF bytes[g] = "whole" THEN "partial" ELSE bytes[g]]
  BY BoundsAssumption DEF PowerFailure, IInv, TypeOK
<1>2. PICK n \in durable..Len(links) : links' = SubSeq(links, 1, n) /\ durable' = n
  BY DEF PowerFailure
<1>3. /\ job' \in [Portals -> Jobs] /\ error' \in [Portals -> Errors]
      /\ tokens' \in [Portals -> SUBSET Tokens(Pages, Attempts \cup {None}, 0..(MaxTime + Ttl))]
      /\ page' \in [Pages -> PageStates]
      /\ \A p \in Portals : job'[p].pc = "down" /\ job'[p].page = None
      /\ \A k \in Pages :
            \/ page'[k] = page[k] /\ page[k].pc \notin {"open", "flag", "issue"}
            \/ page'[k] = GonePage
  BY <1>1, DieFacts
<1>4. /\ links \in Seq(Attempts) /\ durable \in 0..Len(links) /\ Len(links) \in Nat
      /\ n \in 0..Len(links) /\ durable <= n
  BY VisibleFacts DEF IInv, TypeOK
<1>5. /\ links' \in Seq(Attempts) /\ Len(links') = n
      /\ \A i \in 1..n : i \in 1..Len(links) /\ links'[i] = links[i] /\ links[i] \in Attempts
  BY <1>2, <1>4
<1>6. /\ bytes' \in [Attempts -> {"none", "partial", "whole", "synced"}]
      /\ \A g \in Attempts : bytes[g] = "synced" => bytes'[g] = "synced"
  BY <1>1 DEF IInv, TypeOK
<1>7. TypeOK'
  <2>1. durable' \in 0..Len(links')
    BY <1>2, <1>4, <1>5
  <2> QED BY <1>1, <1>3, <1>5, <1>6, <2>1 DEF IInv, TypeOK, history, Saving
<1>8. LinksOK'
  BY <1>1, <1>5, <1>6 DEF IInv, LinksOK
<1>9. SuccessOK'
  <2>1. ASSUME NEW x, NEW m \in Int, m <= durable, Linked(x, m) PROVE \A l \in Int : m <= l => Linked(x, l)'
    <3>1. PICK i \in 1..Len(links) : i <= m /\ links[i] = x
      BY <2>1 DEF Linked
    <3>2. i \in 1..Len(links') /\ links'[i] = x /\ i \in Int
      BY <1>4, <1>5, <2>1, <3>1
    <3> QED BY <2>1, <3>1, <3>2 DEF Linked
  <2>2. PICK d \in Int : d = n /\ durable <= d /\ durable - 1 <= d - 1 /\ durable - 1 \in Int
                         /\ d - 1 \in Int /\ durable \in Int /\ durable - 1 <= durable
    BY <1>4
  <2>3. \A r \in succeeded : Linked(r.attempt, d)' /\ (r.from # None => Linked(r.from, d - 1)')
    <3> SUFFICES ASSUME NEW r \in succeeded
                 PROVE  Linked(r.attempt, d)' /\ (r.from # None => Linked(r.from, d - 1)')
      OBVIOUS
    <3>1. Linked(r.attempt, durable) /\ (r.from # None => Linked(r.from, durable - 1))
      BY DEF IInv, SuccessOK
    <3> QED BY <2>1, <2>2, <3>1
  <2> QED BY <1>1, <1>2, <2>2, <2>3 DEF IInv, SuccessOK, OneRefreshPerSnapshot, history
<1>10. \A p \in Portals : SavingOK(p)' /\ FormOK(p)' /\ PortalOK(p)'
  BY <1>1, <1>3 DEF IInv, SavingOK, FormOK, PortalOK, Saving, Committed, Serving, history
<1>11. ASSUME NEW k \in Pages PROVE PageOK(k)'
  <2>1. CASE page'[k] = GonePage
    BY <2>1, GonePageOK
  <2>2. CASE page'[k] = page[k] /\ page[k].pc \notin {"open", "flag", "issue"}
    <3>1. PageOK(k)
      BY DEF IInv
    <3>2. PICK x : x = page[k].shown
      OBVIOUS
    <3>3. Recent(k, x)' <=> Recent(k, x)
      BY <1>1, <2>2 DEF Recent, history
    <3> QED BY <1>1, <2>2, <3>1, <3>2, <3>3 DEF PageOK, history
  <2> QED BY <1>3, <2>1, <2>2
<1> QED BY <1>7, <1>8, <1>9, <1>10, <1>11 DEF IInv

LEMMA TickIInv == IInv /\ (Tick \/ UNCHANGED vars) => IInv'
<1> SUFFICES ASSUME IInv, Tick \/ UNCHANGED vars PROVE IInv'
    OBVIOUS
<1>1. UNCHANGED <<disk, error, tokens, job, page, attempts, posts, crashes, history>>
  BY DEF Tick, vars, disk, bounds
<1>2. now' \in 0..MaxTime
  BY BoundsAssumption DEF Tick, vars, bounds, IInv, TypeOK
<1>3. TypeOK'
  BY <1>1, <1>2 DEF IInv, TypeOK, disk, history
<1>4. LinksOK' /\ SuccessOK'
  BY <1>1 DEF IInv, LinksOK, SuccessOK, Linked, OneRefreshPerSnapshot, disk, history
<1>5. \A p \in Portals : SavingOK(p)' /\ FormOK(p)' /\ PortalOK(p)'
  BY <1>1 DEF IInv, SavingOK, FormOK, PortalOK, Linked, Visible, Serving, disk, history
<1>6. \A k \in Pages : PageOK(k)'
  BY <1>1 DEF IInv, PageOK, Recent, Visible, disk, history
<1> QED BY <1>3, <1>4, <1>5, <1>6 DEF IInv

----------------------------------------------------------------------------
(* The theorems                                                            *)

LEMMA NextIInv == IInv /\ [Next]_vars => IInv'
<1> SUFFICES ASSUME IInv, [Next]_vars PROVE IInv'
    OBVIOUS
<1>1. ASSUME NEW p \in Portals, Start(p) \/ RefreshStep(p) \/ PostStep(p) \/ Kill(p)
      PROVE  IInv'
  <2>1. CASE RefreshStep(p)
    BY <2>1, DiscoverIInv, FailsIInv, WriteTemporaryIInv, ReplaceIInv, SyncDirectoryIInv
    DEF RefreshStep
  <2>2. CASE PostStep(p)
    BY <2>2, StatCurrentIInv, CompareIInv, ConsumeTokenIInv DEF PostStep
  <2> QED BY <1>1, <2>1, <2>2, StartIInv, KillIInv
<1>2. ASSUME NEW p \in Portals, NEW k \in Pages, View(k, p) \/ Submit(k, p) PROVE IInv'
  BY <1>2, ViewIInv, SubmitIInv
<1>3. ASSUME NEW k \in Pages, PageStep(k) PROVE IInv'
  BY <1>3, OpenSnapshotIInv, FlagIInv, IssueTokenIInv DEF PageStep
<1> QED BY <1>1, <1>2, <1>3, PowerFailureIInv, TickIInv DEF Next

LEMMA Invariance == Spec => []IInv
<1> QED BY InitIInv, NextIInv, PTL DEF Spec

(* The variables keep their types.                                         *)
THEOREM TypeCorrect == Spec => []TypeOK
<1>1. IInv => TypeOK
  BY DEF IInv
<1> QED BY <1>1, Invariance, PTL

(* After a refresh was reported as successful, its snapshot stays among    *)
(* the renamed files: neither kills nor power failures take it back.       *)
THEOREM SuccessesAreKept == Spec => []SuccessIsKept
<1>1. IInv => SuccessIsKept
  BY DEF IInv, SuccessOK, SuccessIsKept, Linked
<1> QED BY <1>1, Invariance, PTL

(* A page says that there is no inventory although there was one only if a *)
(* refresh put another in place while the page was read.                   *)
THEOREM UnavailableIsARace == Spec => []UnavailableOnlyByRace
<1>1. IInv => UnavailableOnlyByRace
  BY DEF IInv, PageOK, UnavailableOnlyByRace, Rendered
<1> QED BY <1>1, Invariance, PTL

(* A page without a warning shows nothing of its own Portal's that is from *)
(* before the last failed refresh.                                         *)
THEOREM UnflaggedPagesAreCurrent == Spec => []UnflaggedIsCurrent
<1>1. IInv => UnflaggedIsCurrent
  BY DEF IInv, PageOK, Recent, UnflaggedIsCurrent, Rendered
<1> QED BY <1>1, Invariance, PTL

(* At most one of the forms that show a snapshot leads a Portal to a       *)
(* successful refresh.                                                     *)
THEOREM RefreshedOnce == Spec => []OneRefreshPerSnapshot
<1>1. IInv => OneRefreshPerSnapshot
  BY DEF IInv, SuccessOK
<1> QED BY <1>1, Invariance, PTL

=============================================================================
