--------------------------- MODULE InventoryPortal ---------------------------
(***************************************************************************)
(* The runtime inventory: Portals that discover the installed skills, save *)
(* the result in state_root/runtime-inventory/snapshot.json and show it.   *)
(* In a Portal, threads of a pool render pages while the event loop        *)
(* handles one refresh form at a time; several Portals can share the file. *)
(*                                                                         *)
(* Every refresh attempt has a number, later ones a higher one.  A         *)
(* snapshot is the attempt that discovered it: its time of generation      *)
(* makes its digest its own.                                               *)
(***************************************************************************)
EXTENDS TokenStore, Sequences

CONSTANTS Portals,
          Pages,       \* the inventory pages that are requested
          None,        \* "nothing there"
          MaxAttempts, \* bound on refresh attempts
          MaxPosts,    \* bound on the forms sent
          MaxTime,     \* bound on the clock
          MaxCrashes   \* bound on killed Portals and power failures

ASSUME NoneAssumption == None \notin Nat \cup Portals \cup Pages
ASSUME BoundsAssumption ==
    MaxAttempts \in Nat /\ MaxPosts \in Nat /\ MaxTime \in Nat /\ MaxCrashes \in Nat

VARIABLES links,    \* the files that were renamed to snapshot.json, oldest first
          durable,  \* how many of these renames survive a power failure
          bytes,    \* bytes[g]: what is in attempt g's file
          error,    \* error[p]: _last_refresh_error, in memory
          tokens,   \* tokens[p]: the refresh tokens, in memory
          job,      \* job[p]: what Portal p's event loop is doing
          page,     \* page[k]: a page, from its request to the browser
          now, attempts, posts, crashes,
          finder,     \* history: finder[g]: the Portal that discovered snapshot g
          succeeded,  \* history: the refreshes reported as successful
          failed,     \* history: failed[p]: Portal p's last failed attempt
          raced       \* history: pages overtaken by a rename, or by a success

disk == <<links, durable, bytes>>
bounds == <<now, attempts, posts, crashes>>
history == <<finder, succeeded, failed, raced>>
vars == <<links, durable, bytes, error, tokens, job, page, bounds, history>>

Attempts == 1..MaxAttempts
Errors == {"none", "discovery_failed", "persistence_failed"}

Saving == {"write", "replace", "syncdir"}
JobPcs == {"down", "idle", "stat", "open", "consume", "discover"} \cup Saving
Jobs == [pc : JobPcs, page : Pages \cup {None}, seen : Attempts \cup {None},
         attempt : Attempts \cup {None}]

Waiting(pc) == [pc |-> pc, page |-> None, seen |-> None, attempt |-> None]

\* "seen" is the file that stat found, "shown" the snapshot that was read,
\* "after" the Portal's last failure when the page was requested.
PagePcs == {"none", "open", "flag", "issue", "shown", "gone"}
PageStates == [pc : PagePcs, portal : Portals \cup {None}, seen : Attempts \cup {None},
               shown : Attempts \cup {None}, stale : BOOLEAN, form : BOOLEAN,
               after : Attempts \cup {0}, told : {"nothing", "refreshed", "failed", "rejected"}]

NewPage == [pc |-> "none", portal |-> None, seen |-> None, shown |-> None, stale |-> FALSE,
            form |-> FALSE, after |-> 0, told |-> "nothing"]

TypeOK ==
    /\ links \in Seq(Attempts) /\ durable \in 0..Len(links)
    /\ bytes \in [Attempts -> {"none", "partial", "whole", "synced"}]
    /\ error \in [Portals -> Errors]
    /\ tokens \in [Portals -> SUBSET Tokens(Pages, Attempts \cup {None}, 0..(MaxTime + Ttl))]
    /\ job \in [Portals -> Jobs]
    /\ \A p \in Portals : job[p].pc \in Saving => job[p].attempt # None
    /\ page \in [Pages -> PageStates]
    /\ now \in 0..MaxTime /\ attempts \in 0..MaxAttempts
    /\ posts \in 0..MaxPosts /\ crashes \in 0..MaxCrashes
    /\ finder \in [Attempts -> Portals \cup {None}]
    /\ succeeded \in SUBSET [portal : Portals, from : Attempts \cup {None}, attempt : Attempts]
    /\ failed \in [Portals -> 0..MaxAttempts]
    /\ raced \in SUBSET Pages

Init ==
    /\ links = <<>> /\ durable = 0 /\ bytes = [g \in Attempts |-> "none"]
    /\ error = [p \in Portals |-> "none"]
    /\ tokens = [p \in Portals |-> {}]
    /\ job = [p \in Portals |-> Waiting("down")]
    /\ page = [k \in Pages |-> NewPage]
    /\ now = 0 /\ attempts = 0 /\ posts = 0 /\ crashes = 0
    /\ finder = [g \in Attempts |-> None]
    /\ succeeded = {} /\ failed = [p \in Portals |-> 0] /\ raced = {}

\* The file that is snapshot.json.
Visible == IF links = <<>> THEN None ELSE links[Len(links)]

\* What an open of the file finds that stat found before: nothing if it is
\* another file by now, or not a snapshot with a matching digest.
Found(seen) == IF Visible = seen /\ bytes[seen] \in {"whole", "synced"} THEN seen ELSE None

Become(p, j) == job' = [job EXCEPT ![p] = j]
Goto(p, pc) == Become(p, [job[p] EXCEPT !.pc = pc])
PageBecomes(k, s) == page' = [page EXCEPT ![k] = s]

\* The first refresh comes before the Portal serves anything.
Serving(p) == job[p].pc # "down" /\ (job[p].pc = "idle" \/ job[p].page # None)

\* Pages of Portal p that are being rendered.
InFlight(p) == {k \in Pages : page[k].portal = p /\ page[k].pc \in {"open", "flag", "issue"}}

----------------------------------------------------------------------------
(* RuntimeInventoryService.refresh and RuntimeInventoryStore.save          *)

\* Mutant: the Portal serves what it finds, without a refresh first.
StartWithoutRefresh(p) ==
    /\ job[p].pc = "down"
    /\ Become(p, Waiting("idle"))
    /\ UNCHANGED <<disk, error, tokens, page, bounds, history>>

Start(p) ==
    /\ job[p].pc = "down"
    /\ Become(p, Waiting("discover"))
    /\ UNCHANGED <<disk, error, tokens, page, bounds, history>>

Told(p, t) == page' = IF job[p].page = None THEN page ELSE [page EXCEPT ![job[p].page].told = t]

\* A failure is remembered until a refresh succeeds.
Fail(p, code, g) ==
    /\ error' = [error EXCEPT ![p] = code]
    /\ failed' = [failed EXCEPT ![p] = g]
    /\ Become(p, Waiting("idle")) /\ Told(p, "failed")

Discover(p) ==
    /\ job[p].pc = "discover" /\ attempts < MaxAttempts
    /\ attempts' = attempts + 1
    /\ Become(p, [job[p] EXCEPT !.pc = "write", !.attempt = attempts'])
    /\ finder' = [finder EXCEPT ![attempts'] = p]
    /\ UNCHANGED <<disk, error, tokens, page, now, posts, crashes, succeeded, failed, raced>>

DiscoveryFails(p) ==
    /\ job[p].pc = "discover" /\ attempts < MaxAttempts
    /\ attempts' = attempts + 1
    /\ Fail(p, "discovery_failed", attempts')
    /\ UNCHANGED <<disk, tokens, now, posts, crashes, finder, succeeded, raced>>

\* Mutant: the temporary file is not synced.
WriteUnsynced(p) ==
    /\ job[p].pc = "write"
    /\ bytes' = [bytes EXCEPT ![job[p].attempt] = "whole"]
    /\ Goto(p, "replace")
    /\ UNCHANGED <<links, durable, error, tokens, page, bounds, history>>

\* write and fsync: nobody looks at the temporary file before it is renamed
WriteTemporary(p) ==
    /\ job[p].pc = "write"
    /\ bytes' = [bytes EXCEPT ![job[p].attempt] = "synced"]
    /\ Goto(p, "replace")
    /\ UNCHANGED <<links, durable, error, tokens, page, bounds, history>>

\* The target is no regular file, a call fails: the temporary file is removed.
SaveFails(p) ==
    /\ job[p].pc \in {"write", "replace"}
    /\ Fail(p, "persistence_failed", job[p].attempt)
    /\ UNCHANGED <<disk, tokens, bounds, finder, succeeded, raced>>

Replace(p) ==
    /\ job[p].pc = "replace"
    /\ links' = Append(links, job[p].attempt)
    /\ raced' = raced \cup {k \in Pages : page[k].pc = "open"}
    /\ Goto(p, "syncdir")
    /\ UNCHANGED <<durable, bytes, error, tokens, page, bounds, finder, succeeded, failed>>

Succeed(p) ==
    /\ error' = [error EXCEPT ![p] = "none"]
    /\ succeeded' = succeeded \cup
          {[portal |-> p, attempt |-> job[p].attempt,
            from |-> IF job[p].page = None THEN None ELSE page[job[p].page].shown]}
    /\ raced' = raced \cup InFlight(p)
    /\ Become(p, Waiting("idle")) /\ Told(p, "refreshed")

\* Mutant: the directory is not synced.
SucceedUnsynced(p) ==
    /\ job[p].pc = "syncdir"
    /\ Succeed(p)
    /\ UNCHANGED <<disk, tokens, bounds, finder, failed>>

SyncDirectory(p) ==
    /\ job[p].pc = "syncdir"
    /\ durable' = Len(links)
    /\ Succeed(p)
    /\ UNCHANGED <<links, bytes, tokens, bounds, finder, failed>>

\* The new snapshot is in place, the refresh is reported as failed.
SyncDirectoryFails(p) ==
    /\ job[p].pc = "syncdir"
    /\ Fail(p, "persistence_failed", job[p].attempt)
    /\ UNCHANGED <<disk, tokens, bounds, finder, succeeded, raced>>

RefreshStep(p) ==
    \/ Discover(p) \/ DiscoveryFails(p) \/ WriteTemporary(p)
    \/ SaveFails(p) \/ Replace(p) \/ SyncDirectory(p) \/ SyncDirectoryFails(p)

----------------------------------------------------------------------------
(* GET /: RuntimeInventoryStore.read, RuntimeInventoryService.read         *)

\* stat
View(k, p) ==
    /\ page[k].pc = "none" /\ Serving(p)
    /\ PageBecomes(k, [NewPage EXCEPT !.pc = IF Visible = None THEN "flag" ELSE "open",
                                      !.portal = p, !.seen = Visible, !.after = failed[p]])
    /\ UNCHANGED <<disk, error, tokens, job, bounds, history>>

\* open, fstat, read
OpenSnapshot(k) ==
    /\ page[k].pc = "open"
    /\ PageBecomes(k, [page[k] EXCEPT !.pc = "flag", !.shown = Found(page[k].seen)])
    /\ UNCHANGED <<disk, error, tokens, job, bounds, history>>

Flag(k) ==
    /\ page[k].pc = "flag"
    /\ PageBecomes(k, [page[k] EXCEPT !.pc = "issue",
                         !.stale = page[k].shown # None /\ error[page[k].portal] # "none"])
    /\ UNCHANGED <<disk, error, tokens, job, bounds, history>>

IssueToken(k) ==
    /\ page[k].pc = "issue"
    /\ LET p == page[k].portal  room == HasRoom(tokens[p], now) IN
          /\ tokens' = [tokens EXCEPT ![p] =
                           IF room THEN Issued(@, now, k, page[k].shown) ELSE Unexpired(@, now)]
          /\ PageBecomes(k, [page[k] EXCEPT !.pc = "shown", !.form = room])
    /\ UNCHANGED <<disk, error, job, bounds, history>>

PageStep(k) == OpenSnapshot(k) \/ Flag(k) \/ IssueToken(k)

----------------------------------------------------------------------------
(* POST /inventory/refresh                                                 *)

\* The form of a page is sent, perhaps again.
Submit(k, p) ==
    /\ page[k].pc = "shown" /\ page[k].form /\ page[k].portal = p
    /\ job[p].pc = "idle" /\ posts < MaxPosts
    /\ posts' = posts + 1
    /\ Become(p, [Waiting("stat") EXCEPT !.page = k])
    /\ UNCHANGED <<disk, error, tokens, page, now, attempts, crashes, history>>

StatCurrent(p) ==
    /\ job[p].pc = "stat"
    /\ Become(p, [job[p] EXCEPT !.pc = "open", !.seen = Visible])
    /\ UNCHANGED <<disk, error, tokens, page, bounds, history>>

Current(p) == IF job[p].seen = None THEN None ELSE Found(job[p].seen)

\* Mutant: the page's snapshot is not compared with the current one.
CompareNothing(p) ==
    /\ job[p].pc = "open"
    /\ Goto(p, "consume")
    /\ UNCHANGED <<disk, error, tokens, page, bounds, history>>

Compare(p) ==
    /\ job[p].pc = "open"
    /\ IF page[job[p].page].shown = Current(p)
       THEN Goto(p, "consume") /\ UNCHANGED page
       ELSE Become(p, Waiting("idle")) /\ Told(p, "rejected")
    /\ UNCHANGED <<disk, error, tokens, bounds, history>>

ConsumeToken(p) ==
    /\ job[p].pc = "consume"
    /\ LET k == job[p].page IN
       IF Accepts(tokens[p], now, k, page[k].shown)
       THEN /\ tokens' = [tokens EXCEPT ![p] = Consumed(@, now, k)]
            /\ Goto(p, "discover") /\ UNCHANGED page
       ELSE /\ tokens' = [tokens EXCEPT ![p] = Unexpired(@, now)]
            /\ Become(p, Waiting("idle")) /\ Told(p, "rejected")
    /\ UNCHANGED <<disk, error, bounds, history>>

PostStep(p) == StatCurrent(p) \/ Compare(p) \/ ConsumeToken(p)

----------------------------------------------------------------------------
(* The environment                                                         *)

\* Portals in "ps" lose what they had in memory, and the pages they render.
Die(ps) ==
    /\ job' = [p \in Portals |-> IF p \in ps THEN Waiting("down") ELSE job[p]]
    /\ error' = [p \in Portals |-> IF p \in ps THEN "none" ELSE error[p]]
    /\ tokens' = [p \in Portals |-> IF p \in ps THEN {} ELSE tokens[p]]
    /\ page' = [k \in Pages |-> IF k \in UNION {InFlight(p) : p \in ps}
                                THEN [NewPage EXCEPT !.pc = "gone"] ELSE page[k]]

Kill(p) ==
    /\ crashes < MaxCrashes /\ job[p].pc # "down"
    /\ crashes' = crashes + 1
    /\ Die({p})
    /\ UNCHANGED <<disk, now, attempts, posts, history>>

\* Renames that were not synced may be undone, and bytes be cut short.
PowerFailure ==
    /\ crashes < MaxCrashes
    /\ crashes' = crashes + 1
    /\ Die(Portals)
    /\ \E n \in durable..Len(links) : links' = SubSeq(links, 1, n) /\ durable' = n
    /\ bytes' = [g \in Attempts |-> IF bytes[g] = "whole" THEN "partial" ELSE bytes[g]]
    /\ UNCHANGED <<now, attempts, posts, history>>

Tick ==
    /\ now < MaxTime
    /\ now' = now + 1
    /\ UNCHANGED <<disk, error, tokens, job, page, attempts, posts, crashes, history>>

Next ==
    \/ \E p \in Portals :
          \/ Start(p) \/ RefreshStep(p) \/ PostStep(p) \/ Kill(p)
          \/ \E k \in Pages : View(k, p) \/ Submit(k, p)
    \/ \E k \in Pages : PageStep(k)
    \/ PowerFailure
    \/ Tick

Spec == Init /\ [][Next]_vars

----------------------------------------------------------------------------
(* Properties                                                              *)

Rendered(k) == page[k].pc \in {"issue", "shown"}

(* After a refresh that was reported as successful the file never goes     *)
(* back to a snapshot from before it.                                      *)
SuccessIsKept == \A r \in succeeded : \E i \in 1..Len(links) : links[i] = r.attempt

(* A page finds no snapshot, although there was one when it was requested, *)
(* only if a refresh replaced it during that very request.                 *)
UnavailableOnlyByRace ==
    \A k \in Pages : Rendered(k) /\ page[k].seen # None /\ page[k].shown = None => k \in raced

(* After a refresh failed, pages warn that their data may be out of date   *)
(* until a refresh succeeds: a page without the warning shows nothing that *)
(* its Portal found before the last failure the request could know of.     *)
UnflaggedIsCurrent ==
    \A k \in Pages \ raced :
        /\ Rendered(k) /\ page[k].shown # None /\ ~page[k].stale
        /\ finder[page[k].shown] = page[k].portal
        => page[k].shown > page[k].after

(* A snapshot is refreshed once: of all the forms that show it, sent twice *)
(* or from several pages, one at most leads to a successful refresh.       *)
OneRefreshPerSnapshot ==
    \A r, s \in succeeded : r.portal = s.portal /\ r.from = s.from /\ r.from # None => r = s

(* A refresh that is reported as failed keeps the last successful result:  *)
(* if the page it was asked for from shows the snapshot of a refresh that  *)
(* succeeded, that snapshot is still the one in place.                     *)
FailedRefreshKeepsResult ==
    [][\A k \in Pages :
          /\ page[k].told = "nothing" /\ page'[k].told = "failed"
          /\ \E r \in succeeded : r.attempt = page[k].shown
          => Visible' = page[k].shown]_vars

=============================================================================
