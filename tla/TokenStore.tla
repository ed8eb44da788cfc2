----------------------------- MODULE TokenStore ------------------------------
(***************************************************************************)
(* The one-time form tokens of the Portal (DecisionTokenStore and its      *)
(* wrapper InventoryRefreshTokenStore), as operators over a set of tokens. *)
(* Each is the body of a method under the store's lock; the caller has     *)
(* read the clock before it took the lock and passes what it read.         *)
(***************************************************************************)
EXTENDS Naturals, FiniteSets

CONSTANTS Ttl,       \* how long a token lives
          MaxTokens  \* how many a store holds

ASSUME LimitsAssumption == Ttl \in Nat \ {0} /\ MaxTokens \in Nat \ {0}

\* A token is the page it was issued for (secrets.token_urlsafe gives every
\* page its own), and is bound to what the page's form is about.
Tokens(pages, bindings, times) == [page : pages, for : bindings, expires : times]

\* Mutant: a token that expires at this instant is still good.
UnexpiredInclusive(ts, t) == {x \in ts : t <= x.expires}

Unexpired(ts, t) == {x \in ts : t < x.expires}

HasRoom(ts, t) == Cardinality(Unexpired(ts, t)) < MaxTokens

Issued(ts, t, k, b) == Unexpired(ts, t) \cup {[page |-> k, for |-> b, expires |-> t + Ttl]}

Accepts(ts, t, k, b) == \E x \in Unexpired(ts, t) : x.page = k /\ x.for = b

\* Mutant: a token that was used stays.
ConsumedStays(ts, t, k) == Unexpired(ts, t)

Consumed(ts, t, k) == {x \in Unexpired(ts, t) : x.page # k}

=============================================================================
