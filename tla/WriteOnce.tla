----------------------------- MODULE WriteOnce -----------------------------
(***************************************************************************)
(* What DocumentRepository promises to the services that keep plans and    *)
(* approvals in it: a record is written once.  A call that publishes a     *)
(* record may fail to report success although the record is there, and a   *)
(* machine failure may lose a record nobody was told about; a record whose *)
(* publication was acknowledged stays, with that payload, for ever.        *)
(***************************************************************************)
CONSTANTS Names, Payloads, None

VARIABLES record,  \* record[n]: the payload readers find under name n, or None
          acked    \* acked[n]: the payload a caller was told is stored, or None

vars == <<record, acked>>

Init ==
    /\ record = [n \in Names |-> None]
    /\ acked = [n \in Names |-> None]

\* The record appears, whole, under a name that was free.
Publish(n, v) ==
    /\ record[n] = None
    /\ record' = [record EXCEPT ![n] = v]
    /\ UNCHANGED acked

\* The caller that published v under n is told so.
Acknowledge(n, v) ==
    /\ record[n] = v
    /\ acked[n] = None
    /\ acked' = [acked EXCEPT ![n] = v]
    /\ UNCHANGED record

\* A machine failure: records nobody was told about may be gone.
Lose(S) ==
    /\ \A n \in S : acked[n] = None
    /\ record' = [n \in Names |-> IF n \in S THEN None ELSE record[n]]
    /\ UNCHANGED acked

Next ==
    \/ \E n \in Names, v \in Payloads : Publish(n, v) \/ Acknowledge(n, v)
    \/ \E S \in SUBSET Names : Lose(S)

Spec == Init /\ [][Next]_vars

=============================================================================
