--------------------------- MODULE AppendOnlyLog ---------------------------
(***************************************************************************)
(* What DeploymentLedger promises: a sequence of distinct deployment ids   *)
(* that only grows at its end.  A caller that is told its entry is stored  *)
(* finds it there for ever; a write that was cut short closes the log, and *)
(* only a power failure that loses that write can open it again.           *)
(***************************************************************************)
EXTENDS Naturals, Sequences

CONSTANT Ids

VARIABLES log,     \* the ids of the entries, oldest first
          closed,  \* TRUE when the log ends in part of an entry
          told     \* the ids whose callers were told that they are stored

vars == <<log, closed, told>>

Init == log = <<>> /\ closed = FALSE /\ told = {}

IdsIn(s) == {s[i] : i \in 1..Len(s)}

AppendEntry(d) ==
    /\ ~closed
    /\ d \notin IdsIn(log)
    /\ log' = Append(log, d)
    /\ UNCHANGED <<closed, told>>

CutShort == closed' = TRUE /\ UNCHANGED <<log, told>>

Acknowledge(d) ==
    /\ d \in IdsIn(log)
    /\ told' = told \cup {d}
    /\ UNCHANGED <<log, closed>>

\* A power failure loses entries nobody was told about, and may cut the
\* first lost one short.
Lose(n) ==
    /\ log' = SubSeq(log, 1, n)
    /\ told \subseteq IdsIn(log')
    /\ closed' \in BOOLEAN
    /\ UNCHANGED told

Next ==
    \/ \E d \in Ids : AppendEntry(d) \/ Acknowledge(d)
    \/ CutShort
    \/ \E n \in 0..Len(log) : Lose(n)

Spec == Init /\ [][Next]_vars

=============================================================================
