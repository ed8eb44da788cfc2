-------------------------- MODULE MC_RecordStore ---------------------------
(* Two processes racing over two names with two payloads; four calls, one  *)
(* power failure.                                                          *)
EXTENDS RecordStore, TLC

CONSTANTS p1, p2, n1, n2, v1, v2

MCProcs == {p1, p2}
MCNames == {n1, n2}
MCPayloads == {v1, v2}

Symmetry == Permutations(MCProcs) \cup Permutations(MCNames) \cup Permutations(MCPayloads)

=============================================================================
