---------------------------- MODULE MCModelCalls ----------------------------
(* ModelCalls for TLC: three calls of two operations compete for one slot. *)
EXTENDS ModelCalls, TLC

\* Each operation may have one call at a time until it is extended; the
\* campaign pays for two.
AllowanceOf == [a \in Accounts |-> IF a = Campaign THEN 2 ELSE 1]

Symmetry == Permutations(Calls) \cup Permutations(Ops)
=============================================================================
