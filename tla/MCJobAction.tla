---------------------------- MODULE MCJobAction ----------------------------
(* A preview of two messages beside a report of one, for TLC. *)
EXTENDS JobAction, TLC

CONSTANTS p, d

MCMessages == [j \in Jobs |-> IF j = p THEN 2 ELSE 1]

RequestSymmetry == Permutations(Requests) \cup Permutations(Tabs)
=============================================================================
