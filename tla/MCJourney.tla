----------------------------- MODULE MCJourney -----------------------------
(***************************************************************************)
(* Values of Journey's constants for TLC.                                   *)
(***************************************************************************)
EXTENDS Journey, TLC

CONSTANTS p1, p2, q1, q2, g1, g2, g3, u

NoSkew == [p \in Replicas |-> 0]
Crashes == {"crash"}
Symmetry == Permutations(Guids) \cup Permutations(Queriers)
===========================================================================
