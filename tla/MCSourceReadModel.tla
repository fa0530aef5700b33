------------------------- MODULE MCSourceReadModel -------------------------
(***************************************************************************)
(* Values of SourceReadModel's constants for TLC.                           *)
(***************************************************************************)
EXTENDS SourceReadModel, TLC

CONSTANTS q1, q2, q3, f1, f2

AllFailures == FailureKinds
Symmetry == Permutations(Requests) \cup Permutations(Files)
===========================================================================
