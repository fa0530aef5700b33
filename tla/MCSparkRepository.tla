------------------------- MODULE MCSparkRepository -------------------------
(***************************************************************************)
(* Values of SparkRepository's constants for TLC.                           *)
(***************************************************************************)
EXTENDS SparkRepository, TLC

CONSTANTS s1, s2, s3, d0, d1, d2

AllFailures == FailureKinds
NoFailures == {}

ScriptSymmetry == Permutations(Scripts)
===========================================================================
