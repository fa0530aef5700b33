------------------------ MODULE MCAnalysisReadModel ------------------------
(***************************************************************************)
(* Values of AnalysisReadModel's constants for TLC.                         *)
(***************************************************************************)
EXTENDS AnalysisReadModel

CONSTANTS q1, q2, u1, u2

AllFailures == FailureKinds
NoFailures == {}
===========================================================================
