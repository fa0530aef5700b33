----------------------------- MODULE MCSessions -----------------------------
(***************************************************************************)
(* Values of Sessions' constants for TLC.                                   *)
(***************************************************************************)
EXTENDS Sessions, TLC

CONSTANTS t1, t2, r1, ann, bob, secret

Symmetry == Permutations(Tabs)
AnnOnly == {[id |-> 1, login |-> ann, password |-> secret]}
AllFailures == FailureKinds
\* IdentityService's clock is behind the gateway's.
Behind == [r \in Replicas |-> -1]
=============================================================================
