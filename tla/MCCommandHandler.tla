------------------------- MODULE MCCommandHandler -------------------------
(***************************************************************************)
(* Values of CommandHandler's constants for TLC: two replicas, two ids, one *)
(* user.                                                                    *)
(***************************************************************************)
EXTENDS CommandHandlerInv, TLC

CONSTANTS p1, p2, g1, g2

NoSkew == [p \in Replicas |-> 0]
\* p2's clock is behind by more than a handler takes.
SlowClock == [p \in Replicas |-> IF p = p2 THEN -3 ELSE 0]

AllFaults == FaultKinds
ReplicaLoss == {"crash", "disconnect"}
Outages == {"crash", "outage"}
NoFaults == {}

GuidSymmetry == Permutations(Guids)
===========================================================================
