SPECIFICATION FairSpec
CONSTANTS
  p1 = p1
  p2 = p2
  g1 = g1
  g2 = g2
  Users = {u}
  Guids = {g1, g2}
  EmptyGuid = EmptyGuid
  Replicas = {p1, p2}
  Skew <- NoSkew
  Faults <- ReplicaLoss
  MaxCommands = 1
  MaxDeliveries = 2
  None = None
INVARIANTS NoneStuck
PROPERTIES OperationsSpec EveryCommandSettles
