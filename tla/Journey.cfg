SPECIFICATION JourneySpec
CONSTANTS
  p1 = p1
  p2 = p2
  q1 = q1
  q2 = q2
  g1 = g1
  g2 = g2
  g3 = g3
  u = u
  Users = {u}
  Me = u
  Guids = {g1, g2, g3}
  EmptyGuid = EmptyGuid
  Replicas = {p1}
  Skew <- NoSkew
  Faults <- Crashes
  MaxCommands = 2
  MaxDeliveries = 1
  None = None
  Queriers = {q1}
SYMMETRY Symmetry
INVARIANTS JourneyTypeOK NameLookupsFailOnlyForOthers NamesAreKnown OffersOwnUploads
PROPERTIES OverStaysOver
