SPECIFICATION Spec
CONSTANTS
  s1 = s1
  s2 = s2
  s3 = s3
  d0 = d0
  d1 = d1
  d2 = d2
  Users = {u}
  Guids = {d0, d1}
  EmptyGuid = EmptyGuid
  NoKind = NoKind
  Scripts = {s1, s2}
  Seed = {d0}
  Failures <- NoFailures
INVARIANT ReportedIsStored
