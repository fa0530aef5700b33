SPECIFICATION Spec
CONSTANTS
  q1 = q1
  q2 = q2
  u1 = u1
  u2 = u2
  Users = {u1, u2}
  Requests = {q1, q2}
  Failures <- NoFailures
  MaxEvents = 2
  NoUser = NoUser
INVARIANT EmptyListForNewUser
