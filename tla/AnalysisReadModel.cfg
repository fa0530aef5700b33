SPECIFICATION FairSpec
CONSTANTS
  q1 = q1
  q2 = q2
  u1 = u1
  u2 = u2
  Users = {u1, u2}
  Requests = {q1, q2}
  Failures <- AllFailures
  MaxEvents = 2
  NoUser = NoUser
INVARIANTS TypeOK CachedInOrder NothingSkipped CopiesBounded CacheIsFed AnswersNeverShrink AnswersAreWhole
PROPERTIES ViewSpec EventsAppear
