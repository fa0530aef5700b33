SPECIFICATION Spec
CONSTANTS
  t1 = t1
  t2 = t2
  r1 = r1
  ann = ann
  bob = bob
  secret = secret
  Tabs = {t1, t2}
  Logins = {ann, bob}
  NewLogins = {bob}
  Passwords = {secret}
  MaxUsers = 3
  Seeds <- AnnOnly
  Replicas = {r1}
  Skew <- Behind
  Lifetime = 1
  Lists = {"dashboard"}
  Uploaders = {"dashboard"}
  Home = "dashboard"
  Failures <- AllFailures
  MaxTime = 1
  MaxTokens = 2
  MaxCalls = 2
INVARIANTS TypeOK AccountsAreUnique ListsBelongToSession
PROPERTIES SessionsLast
SYMMETRY Symmetry
