SPECIFICATION Spec
SYMMETRY Symmetry
CONSTANTS
  a1 = a1
  a2 = a2
  a3 = a3
  Accounts = {a1, a2}
  Enrolled <- PoolOfTwo
  Conversations = {c1}
  Requests = {r1, r2}
  Probes = {}
  Families = {claude}
  Kinds = {"network-error"}
  Levels = {}
  Proxied = {}
  DiskFails = FALSE
  NoAccount = none
  MaxInFlight = 1
  BackoffTicks = 1
  LimitTicks = 1
  VerifyTicks = 1
  QuotaTicks = 2
  Resets = {0}
  Horizon = 0
  MaxEdits = 0
CHECK_DEADLOCK FALSE
PROPERTIES FitAccountsAreTriedBeforeGivingUp
