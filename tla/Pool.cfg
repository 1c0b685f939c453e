SPECIFICATION AllSpec
SYMMETRY AllSymmetry
CONSTANTS
  a1 = a1
  a2 = a2
  a3 = a3
  Accounts = {a1, a2, a3}
  Enrolled <- PoolOfTwo
  Conversations = {c1}
  Requests = {r1, r2}
  Probes = {p1}
  Families = {claude}
  Kinds = {"auth-failure", "rate-limit", "quota"}
  Levels = {"headroom", "nearly", "spent", "revoked"}
  Proxied = {a1}
  DiskFails = TRUE
  NoAccount = none
  MaxInFlight = 1
  BackoffTicks = 1
  LimitTicks = 1
  VerifyTicks = 1
  QuotaTicks = 2
  Resets = {0}
  Horizon = 1
  MaxEdits = 1
  Stresses = {"requests", "edits", "readings", "quotas", "ranking"}
  gemini = gemini
  claude = claude
  QuotaFamilies = {gemini, claude}
  ModelAnswers <- SomeModels
  Summaries <- SomeSummaries
  Measurers = {p1}
  Measurements = {q1, q2}
  RollingSpan = 2
  ShortTtl = 0
  LowTtl = 1
  BlindTtl = 2
  LongTtl = 3
  LastTick = 4
  Standing = 2
  Walls <- SomeWalls
  Rolls <- SomeRolls
  Weeks <- SomeWeeks
  Better = {5, 100, 300, 500, 900}
  Day = 24
  RankTicks = 3
CHECK_DEADLOCK FALSE
INVARIANTS AllTypesOK ServedIsStillFit SpentFamiliesAreRemeasured RollingWindowsAreShort RetriesFindAnAccount MoreIsNeverWorse
PROPERTIES SelectionNeverLiftsAPark TestCallsLeaveThePoolAlone BlameStaysOnTheAccount CarriedWeeksSurvive
