SPECIFICATION AllSpec
SYMMETRY Symmetry
CONSTANTS
  Part = {"accounts", "recent", "models", "credentials"}
  Loads = {l1, l2}
  Mutations = {m1, m2, m3}
  NoOp = nobody
  NoId = noid
  Created = created
  Absent = absent
  NoReply = noreply
  FirstFiles = {"absent", "legacy"}
  MayStall = FALSE
  Procs = {p1, p2}
  Ghost = ghost
  Whats = {w1}
  LastTime = 3
  RingMax = 2
  FlushEvery = 2
  MaxCaptures = 2
  MaxFaults = 1
  MaxEnds = 1
  Instances = {i1, i2}
  Models = {x1, x2}
  Partial = partial
  None = none
  MaxToggles = 3
  Plugins = {s1, s2}
  Tools = {t1}
  Earlier = earlier
  NoKey = nokey
  Others = {r1}
CHECK_DEADLOCK FALSE
INVARIANTS AllTypesOK WritersExclude FileKeepsTheNewest CapturesSurvive NoToggleIsLost AccountsStayReadable
PROPERTIES IsAtomic AnswersFollowTheFile CredentialsSurvive
