SPECIFICATION Spec
CONSTANTS
  Loads = {l1}
  Mutations = {m1, m2}
  NoOp = nobody
  NoId = noid
  Created = created
  Absent = absent
  NoReply = noreply
  FirstFiles = {"absent"}
  MayStall = FALSE
INVARIANTS CommittedStays
CHECK_DEADLOCK FALSE
