SPECIFICATION AllSpec
CONSTANTS
  Part = {"adapter", "talk", "budgets", "panel"}
  Turns = {t1, t2}
  Chats = {c1}
  Pool = {b1, b2}
  Nameless = {b2}
  Nowhere = nowhere
  SlotLife = 0
  MaxGenerations = 1
  MaxBumps = 2
  LastTick = 1
  Names = {f, g}
  NoName = noname
  MaxParts = 2
  MaxMessages = 4
  Processes = {p1, p2}
  Stores = {s1, s2}
  Cards = {k1, k2}
  Levels = {"low"}
  Fields = {"low", "claude"}
  Budgets = {b16000}
  Refused = b99999
  Unset = unset
  Absent = absent
  MaxEdits = 2
  Accounts = {a1, a2}
  Reloads = {own, r1}
  Own = own
  MessageTtl = 1
  MaxElsewhere = 1
  PanelClock = 2
INVARIANTS AllTypesOK TurnsSettleOnce ChunksAreWellFormed RequestsAreSound
INVARIANTS RowsFollowTheActions SavedBudgetsStand
PROPERTIES ResendsEscapeTheWall VerdictsLast
CHECK_DEADLOCK FALSE
