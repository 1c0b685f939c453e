SPECIFICATION Spec
CONSTANTS
  Processes = {p1}
  Stores = {s1}
  Cards = {c1}
  Levels = {"low"}
  Fields = {"low", "tiered", "claude"}
  Budgets = {b16000}
  Refused = b99999
  Unset = unset
  Absent = absent
  MaxEdits = 2
PROPERTIES OnlyTypedBudgetsAreSaved
