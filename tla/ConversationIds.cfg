SPECIFICATION Spec
CONSTANTS
  Names = {f, g}
  NoName = noname
  GivesIds = FALSE
  MaxParts = 3
  MaxMessages = 4
INVARIANTS ResultsNameTheirFunction
CHECK_DEADLOCK FALSE
