CONSTANTS
  Workers = {w1}
  Events = {e1}
  Attendees = {a1}
  People = {p1}
  None = None
  MaxRegs = 1
  MaxTime = 0
  NewEvents <- OneSeat
  Patches <- NullDate
  Menu <- Everything
SPECIFICATION AccountsSpec
PROPERTIES EveryAnswerDeclared
CHECK_DEADLOCK FALSE
