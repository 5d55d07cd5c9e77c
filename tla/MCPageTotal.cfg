CONSTANTS
  Workers = {w1}
  Events = {e1, e2}
  Attendees = {a1}
  None = None
  MaxRegs = 1
  MaxTime = 0
  NewEvents <- OneSeat
  Patches <- Resize
  Menu <- Publishing
  Filters <- ByStatus
  Size = 2
SPECIFICATION ListSpec
INVARIANTS PageAgreesWithTotal
CHECK_DEADLOCK FALSE
