CONSTANTS
  Workers = {w1, w2}
  Events = {e1}
  Attendees = {a1}
  None = None
  MaxRegs = 1
  MaxTime = 0
  NewEvents <- OneSeat
  Patches <- Resize
  Menu <- DraftDelete
SPECIFICATION Spec
PROPERTIES RegistrationsKept
CHECK_DEADLOCK FALSE
