CONSTANTS
  Workers = {w1, w2}
  Events = {e1}
  Attendees = {a1, a2}
  None = None
  MaxRegs = 2
  MaxTime = 0
  NewEvents <- OneSeat
  Patches <- Resize
  Menu <- CrossLocks
SPECIFICATION Spec
INVARIANTS NoWaitCycle
CHECK_DEADLOCK FALSE
