CONSTANTS
  Workers = {w1, w2}
  Events = {e1}
  Attendees = {a1, a2}
  None = None
  MaxRegs = 2
  MaxTime = 1
  NewEvents <- OneSeat
  Patches <- Postpone
  Menu <- ReadersAndBookings
  Filters <- Everyone
  Size = 1
SYMMETRY Symmetry
SPECIFICATION ListSpec
INVARIANTS NoQueueBesideFreeSeat ScheduleStaysCoherent
CHECK_DEADLOCK FALSE
