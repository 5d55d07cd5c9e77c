CONSTANTS
  Workers = {w1, w2}
  Events = {e1}
  Attendees = {a1, a2, a3}
  People = {p1, p2, p3}
  None = None
  MaxRegs = 4
  MaxTime = 0
  NewEvents <- OneSeat
  Patches <- Resize
  Menu <- NotCalledOff
SYMMETRY PeopleSymmetry
SPECIFICATION AccountsSpec
INVARIANTS QueueServed DistinctTickets OnePersonOneSeat
PROPERTIES ImplementsLedger EveryAnswerDeclared
