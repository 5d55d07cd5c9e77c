CONSTANTS
  Workers = {w1, w2}
  Events = {e1}
  Attendees = {a1, a2}
  None = None
  MaxRegs = 2
  MaxTime = 0
  NewEvents <- OneSeat
  Patches <- Refusable
  Menu <- BusyDay
  PoolMax = 2
  Probe = Probe
  MaxGone = 1
SPECIFICATION PoolFairSpec
PROPERTIES EveryRequestEnds HealthIsAnswered
