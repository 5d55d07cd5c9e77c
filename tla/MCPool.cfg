CONSTANTS
  Workers = {w1, w2, w3}
  Events = {e1, e2}
  Attendees = {a1, a2}
  None = None
  MaxRegs = 2
  MaxTime = 1
  NewEvents <- OneSeat
  Patches <- Refusable
  Menu <- RushHour
  PoolMax = 2
  Probe = Probe
  MaxGone = 1
SYMMETRY PoolSymmetry
SPECIFICATION PoolSpec
INVARIANTS EventLockedFirst RushIsLocal PoolTypeOK PoolMovesOn LocksAreConnected NoWaitCycle
