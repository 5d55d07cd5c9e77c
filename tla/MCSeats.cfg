CONSTANTS
  Workers = {w1, w2}
  Events = {e1}
  Attendees = {a1, a2, a3}
  None = None
  MaxRegs = 3
  MaxTime = 1
  NewEvents <- OneSeat
  Patches <- Edits
  Menu <- Everything
SYMMETRY Symmetry
SPECIFICATION Spec
INVARIANTS TypeOK NoOverbooking NoOrphans AnnouncedOnceWhenTrue NothingStuck
PROPERTIES NoRevival ServedInOrder WritesUnderLock PromotionOwed
