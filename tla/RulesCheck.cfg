CONSTANTS
  LastInstant = 4
  QueueLength = 3
  MAX_PAGE_SIZE = 2
  MaxRows = 4
  Sizes = {1, 2, 3}
SPECIFICATION Spec
INVARIANTS CoherentEventsOpen CloseTimeIsReportedFirst SelectionIsSlice NewTicketIsLast
  WalkSeesEachRowOnce NoEmptyPage KeyedAsDeclared
