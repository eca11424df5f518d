SPECIFICATION Spec
CONSTANTS
  Pid = {1, 2}
  MaxTime = 8
  MaxDrops = 1
  MaxUnread = 1
  MaxStalls = 1
  ProcessKey <- MCProcessKey
  Time <- MCTime
  TickGap = 1
  BaseInterval = 2
  MaxInterval = 4
  WidenAfter = 1
  NarrowAfter = 2
  MaxLate = 0
INVARIANTS
  TypeOK
  LedgerIsPrior
  OnlyGapsInventDeaths
  LedgerCatchesUp
PROPERTIES
  EventsAlternate
  EventsLag
CONSTRAINT MCFewUpsets
CHECK_DEADLOCK FALSE
