SPECIFICATION Spec
CONSTANTS
  Pid = {1, 2}
  MaxTime = 6
  MaxDrops = 0
  MaxUnread = 0
  MaxStalls = 0
  ProcessKey <- MCProcessKey
  Time <- MCTime
  TickGap = 1
  BaseInterval = 2
  MaxInterval = 4
  WidenAfter = 3
  NarrowAfter = 10
  MaxLate = 0
PROPERTY BurstsStayApart
CHECK_DEADLOCK FALSE
