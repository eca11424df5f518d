SPECIFICATION Spec
CONSTANTS
  Sources = {"sockets", "files", "focus", "names"}
  ConnectionKey = {1, 2}
  Socket = {1, 2, 3}
  KeyOf <- MCKeyOf
  ProtoOf <- MCProtoOf
  Path = {p, q}
  WindowNs = 2
  Reading <- MCReading
  Cap = 2
  MaxAncestors = 2
  ProcessKey <- MCProcessKey
  Ppid <- MCPpid
  Interval = 2
  TickGap = 1
  Time <- MCTime
  MaxTime = 6
  MaxLosses = 1
  MaxChanges = 4
  MaxBirths = 4
INVARIANTS
  EachChangeOnce
  OnlyLossHidesFocus
  NamesResolve
PROPERTIES
  OnlyGapsInventCloses
  SpansAreUnbroken
CHECK_DEADLOCK FALSE
