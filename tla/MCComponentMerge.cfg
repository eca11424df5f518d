SPECIFICATION Spec
CONSTANTS
  ProcessId <- MergeProcessId
  Mixes <- MergeMixes
  Pid = {2, 3}
  Query <- MergeQuery
  App = {a, b}
  Socket = {1, 2}
  File = {f}
  Domain = {d, e}
  Flag = {}
  Comm <- MCComm
  ParentPid <- MCParentPid
  Noisy = {3}
  Endpoint <- MCEndpoint
  Sensitive = {1}
  Directory <- MCDirectory
  ShortLife = 2
  BurstMin = 9
  HeavyDns = 9
  ProlificParent = 9
  TopNDnsClients = 1
  MaxEventSuspicions = 2
  Unit = 2
  Ceiling <- MCCeiling
  Lookback = 4
  MinBaseline = 2
  Anchor = 8
  Hour = 2
  DayHours = 2
  SpikeMinDelta = 9
  Bytes = {2}
  WindowNs = 1
  Ttl = 9
  MaxSuspicions = 9
  Stores <- NewStores
  StoreFlag = {}
  MaxTime = 1
  MaxEvents = 5
  MaxTicks = 2
SYMMETRY MCSymmetry
INVARIANTS
  MergesAreFlagged
CHECK_DEADLOCK FALSE
