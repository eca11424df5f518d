SPECIFICATION Spec
CONSTANTS
  ProcessId <- MCProcessId
  Mixes <- MCMixes
  Pid = {1, 2}
  Query <- MCQuery
  App = {a, b}
  Socket = {1, 2}
  File = {f}
  Domain = {d, e}
  Flag = {}
  Comm <- MCComm
  ParentPid <- MCParentPid
  Noisy = {1}
  Endpoint <- MCEndpoint
  Sensitive = {1}
  Directory <- MCDirectory
  ShortLife = 2
  BurstMin = 1
  HeavyDns = 2
  ProlificParent = 2
  TopNDnsClients = 1
  MaxEventSuspicions = 1
  Unit = 2
  Ceiling <- MCCeiling
  Lookback = 4
  MinBaseline = 2
  Anchor = 8
  Hour = 2
  DayHours = 2
  SpikeMinDelta = 2
  Bytes = {2}
  WindowNs = 1
  Ttl = 1
  MaxSuspicions = 1
  Stores <- MCStores
  StoreFlag = {}
  MaxTime = 2
  MaxEvents = 3
  MaxTicks = 2
SYMMETRY MCSymmetry
INVARIANTS
  WindowIsRecent
  ReportIsFaithful
  GrowthIsNotAMerge
CHECK_DEADLOCK FALSE
