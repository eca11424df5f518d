SPECIFICATION Spec
CONSTANTS
  ProcessId <- MCProcessId
  Mixes <- MCMixes
  Program <- MCProgram
  Ppid <- MCPpid
  IsRoot <- MCIsRoot
  Remote <- MCRemote
  TrustedProgram = {2}
  NoveltyBaseline = 1
  Prolific = 1
  Sudo = {}
  Asker <- MCAsker
  Pid = {1, 2}
  App = {a, b}
  Socket = {s}
  File = {f}
  Domain = {d}
  Flag = {}
  Ttl = 1
  Retention = 1
  MaxTime = 3
  MaxEvents = 3
  MaxTicks = 2
  MaxUpsets = 1
SYMMETRY MCSymmetry
INVARIANTS
  TypeOK
  NoDanglingEdge
  SegmentsAreTrue
  StoreIsCurrent
  QueriesAgree
PROPERTIES
  NoveltyNeverReturns
  OnlyForgettingShrinksTallies
CHECK_DEADLOCK FALSE
