SPECIFICATION FairSpec
CONSTANTS
  Daemon = {d1, d2}
  NoDaemon = NoDaemon
  OneShot = {}
  TickEvery = 2
  DeadAfter = 4
  MaxNarration = 6
  Narrates = TRUE
  MaxEvents = 2
  MaxCrashes = 1
  MaxFailures = 1
INVARIANTS
  TypeOK
  TrimmedIsMerged
  CleanStopIsSaved
  LooksAliveUnlessSkipped
PROPERTIES
  EventuallySaved
