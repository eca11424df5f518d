SPECIFICATION FairSpec
CONSTANTS
  Daemon = {d1}
  NoDaemon = NoDaemon
  OneShot = {}
  TickEvery = 2
  DeadAfter = 4
  MaxNarration = 6
  Narrates = FALSE
  MaxEvents = 1
  MaxCrashes = 0
  MaxFailures = 0
PROPERTIES
  SignalStops
