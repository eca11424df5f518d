SPECIFICATION Spec
CONSTANTS
  Daemon = {d1, d2}
  NoDaemon = NoDaemon
  OneShot = {o}
  TickEvery = 1
  DeadAfter = 0
  MaxNarration = 0
  Narrates = FALSE
  MaxEvents = 2
  MaxCrashes = 1
  MaxFailures = 1
INVARIANTS
  GraphLeadsHistory
PROPERTIES
  ImplementsEventHistory
