SPECIFICATION FairPollSpec
CONSTANTS
  BaseInterval = 2
  MaxInterval = 9
  WidenAfter = 3
  NarrowAfter = 10
  MaxLate = 5
INVARIANTS
  OnePollAtATime
PROPERTIES
  AdaptsOnEvidence
  PollsForever
  CalmRestoresBase
  PressureReachesMax
