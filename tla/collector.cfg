SPECIFICATION Spec
CONSTANTS
  Timeframes <- MCTimeframes
  Period <- MCPeriod
  Latency = 1
  Interval = 3
  NapLength = 2
  MaxDead = 2
  MaxNow = 9
INVARIANTS
  NoBoundaryAsleep
  AbortsWhenDead
PROPERTIES
  PeriodicRoundsApart
  OneRoundPerBoundary
  BoundaryIsSampled
