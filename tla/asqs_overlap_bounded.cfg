\* Two tasks of the strategy at once, an operator, and a broker that refuses.
CONSTANTS
  Tasks = {w1, w2}
  Tickets = {k1, k2, k3}
  Lots <- MCFewLots
  Ticks <- MCFewTicks
  OperatorStops <- MCFewStops
  StopPoints = 300
  Tp1Trigger = 200
  BeTrigger = 150
  BeOffset = 20
  TrailTrigger = 200
  TrailDistance = 100
  MaxDailyTrades = 1
  LostReplies = FALSE
  SilentList = FALSE
  Overlap = TRUE
  Kills = FALSE
  LateCalls = {}
  MaxLate = 0
  MaxFaults = 1
  MaxUnrecorded = 0
  None = None
SYMMETRY TaskAndTicketSymmetry
SPECIFICATION Spec
INVARIANT OnePerTask
PROPERTY LoosenedOnlyUnseen
