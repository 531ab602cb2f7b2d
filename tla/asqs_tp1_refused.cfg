\* Tasks one after the other, nothing lost; the broker refuses a close.
CONSTANTS
  Tasks = {w1}
  Tickets = {k1, k2, k3}
  Lots <- MCLots
  Ticks <- MCTicks
  OperatorStops <- MCNoStops
  StopPoints = 300
  Tp1Trigger = 200
  BeTrigger = 150
  BeOffset = 20
  TrailTrigger = 200
  TrailDistance = 100
  MaxDailyTrades = 2
  LostReplies = FALSE
  SilentList = FALSE
  Overlap = FALSE
  Kills = FALSE
  LateCalls = {}
  MaxLate = 0
  MaxFaults = 1
  MaxUnrecorded = 1
  None = None
SYMMETRY TicketSymmetry
SPECIFICATION Spec
INVARIANT MarkMeansClosed
