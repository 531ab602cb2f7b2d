\* One task after the other; lost replies, kills and failing file writes.
CONSTANTS
  Tasks = {w1}
  Tickets = {k1, k2}
  Lots <- MCLots
  Ticks <- MCTicks
  OperatorStops <- MCNoStops
  StopPoints = 300
  Tp1Trigger = 200
  BeTrigger = 150
  BeOffset = 20
  TrailTrigger = 200
  TrailDistance = 100
  MaxDailyTrades = 1
  LostReplies = TRUE
  SilentList = FALSE
  Overlap = FALSE
  Kills = TRUE
  LateCalls = {"send", "close", "modify"}
  MaxLate = 1
  MaxFaults = 1
  MaxUnrecorded = 1
  None = None
SYMMETRY TicketSymmetry
SPECIFICATION Spec
INVARIANTS OnePosition Tp1RepeatNeedsFault CapCountsRows
PROPERTIES Tp1LeavesPosition LoosenedOnlyUnseen MarkOutlivesPosition
