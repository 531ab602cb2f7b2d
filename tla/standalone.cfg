SPECIFICATION AllSpec
CONSTANTS
  Signals = {s1}
  TaskIds = {d1, d2}
  UseTps = {1, 2}
  Workers = 3
  MaxListeners = 2
  MaxRetries = 1
  HoldBars = 2
  H1Bars = 4
  Tickets = {1, 2, 3}
  Tasks = {t1, t2}
  MaxLate = 1
  Horizon = 5
  MaxWindow = 2
  VolumeMin = 4
  VolumeMax = 20
  VolumeStep = 2
  StopFloor = 2
  Budgets <- MCBudgets
  Stops <- MCStops
  Caps <- MCCaps
  Prices = {0, 1, 2, 3, 4}
  Cash = 6000
  Spread = 1
  Stop = 2
  Target = 2
  BeTrigger = 1
  BeOffset = 0
  TrailTrigger = 2
  TrailStep = 1
  Point = 0
  TakePct = 50
  MaxDayTrades = 2
  HaltPct = 8
  RiskPct = 8
  MinSize = 100
  MaxSize = 200
  TimeStop = 1
  MaxBars = 5
  MaxDate = 1
INVARIANTS
  EnginesAgree
  OrdersPerTask
  ReentryNeedsFailedListing
  FoldsSound
  LotsWithinBudget
PROPERTIES
  TasksEnd
  DuplicateNeedsBlindness
CHECK_DEADLOCK FALSE
