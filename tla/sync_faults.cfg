\* One sync task at a time and one REST close; calls fail, replies get lost.
CONSTANTS
  Tickets = {k1, k2}
  Pending = {k2}
  Lots <- MCLots
  Prices <- MCPrices
  LostReplies = TRUE
  SilentList = TRUE
  Syncs = {s1}
  Requests = {r1}
  Commission = 1
  MaxFaults = 1
  None = None
SPECIFICATION Spec
INVARIANTS FinalNeedsUnsure FinalPnlIsTotal
PROPERTY SettledGetsFinal
