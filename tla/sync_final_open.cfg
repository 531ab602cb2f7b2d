\* positions_get fails inside a live bridge.
CONSTANTS
  Tickets = {k1, k2}
  Pending = {k2}
  Lots <- MCLots
  Prices <- MCPrices
  LostReplies = TRUE
  SilentList = TRUE
  Syncs = {s1}
  Requests = {r1}
  Commission = 1
  MaxFaults = 1
  None = None
SPECIFICATION Spec
INVARIANT FinalMeansClosed
