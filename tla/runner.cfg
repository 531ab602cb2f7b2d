\* The loop ends with the bars.
CHECK_DEADLOCK FALSE
CONSTANTS
  AllSeries <- MCSeries
  EntryLen = 2
  ExitLen = 1
  StopLen = 1
  ErLen = 2
  Multiple = 2
  ErTenths = 3
  Cooldown = 2
  Unfinished <- MCUnfinished
  Seeds = {1}
  None = None
SPECIFICATION Spec
INVARIANTS NoLookAhead RetiredIsManagedAlike BreachExits StopRatchets EntriesApart
