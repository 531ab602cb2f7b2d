CONSTANTS
  MaxFailures <- MCMaxFailures
  BackoffStart = 1
  BackoffMax = 5
  Tries = 3
  MaxBreaks = 2
  MaxPending = 2
  MaxStrays = 2
  MaxHung = 7
\* The script may stop for good.
CHECK_DEADLOCK FALSE
SPECIFICATION Spec
INVARIANTS FailedRepairsDoNotAddUp GiveUpIsEarned CleanRepairSucceeds
PROPERTY MendedGetsLinked
