\* Tasks of one strategy run one after the other and can be killed anywhere.
CONSTANTS
  Tasks = {t1, t2}
  Equity <- MCEquity
  MaxDrawdownPct = 20
  Overlap = FALSE
  StateLoss = FALSE
  None = None
  Torn = Torn
SYMMETRY TaskSymmetry
SPECIFICATION Spec
INVARIANTS PeakIsHighWater EntryWithinBudget
PROPERTY ImplementsHighWater
