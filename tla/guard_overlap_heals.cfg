\* Overlapping tasks, kills, and a state volume that can lose the file.
CONSTANTS
  Tasks = {t1, t2}
  Equity <- MCEquity
  MaxDrawdownPct = 20
  Overlap = TRUE
  StateLoss = TRUE
  None = None
  Torn = Torn
SYMMETRY TaskSymmetry
SPECIFICATION Spec
PROPERTY SoloUpdateRepairs
