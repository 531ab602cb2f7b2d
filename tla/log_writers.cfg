\* Two writers between read and append; writers that die, and one edit by hand.
\* A torn line ends every later call, so the log may stop: no deadlock check.
CHECK_DEADLOCK FALSE
CONSTANTS
  Writers = {w1, w2}
  Hypotheses = {h1}
  Record = Record
  V2 = V2
  V3 = V3
  Stages = {Edge}
  Verdicts = {Killed}
  Start = Start
  Open = Open
  Forms <- MCForms
  Crashes = TRUE
  Edits = TRUE
  MaxEntries = 3
  None = None
SYMMETRY WriterSymmetry
SPECIFICATION Spec
INVARIANTS VerifyIsExact VerifiedIsSound StateAsSaid TrialFloor
