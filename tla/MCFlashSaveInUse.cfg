SPECIFICATION Spec
CONSTANTS
  Emulators = {e1, e2}
  Saves = {s1}
  Bins = {b1}
  QemuSurvives = TRUE
  MaxWrites = 1
  None = None
INVARIANT SingleWriter
CHECK_DEADLOCK FALSE
