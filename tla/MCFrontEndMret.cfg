SPECIFICATION Spec
CONSTANTS
  N = 8
  Wides <- MCSome
  None = None
  Irq = FALSE
  Debug = FALSE
  Dcsrs <- MCDcsrs
  MretHazard = TRUE
  SkewedRefill = FALSE
  HaltAnytime = FALSE
INVARIANTS
  PathRight
