SPECIFICATION FairSpec
CONSTANTS
  N = 8
  Wides <- MCSome
  None = None
  Irq = TRUE
  Debug = TRUE
  Dcsrs <- MCDcsrs
  MretHazard = FALSE
  SkewedRefill = FALSE
  HaltAnytime = FALSE
INVARIANTS
  FrontInv
  Assembled
  PathRight
  MepcRight
  DpcRight
PROPERTIES
  StepsOne
  StepEnds
  Arrives
