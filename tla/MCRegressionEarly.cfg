SPECIFICATION Spec
CONSTANTS
  ra = ra
  rb = rb
  Regs <- MCRegs
  N = 1
  MaxRuns = 1
  Refs <- MCOneRef
  Traces <- MCTraces
  Ends = {"finish"}
INVARIANTS
  PassedIsSame
CHECK_DEADLOCK FALSE
