SPECIFICATION Spec
CONSTANTS
  ra = ra
  rb = rb
  Regs <- MCRegs
  N = 2
  MaxRuns = 2
  Refs <- MCRefs
  Traces <- MCTraces
  Ends = {"finish", "silent", "timeout", "unparsed"}
INVARIANTS
  PassedIsPrefix
  SamePasses
  PassedMeansRight
  RightPasses
  ReportIsOfAll
CHECK_DEADLOCK FALSE
