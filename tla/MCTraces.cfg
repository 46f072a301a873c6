SPECIFICATION Spec
CONSTANTS
  Word = 64
  W = 6
  StartPc = 52
  MaxCopies = 2
  Regs <- MCRegs
  Programs <- MCPrograms
  Faults <- MCFaults
  Ints <- MCInts
  Words <- MCWords
INVARIANTS
  CsvRight
  WrongFails
  WholeRightPasses
  OffsetsAgree
  SameMeaning
CHECK_DEADLOCK FALSE
