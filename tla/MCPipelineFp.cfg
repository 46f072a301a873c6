SPECIFICATION FairSpec
CONSTANTS
  MCX0 = MCX0
  R1 = R1
  X0 = MCX0
  Reg <- MCReg
  Word = {0, 1}
  Zero = 0
  Junk = Junk
  Insts <- AllFpMix
  Result <- MCResult
  DbgWords = {}
  Faults = FALSE
  Irq = FALSE
  Debug = FALSE
  DivIrq = FALSE
PROPERTIES
  KeepsMoving
  Sequential
  ExactlyOnce
