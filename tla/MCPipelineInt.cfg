SPECIFICATION Spec
CONSTANTS
  MCX0 = MCX0
  R1 = R1
  X0 = MCX0
  Reg <- MCReg
  Word = {0, 1}
  Zero = 0
  Junk = Junk
  Insts <- IntMix
  Result <- MCResult
  DbgWords = {0, 1}
  Faults = TRUE
  Irq = TRUE
  Debug = TRUE
  DivIrq = FALSE
INVARIANTS
  PipeInv
  MemOperandsRight
  StoreDataRight
PROPERTIES
  ExactlyOnce
