SPECIFICATION Spec
CONSTANTS
  MCX0 = MCX0
  R1 = R1
  X0 = MCX0
  Reg <- MCReg
  Word = {0, 1}
  Zero = 0
  Junk = Junk
  Insts <- StoreF2IMix
  Result <- MCResult
  DbgWords = {}
  Faults = FALSE
  Irq = FALSE
  Debug = FALSE
  DivIrq = FALSE
INVARIANTS
  StoreDataRight
