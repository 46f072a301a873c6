SPECIFICATION MDSpec
CONSTANTS
  Steps = 3
  Scale <- MCScale
  Operands <- MCSix
  Half = 8
  None = None
INVARIANTS
  DivInv
  AnswerRight
  HeldUntilAnswer
  ProductRight
  FullRight
  NotPassed
PROPERTIES
  Answered
