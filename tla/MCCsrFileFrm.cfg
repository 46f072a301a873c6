SPECIFICATION Spec
CONSTANTS
  Ops <- FpOps
  Pcs <- MCPc
  ExcCodes = {{1}}
  Addrs = {{4}}
  Irqs = {}
  Debug = FALSE
  Quiet = {}
PROPERTIES
  RoundsAsSet
