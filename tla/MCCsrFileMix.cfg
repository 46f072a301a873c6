SPECIFICATION Spec
CONSTANTS
  Ops <- MixOps
  Pcs <- MCPc
  ExcCodes = {{1}}
  Addrs = {{4}}
  Irqs = {7, 11}
  Debug = TRUE
  Quiet = {"mstatus"}
INVARIANTS
  WarlKept
  ReadsLatest
PROPERTIES
  CauseRight
  AtomicCsr
  Atomic
