SPECIFICATION Spec
CONSTANTS
  Size = 8
  Accesses <- MCBoth
  StoreTraps = FALSE
  Irq = TRUE
INVARIANTS
  MemoryRight
  LoadRight
PROPERTIES
  AckedNext
