CONSTANTS
  WORD = 2
  HEAP_MIN = 4
  AddrSpace = 12
  STACK_MAX = 2
  Sizes <- MCSizes
  Values <- MCValues
  BYTE = 2
  MaxMalloc = 4
SPECIFICATION Spec
INVARIANT TypeOK
PROPERTY ImplementsFlatMemory
CHECK_DEADLOCK FALSE
