CONSTANTS
  Blocks <- MCBlocks
  STACK_MAX = 4
  HEAP_MIN = 8
  AddrSpace = 16
  RESET = 4
  MaxSaved = 24
  MaxCalls = 1
SPECIFICATION AccessSpec
INVARIANTS
  ConflictsKept
CHECK_DEADLOCK FALSE
