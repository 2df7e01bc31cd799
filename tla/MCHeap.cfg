CONSTANTS
  WORD = 2
  HEAP_MIN = 4
  AddrSpace = 18
  STACK_MAX = 2
  Sizes <- MCSizes
  Values <- MCValues
  BYTE = 1
  MaxMalloc = 7
SPECIFICATION Spec
INVARIANTS
  BlocksDisjoint
  NoByteLost
  NoLostRoom
  Accounting
  FewFragments
  AccessesChecked
CHECK_DEADLOCK FALSE
