CONSTANTS
  WORD = 2
  HEAP_MIN = 40
  AddrSpace = 64
  STACK_MAX = 20
  STACK_SAFE_REGION = 10
  STACK_DANGEROUS_REGION = 10
  STACK_BOUNDARY = 20
  Callees = {f, g}
  GlobalSizes <- GlobalChoices
  FrameSizes = {0, 6}
  MallocSizes = {2, 6, 32}
  MaxFrames = 3
  MaxOwned = 2
  f = f
  g = g
SPECIFICATION Spec
SYMMETRY Symmetry
INVARIANTS
  StorageTypeOK
  GlobalsPlaced
  AreasDisjoint
  OwnedIsThere
  NothingLeaks
  FreesAreValid
  StackSuffices
CHECK_DEADLOCK FALSE
