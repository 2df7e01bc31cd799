CONSTANTS
  MAX_REG_N = 4
  Instruction <- MCInstruction
  User <- MCUser
  Timestep <- MCTimestep
  NO_MORE_ADVENT = 100
  NoUser = NoUser
  None = None
  RefSP = RefSP
  a = a
  b = b
  c = c
  d = d
  e = e
  p = p
  q = q
  Programs <- PassingPrograms
SPECIFICATION Spec
INVARIANTS
  TypeOK
  OperandsHold
  AllocatorIsRight
  SpilledForOtherBlocks
  AllocationsAreOfThisBlock
  ReferenceKept
