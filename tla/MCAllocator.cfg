CONSTANTS
  MAX_REG_N = 3
  Instruction = {a, b, c, d}
  User = {u, v}
  Timestep = {2}
  NO_MORE_ADVENT = 5
  NoUser = NoUser
SPECIFICATION AllocatorSpec
INVARIANTS
  AllocatorTypeOK
  RegistersPartitioned
