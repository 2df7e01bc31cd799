CONSTANTS
  WIDTH = 4
  Widths <- MCWidths
  PACK_VALID_COUNT = 3
  PackBits <- MCPackBits
  Slots <- MCSlots
  MaxArgs = 4
  SExtTargets <- OnlyWords
SPECIFICATION Spec
INVARIANTS
  TypeOK
  ZeroExtended
  NoTrapAdded
