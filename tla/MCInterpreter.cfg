CONSTANTS
  NREG = 2
  FunctionNames <- MCFunctionNames
  BlockNames <- MCBlockNames
  Files <- MCFiles
  ConstRange = 16
  WithoutLast <- MCWithoutLast
  WORD = 2
  HEAP_MIN = 6
  AddrSpace = 16
  STACK_MAX = 4
  Sizes <- MCSizes
  BYTE = 4
  MaxMalloc = 0
  Values <- MCNothing
  WIDTH = 4
  Widths <- MCWidths
  Inputs <- MCInputs
  MaxDepth = 3
SPECIFICATION InterpreterSpec
INVARIANTS
  InterpreterTypeOK
  BlocksEnd
  NeverNull
  ArgumentsOfTheFunction
PROPERTIES
  CallsKeepRegisters
  ArgumentsMissSp
CHECK_DEADLOCK FALSE
