SPECIFICATION Spec
CONSTANTS
  Signatures <- MCDeclared
  Provided <- MCProvided
  MaxCalls = 2
  MaxHandlers = 1
  MaxSpill = 1
  MaxSlots = 7
  Amount <- MCAmount
  HeapCells = 7
  StringCells = 4
INVARIANT ReturnsDeclared
CHECK_DEADLOCK FALSE
