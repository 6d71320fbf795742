SPECIFICATION Spec
CONSTANTS
  Signatures <- MCSignatures
  Provided <- MCProvided
  MaxCalls = 3
  MaxHandlers = 2
  MaxSpill = 0
  MaxSlots = 7
  Amount <- MCAmount
  HeapCells = 7
  StringCells = 4
INVARIANTS PawnInv SeesItsArguments ReturnsItsOwn  
CHECK_DEADLOCK FALSE
