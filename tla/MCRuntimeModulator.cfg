SPECIFICATION Spec
CONSTANTS
  a = a
  b = b
  c = c
  Missing = Missing
  Bad = Bad
  Http = Http
  Paths <- MCPaths
  Contents <- MCContents
  Clearable <- MCClearable
  MaxLoads = 2
  MaxEdits = 1
  MaxClears = 1
  MaxModules = 6
INVARIANTS ModulatorInv CompiledOnce SoundLoadsResolve
PROPERTIES LoadsEnd
CHECK_DEADLOCK FALSE
