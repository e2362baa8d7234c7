SPECIFICATION Spec
CONSTANTS
  Base = 2
  WordRegs = {"AX", "CS", "DS"}
  CodeBase = 1
  StackBase = 2
  CalleeBases = {1, 3}
  ImageWords <- MCImageWords
  ExitFns = {0}
  MaxStack = 1
INVARIANTS KnownUnlessStale StoredIsLoaded
CHECK_DEADLOCK FALSE
