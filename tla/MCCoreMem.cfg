SPECIFICATION FairSpec
CONSTANTS
  MemSize = 20
  Bytes = {0, 1, 2}
  Contents <- MCContents
  Pointers = {0, 1, 9, 11}
  Sizes = {1, 7, 8, 9, 11, 17}
  RegMod = 32
  MaxCalls = 2
INVARIANTS
  IInv
  ReturnsResult
PROPERTIES
  CallsReturn
  ImplementsAssignment
CHECK_DEADLOCK FALSE
