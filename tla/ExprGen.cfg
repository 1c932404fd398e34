SPECIFICATION Spec
CONSTANTS
  NRegs = 3
  Own = 1
  Outer = 0
  MaxTks = 4
  MaxIm = 2
CHECK_DEADLOCK FALSE
INVARIANTS
  TypeOK
  StackInSync
  NoneLost
  VariablesKept
