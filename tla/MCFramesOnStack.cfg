SPECIFICATION FairSpec
CONSTANTS
  WordSize = 2
  StackSize = 12
  VarSizes = {1}
  ArgSizes = {0}
  SaveSizes = {0}
  RetSizes = {0, 1}
  MaxScopes = 2
  MaxData = 1
  Garbage = Garbage
INVARIANT
  VariablesOnStack
CHECK_DEADLOCK FALSE
