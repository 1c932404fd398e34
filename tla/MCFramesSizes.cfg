SPECIFICATION FairSpec
CONSTANTS
  WordSize = 2
  StackSize = 24
  VarSizes = {1}
  ArgSizes = {0, 2}
  SaveSizes = {0, 2}
  RetSizes = {0, 1}
  MaxScopes = 3
  MaxData = 1
  Garbage = Garbage
INVARIANTS
  FrameLayout
  AccessCorrect
  ScopesNest
PROPERTY
  StatementsEnd
CHECK_DEADLOCK FALSE
