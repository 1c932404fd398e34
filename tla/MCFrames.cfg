SPECIFICATION FairSpec
CONSTANTS
  WordSize = 2
  StackSize = 36
  VarSizes = {1}
  ArgSizes = {2}
  SaveSizes = {0}
  RetSizes = {0}
  MaxScopes = 5
  MaxData = 1
  Garbage = Garbage
INVARIANTS
  AddressInv
  AccessCorrect
  SavedLinks
  GotoRestoresRbp
CHECK_DEADLOCK FALSE
