SPECIFICATION FairSpec
CONSTANTS
  a = a
  b = b
  c = c
  Idents = {a, b, c}
  Vars = {v}
  Funcs = {f}
  Forwards = {w}
  NoName = NoName
  NoVal = NoVal
  Capacity = 4
  Home <- MCHome
  MaxScopes = 3
INVARIANTS
  IInv
  NoShadowing
  CrashOnlyPastHalf
PROPERTIES
  SearchesEnd
  ImplementsMaps
CHECK_DEADLOCK FALSE
