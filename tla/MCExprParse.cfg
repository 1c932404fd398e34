CONSTANTS
  Names <- MCNames
  Valuations <- MCValuations
  Infix <- MCInfix
  Stale = {2}
  MaxLex = 9
  MaxPrefix = 1
  MaxParen = 1
SPECIFICATION Spec
INVARIANTS TypeOK ValueRight RefusedIsWrong JumpHasLabel NothingPending
CHECK_DEADLOCK FALSE
