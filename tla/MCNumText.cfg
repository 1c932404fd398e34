\* One number is printed or one literal read, then the machine stops.
SPECIFICATION Spec
CONSTANTS
  Word = 256
  Bits = 8
  IntBits = 4
  Byte = 16
  NumBytes = 5
  Literals <- MCLiterals
INVARIANTS TypeOK TextRight ZeroOverrunsOnlyFullBinary LiteralRight
CHECK_DEADLOCK FALSE
