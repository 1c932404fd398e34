\* One file is read, then the machine stops.
SPECIFICATION Spec
CONSTANTS
  Files <- MCFiles
  BufSize = 5
  LiteralSize = 3
  IdentifierSize = 3
  Keywords <- MCKeywords
  MaxToks = 16
INVARIANTS  LexemesRight
PROPERTY LexerEnds
CHECK_DEADLOCK FALSE
