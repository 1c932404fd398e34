\* The code of a program is written once, then the machine stops.
SPECIFICATION Spec
CONSTANTS
  Labels = {1, 2}
  Blocks <- MCBlocks
  MaxItems = 4
  MaxLinks = 1
  InitCap = 2
INVARIANTS TypeOK JumpsLand NoneOpen OverrunOnlyPastInitCap
CHECK_DEADLOCK FALSE
