\* One instruction is written, then the machine stops.
SPECIFICATION Spec
CONSTANTS
  Regs <- MCRegs
  Values <- MCValues
  Junk = {0, 165}
INVARIANTS TypeOK MeaningKept SizeEstimated
CHECK_DEADLOCK FALSE
