CONSTANTS
  Regs = {0, 1}
  Bases = {0}
  Lane = {0, 1, 2, 3}
  MaxSteps = 3
SPECIFICATION Spec
VIEW View
INVARIANT TypeOK
INVARIANT TaintIsSound
INVARIANT FlagTaintIsSound
CHECK_DEADLOCK FALSE
