CONSTANTS
  Regs = {0, 1}
  Bases = {0}
  Lane = {0, 1, 2, 3}
  MaxSteps = 4
SPECIFICATION Spec
INVARIANT LanesAreTainted
CHECK_DEADLOCK FALSE
