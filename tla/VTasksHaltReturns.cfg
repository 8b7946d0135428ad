CONSTANTS
  NumTerminals = 3
  MaxProcessNum = 6

SPECIFICATION Spec

INVARIANT HaltReturns

\* The kernel stops at a fault.
CHECK_DEADLOCK FALSE
