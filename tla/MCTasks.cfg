\* Two terminals and three pids: the pids run out, pids are reused across
\* terminals and a terminal runs programs over its shell.
CONSTANTS
  NumTerminals = 2
  MaxProcessNum = 3

SPECIFICATION FairSpec

INVARIANTS
  Inv
  ProgramUndisturbed
PROPERTIES
  LostOnlyInHalt
  RootsStay
  ImplementsPrograms
  
  HaltCompletes

\* The kernel stops at a fault.
CHECK_DEADLOCK FALSE
