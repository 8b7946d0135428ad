\* One process; the highest and the lowest rate, and two frequencies that are
\* refused.
CONSTANTS
  p1 = p1
  none = none
  Procs = {p1}
  Freqs <- MCFreqs
  None = none

SPECIFICATION FairSpec

INVARIANTS
  Inv
  RateLegal
  LineServed

PROPERTIES
  ReadServed
  ReadWaits
