\* One process and the handler.
CONSTANTS
  p1 = p1
  none = none
  Procs = {p1}
  Freqs <- MCFreqs
  None = none

SPECIFICATION Spec

PROPERTIES
  RateWritten
