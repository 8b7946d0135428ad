\* Two terminals are enough for a tick to leave a handler behind; the firmware
\* leaves IRQ 8 unmasked.
CONSTANTS
  NUM_TERMINALS = 2
  FirmwareMasks <- RtcOpen

SPECIFICATION FairSpec

INVARIANTS
  Inv
  LinesOn

PROPERTIES
  Delivered
  HandlersEnd
