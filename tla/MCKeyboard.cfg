\* Three rows of four cells, and three cells more in the page.
CONSTANTS
  NUM_COLS = 4
  NUM_ROWS = 3
  PageCells = 15
  WordSize = 128
  HexDigits = 2
  BootLines = 2
  Numbers <- MCNumbers
  OrdinaryKeys <- MCKeys
  Modifiers <- MCModifiers
  Texts <- MCTexts

SPECIFICATION Spec

INVARIANTS
  Inv
  
  InPage
  NumbersReadBack
