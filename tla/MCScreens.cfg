\* Two by two cells and a page of five; four key events, system calls or drawings.
CONSTANTS
  NumTerminals = 3
  NUM_COLS = 2
  NUM_ROWS = 2
  PageCells = 5
  BufSize = 4
  Texts <- SomeTexts
  Keys = {"char", "enter", "back", "other", "ctrlL"}
  MaxEvents = 4

SPECIFICATION Spec

INVARIANTS Inv
PROPERTIES SwapKeepsScreens OthersKept TextStaysOwn CursorsKept
CHECK_DEADLOCK FALSE
