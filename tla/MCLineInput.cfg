\* One terminal displayed, one hidden; a handler may be cut by one other on the
\* same stack.
CONSTANTS
  NumTerminals = 2
  BufSize = 2
  Keys = {"char", "enter", "back", "ctrlL", "swap"}
  Reads = {2}
  MaxNesting = 1

SPECIFICATION FairSpec

INVARIANT Inv

PROPERTIES
  HiddenLinesKept
  EnterServed
  SwapsFinish
