\* One terminal displayed, two in the rotation; lines of up to three characters.
CONSTANTS
  NumTerminals = 2
  BufSize = 4
  Keys = {"char", "enter", "back", "other"}
  Reads = {0, 2, 4}
  MaxNesting = 1

SPECIFICATION Spec

PROPERTIES
  ReadsOwnLine
  ImplementsLines
