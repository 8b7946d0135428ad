\* Two terminals, three pids: a program under a shell, pids used again.
CONSTANTS
  MaxProcessNum = 3
  NumTerminals = 2
  FILENAME_SIZE = 2
  BUF_SIZE = 3
  Dentries <- MCDentries
  Executable <- MCExecutable
  CommandTexts <- MCTexts
  Names <- MCNames
  BufferSizes = {0, 1, 2, 3}

SPECIFICATION Spec

INVARIANTS
  RunsItsCommand
  
  FailsRightly
  
  OpenFinds
