\* Two processes, two descriptors each beside the terminal's; reads of one
\* block or two; one of the two lists the directory.
CONSTANTS
  shell = shell
  prog = prog
  Procs = {shell, prog}
  Roots = {shell}
  Listers = {prog}
  FD_ARRAY_SIZE = 4
  DATABLOCK_SIZE = 4
  Dentries <- OneOfEach
  Inodes <- MCInodes
  Sizes = {4, 8}

SPECIFICATION Spec

INVARIANTS
  Inv
  FileWhole
  

 
