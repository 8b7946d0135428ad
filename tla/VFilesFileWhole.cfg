\* What a comment says and the code does not do: see the README.
CONSTANTS
  shell = shell
  prog = prog
  Procs = {shell}
  Listers = {shell}
  Roots = {shell}
  FD_ARRAY_SIZE = 4
  DATABLOCK_SIZE = 4
  Dentries <- FilesOnly
  Inodes <- MCInodes
  Sizes = {3}

SPECIFICATION Spec

INVARIANT FileWhole
