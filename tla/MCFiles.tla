------------------------------ MODULE MCFiles ------------------------------
(* A small disk for Files: its blocks lie out of order, one file ends in    *)
(* the middle of its third block and one is empty.                          *)
EXTENDS Files

MCInodes == <<[length |-> 10, blocks |-> <<4, 1, 2>>],
              [length |-> 0, blocks |-> <<>>]>>

Entry(type, inode) == [type |-> type, inode |-> inode]

FilesOnly == <<Entry("file", 1), Entry("file", 2), Entry("invalid", 1)>>
OneOfEach == <<Entry("file", 1), Entry("dir", 1), Entry("rtc", 1),
               Entry("invalid", 1)>>
WithDirectory == <<Entry("dir", 1), Entry("rtc", 1), Entry("file", 1)>>
=============================================================================
