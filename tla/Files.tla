------------------------------- MODULE Files -------------------------------
(***************************************************************************)
(* Files: the descriptors of the processes and the calls on them           *)
(* (syscalls.c), and the read-only file system they reach (filesystem.c).  *)
(*                                                                         *)
(* The processes are those at the top of the terminals, one each: only     *)
(* these run.  System calls run with interrupts on, so a tick may cut them *)
(* anywhere; what they touch is private to the process but for file_index, *)
(* the one cursor of all directory reads.  dir_read is therefore a step    *)
(* per access to file_index, every other call a single step.               *)
(*                                                                         *)
(* A data byte is its address in the data blocks, a name the index of its  *)
(* directory entry.  The build has no optimisation (Makefile:7): each use  *)
(* of file_index loads it, ++ loads and stores it.                         *)
(***************************************************************************)
EXTENDS Integers, Sequences

CONSTANTS Procs,           \* the processes
          Roots,           \* those that are root shells
          FD_ARRAY_SIZE,   \* 8
          DATABLOCK_SIZE,  \* 4096
          Dentries,        \* the boot block: [type, inode] of each name
          Inodes,          \* [length, blocks] of each inode
          Sizes,           \* the values of nbytes passed to read
          Listers          \* the processes that read directories

NumDentries == Len(Dentries)
FileTypes == {"rtc", "dir", "file", "invalid"}

ASSUME RootsAssumption == Roots \subseteq Procs
ASSUME ListersAssumption == Listers \subseteq Procs
ASSUME NumbersAssumption == /\ FD_ARRAY_SIZE \in Nat /\ FD_ARRAY_SIZE > 2
                            /\ DATABLOCK_SIZE \in Nat \ {0}
                            /\ Sizes \subseteq Nat
ASSUME InodesAssumption ==
  /\ Inodes \in Seq([length : Nat, blocks : Seq(Nat)])
  /\ \A i \in 1 .. Len(Inodes) :
       Inodes[i].length <= DATABLOCK_SIZE * Len(Inodes[i].blocks)
ASSUME DentriesAssumption ==
  /\ Dentries \in Seq([type : FileTypes, inode : 1 .. Len(Inodes)])

VARIABLES
  fd_array,     \* pcb_t.fd_array of each process
  alive,        \* the processes that run
  file_index,
  pc,           \* where in dir_read a process is; "user" outside
  loaded,       \* the file_index that ++ has loaded
  got,          \* what reads of an open file have delivered since its open
  own,          \* the descriptors opened since the program was started
  listed,       \* the names dir_read has delivered since the last open
  round         \* the names delivered to anyone since dir_read last gave 0

vars == <<fd_array, alive, file_index, pc, loaded, got, own, listed,
          round>>

Fd == 0 .. FD_ARRAY_SIZE - 1
NoFd == [table |-> "null", inode |-> 0, file_pos |-> 0, flags |-> 0]
StdFd(table) == [table |-> table, inode |-> 0, file_pos |-> 0, flags |-> 1]

(* The descriptors execute_fillpcb gives a new process.                     *)
FreshFds ==
  [fd \in Fd |-> CASE fd = 0 -> StdFd("stdin") [] fd = 1 -> StdFd("stdout")
                   [] OTHER -> NoFd]

Init ==
  /\ alive = Roots
  /\ fd_array = [p \in Procs |->
                   IF p \in Roots THEN FreshFds ELSE [fd \in Fd |-> NoFd]]
  /\ file_index = 0
  /\ pc = [p \in Procs |-> "user"]
  /\ loaded = [p \in Procs |-> 0]
  /\ got = [p \in Procs |-> [fd \in Fd |-> <<>>]]
  /\ own = [p \in Procs |-> {}]
  /\ listed = [p \in Procs |-> {}]
  /\ round = {}

dirVars == <<file_index, pc, loaded, listed, round>>
Running(p) == p \in alive /\ pc[p] = "user"

-----------------------------------------------------------------------------
(* read_data: the addresses of the bytes it copies.  Its loop copies a      *)
(* block's length at a time, from the offset in the first block and from    *)
(* the start of each later one.                                             *)
ReadLength(inode, offset, length) ==
  IF Inodes[inode].length < offset + length THEN Inodes[inode].length - offset
  ELSE length

DataPtr(inode, offset, copied) ==
  LET block == (offset \div DATABLOCK_SIZE) + (copied \div DATABLOCK_SIZE)
      start == IF copied < DATABLOCK_SIZE THEN offset % DATABLOCK_SIZE ELSE 0
  IN Inodes[inode].blocks[block + 1] * DATABLOCK_SIZE + start

ReadData(inode, offset, length) ==
  [k \in 1 .. ReadLength(inode, offset, length) |->
     DataPtr(inode, offset, k - 1) + ((k - 1) % DATABLOCK_SIZE)]

(* What the file holds from offset on.                                      *)
FileByte(inode, k) ==
  Inodes[inode].blocks[(k \div DATABLOCK_SIZE) + 1] * DATABLOCK_SIZE
    + (k % DATABLOCK_SIZE)
FileData(inode, offset, n) == [k \in 1 .. n |-> FileByte(inode, offset + k - 1)]

-----------------------------------------------------------------------------
(* open.  A name that is not found, a type that is none, and a table with   *)
(* no free descriptor change nothing: a stutter.                            *)
FirstFree(p, fd) ==
  /\ fd_array[p][fd].flags = 0
  /\ \A lower \in 2 .. fd - 1 : fd_array[p][lower].flags = 1

NewFd(dentry) ==
  [table |-> dentry.type,
   inode |-> IF dentry.type = "file" THEN dentry.inode ELSE 0,
   file_pos |-> 0, flags |-> 1]

(* A mutant: the position of the last file on this descriptor stays.        *)
OpenedAgain(p, fd, dentry) ==
  [NewFd(dentry) EXCEPT !.file_pos = fd_array[p][fd].file_pos]
Opened(p, fd, dentry) == NewFd(dentry)

Open(p) ==
  \E name \in 1 .. NumDentries, fd \in 2 .. FD_ARRAY_SIZE - 1 :
    /\ Running(p) /\ FirstFree(p, fd) /\ Dentries[name].type # "invalid"
    /\ fd_array' = [fd_array EXCEPT ![p][fd] = Opened(p, fd, Dentries[name])]
    /\ got' = [got EXCEPT ![p][fd] = <<>>]
    /\ own' = [own EXCEPT ![p] = @ \cup {fd}]
    /\ listed' = IF Dentries[name].type = "dir" THEN [listed EXCEPT ![p] = {}]
                 ELSE listed
    /\ UNCHANGED <<alive, file_index, pc, loaded, round>>

(* A mutant: the standard descriptors can be closed.                        *)
AnyFd == Fd
ClosableFd == 2 .. FD_ARRAY_SIZE - 1

(* close only frees the descriptor: no driver's close is called.            *)
Close(p) ==
  \E fd \in ClosableFd :
    /\ Running(p) /\ fd_array[p][fd].flags = 1
    /\ fd_array' = [fd_array EXCEPT ![p][fd].flags = 0]
    /\ UNCHANGED <<alive, got, own, dirVars>>

(* read of an open file; at the end of the file it changes nothing.         *)
Readable(p, fd) == Running(p) /\ fd # 1 /\ fd_array[p][fd].flags = 1

ReadFile(p) ==
  \E fd \in Fd, nbytes \in Sizes :
    /\ Readable(p, fd) /\ fd_array[p][fd].table = "file"
    /\ LET f == fd_array[p][fd]
           data == ReadData(f.inode, f.file_pos, nbytes)
       IN /\ f.file_pos < Inodes[f.inode].length
          /\ fd_array' = [fd_array EXCEPT ![p][fd].file_pos = @ + Len(data)]
          /\ got' = [got EXCEPT ![p][fd] = @ \o data]
    /\ UNCHANGED <<alive, own, dirVars>>

-----------------------------------------------------------------------------
(* dir_read, a step for each access to file_index.                          *)
At(p, where) == p \in alive /\ pc[p] = where

(* Mutants: the names start from the second, and the end is missed.         *)
DirEndAtOne(p) ==
  /\ file_index' = 1
  /\ listed' = [listed EXCEPT ![p] = {}]
  /\ round' = {}
  /\ UNCHANGED <<fd_array, alive, pc, loaded, got, own>>

DirEnd(p) ==
  /\ file_index' = 0
  /\ listed' = [listed EXCEPT ![p] = {}]
  /\ round' = {}
  /\ UNCHANGED <<fd_array, alive, pc, loaded, got, own>>

AtEndNever == FALSE
AtEnd == file_index = NumDentries

DirCheck(p) ==
  /\ p \in Listers
  /\ \E fd \in Fd : Readable(p, fd) /\ fd_array[p][fd].table = "dir"
  /\ IF AtEnd THEN DirEnd(p)
     ELSE /\ pc' = [pc EXCEPT ![p] = "entry"]
          /\ UNCHANGED <<fd_array, alive, file_index, loaded, got, own, listed, round>>

(* The entry at file_index: -1 if there is none.                            *)
DirEntry(p) ==
  /\ At(p, "entry")
  /\ IF file_index < NumDentries
     THEN /\ listed' = [listed EXCEPT ![p] = @ \cup {file_index + 1}]
          /\ round' = round \cup {file_index + 1}
          /\ pc' = [pc EXCEPT ![p] = "load"]
     ELSE /\ pc' = [pc EXCEPT ![p] = "user"]
          /\ UNCHANGED <<listed, round>>
  /\ UNCHANGED <<fd_array, alive, file_index, loaded, got, own>>

DirLoad(p) ==
  /\ At(p, "load")
  /\ loaded' = [loaded EXCEPT ![p] = file_index]
  /\ pc' = [pc EXCEPT ![p] = "store"]
  /\ UNCHANGED <<fd_array, alive, file_index, got, own, listed, round>>

DirStore(p) ==
  /\ At(p, "store")
  /\ file_index' = loaded[p] + 1
  /\ loaded' = [loaded EXCEPT ![p] = 0]
  /\ pc' = [pc EXCEPT ![p] = "user"]
  /\ UNCHANGED <<fd_array, alive, got, own, listed, round>>

-----------------------------------------------------------------------------
(* The life of a process: execute_fillpcb, halt, and the halt of a root     *)
(* shell, which starts the shell again on the pcb as it is.                 *)
Execute(p) ==
  /\ p \in Procs \ alive
  /\ alive' = alive \cup {p}
  /\ fd_array' = [fd_array EXCEPT ![p] = FreshFds]
  /\ UNCHANGED <<got, own, dirVars>>

Halt(p) ==
  /\ Running(p) /\ p \notin Roots
  /\ alive' = alive \ {p}
  /\ fd_array' = [fd_array EXCEPT ![p] = [fd \in Fd |-> NoFd]]
  /\ got' = [got EXCEPT ![p] = [fd \in Fd |-> <<>>]]
  /\ own' = [own EXCEPT ![p] = {}]
  /\ listed' = [listed EXCEPT ![p] = {}]
  /\ UNCHANGED <<file_index, pc, loaded, round>>

Restart(p) ==
  /\ Running(p) /\ p \in Roots
  /\ own' = [own EXCEPT ![p] = {}]
  /\ UNCHANGED <<fd_array, alive, got, dirVars>>

Next ==
  \E p \in Procs :
    \/ Open(p) \/ Close(p) \/ ReadFile(p)
    \/ DirCheck(p) \/ DirEntry(p) \/ DirLoad(p) \/ DirStore(p)
    \/ Execute(p) \/ Halt(p) \/ Restart(p)

Spec == Init /\ [][Next]_vars

-----------------------------------------------------------------------------
(* Types; the position in a file is within the file.                        *)
FdSet ==
  {f \in [table : FileTypes \cup {"null", "stdin", "stdout"},
          inode : 0 .. Len(Inodes), file_pos : Nat, flags : {0, 1}] :
     f.table = "file" => f.inode > 0 /\ f.file_pos <= Inodes[f.inode].length}

TypeOK ==
  /\ alive \subseteq Procs
  /\ fd_array \in [Procs -> [Fd -> FdSet]]
  /\ file_index \in Nat
  /\ pc \in [Procs -> {"user", "entry", "load", "store"}]
  /\ loaded \in [Procs -> Nat]
  /\ got \in [Procs -> [Fd -> Seq(Nat)]]
  /\ own \in [Procs -> SUBSET Fd]
  /\ listed \in [Procs -> SUBSET (1 .. NumDentries)]
  /\ round \subseteq 1 .. NumDentries

(* A program that runs can always reach its terminal, whatever it opens and *)
(* closes; a pcb whose pid is free has nothing open that its next owner     *)
(* would find; what is open has a driver.                                   *)
Descriptors ==
  /\ \A p \in alive : fd_array[p][0] = StdFd("stdin") /\ fd_array[p][1] = StdFd("stdout")
  /\ \A p \in Procs \ alive : \A fd \in Fd : fd_array[p][fd] = NoFd
  /\ \A p \in alive : \A fd \in 2 .. FD_ARRAY_SIZE - 1 :
       fd_array[p][fd].flags = 1 => fd_array[p][fd].table \in {"rtc", "dir", "file"}

Inv == TypeOK /\ Descriptors

(* The reads of an open file, one after the other, deliver the file from    *)
(* its start, each byte once: right when every nbytes is a multiple of the  *)
(* block size.                                                              *)
FileWhole ==
  \A p \in alive, fd \in Fd :
    LET f == fd_array[p][fd]
    IN f.flags = 1 /\ f.table = "file" => got[p][fd] = FileData(f.inode, 0, f.file_pos)

(* filesystem.c:296 "-1 for fail. 0 indicates end of directory": reading an *)
(* open directory never fails, whoever reads it at the same time.           *)
DirReadFinds == \A p \in Procs : At(p, "entry") => file_index < NumDentries

(* filesystem.c:294 "reads files filename by filename(one at a time)":      *)
(* between two ends of the directory every name is delivered.               *)
DirRounds == [][\A p \in Procs : DirCheck(p) /\ DirEnd(p) => round = 1 .. NumDentries]_vars

-----------------------------------------------------------------------------
(* What a comment says and the code does not do.                            *)

(* syscalls.h:131 open is to "set up any data necessary to handle the given *)
(* type of file (directory,": who opens the directory and reads to its end  *)
(* is given every name.                                                     *)
DirListed ==
  [][\A p \in Procs : DirCheck(p) /\ DirEnd(p) => listed[p] = 1 .. NumDentries]_vars

(* syscalls.c:63 "if closing from root shell, clear everything and start a  *)
(* new shell": the new shell has nothing open but its terminal.             *)
FreshShell ==
  \A p \in alive : \A fd \in 2 .. FD_ARRAY_SIZE - 1 :
    fd_array[p][fd].flags = 1 => fd \in own[p]
=============================================================================
