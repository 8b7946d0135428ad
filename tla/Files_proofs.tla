--------------------------- MODULE Files_proofs ----------------------------
(***************************************************************************)
(* What read_data copies, for every block size and every file.             *)
(***************************************************************************)
EXTENDS Files, SequenceTheorems, TLAPS

-----------------------------------------------------------------------------
(* Division, for any divisor.                                               *)
LEMMA DivMod ==
  ASSUME NEW a \in Nat, NEW b \in Nat \ {0}
  PROVE  /\ a \div b \in Nat /\ a % b \in Nat /\ a % b < b
         /\ a = (b * (a \div b)) + (a % b)
  BY Z3

LEMMA Multiples ==
  ASSUME NEW b \in Nat \ {0}, NEW p \in Nat, NEW q \in Nat, p < q
  PROVE  (b * p) + b <= b * q
  BY Z3

(* Quotient and remainder are unique.                                       *)
LEMMA Quotient ==
  ASSUME NEW b \in Nat \ {0}, NEW p \in Nat, NEW r \in Nat, r < b,
         NEW a \in Nat, a = (b * p) + r
  PROVE  a \div b = p /\ a % b = r
<1> DEFINE q == a \div b
           s == a % b
<1>1. q \in Nat /\ s \in Nat /\ s < b /\ a = (b * q) + s
  BY DivMod
<1>2. b * p \in Nat /\ b * q \in Nat
  BY <1>1
<1> HIDE DEF q, s
<1>3. ~ (p < q)
  <2>1. SUFFICES ASSUME p < q PROVE FALSE
    OBVIOUS
  <2>2. (b * p) + b <= b * q
    BY <1>1, <2>1, Multiples
  <2> QED BY <1>1, <1>2, <2>2
<1>4. ~ (q < p)
  <2>1. SUFFICES ASSUME q < p PROVE FALSE
    OBVIOUS
  <2>2. (b * q) + b <= b * p
    BY <1>1, <2>1, Multiples
  <2> QED BY <1>1, <1>2, <2>2
<1>5. p = q
  BY <1>1, <1>3, <1>4
<1>6. s = r
  BY <1>1, <1>2, <1>5
<1> QED BY <1>5, <1>6 DEF q, s

(* A number below the divisor is its own remainder.                         *)
LEMMA BelowDivisor ==
  ASSUME NEW b \in Nat \ {0}, NEW r \in Nat, r < b
  PROVE  r \div b = 0 /\ r % b = r
<1> DEFINE p == 0
           a == r
<1>1. p \in Nat /\ a \in Nat /\ a = (b * p) + r
  OBVIOUS
<1> HIDE DEF p, a
<1>2. a \div b = p /\ a % b = r
  BY <1>1, Quotient
<1> QED BY <1>2 DEF p, a

(* Adding less than a divisor to one of its multiples, and less than what   *)
(* is left of it to any number.                                             *)
LEMMA SumInBlock ==
  ASSUME NEW b \in Nat \ {0}, NEW x \in Nat, NEW y \in Nat, (x % b) + y < b
  PROVE  (x + y) \div b = x \div b /\ (x + y) % b = (x % b) + y
<1>1. x \div b \in Nat /\ x % b \in Nat /\ x = (b * (x \div b)) + (x % b)
  BY DivMod
<1>2. b * (x \div b) \in Nat
  BY <1>1
<1>3. x + y = (b * (x \div b)) + ((x % b) + y)
  BY <1>1, <1>2
<1> DEFINE p == x \div b
           r == (x % b) + y
           a == x + y
<1>4. p \in Nat /\ r \in Nat /\ r < b /\ a \in Nat /\ a = (b * p) + r
  BY <1>1, <1>3
<1> HIDE DEF p, r, a
<1>5. a \div b = p /\ a % b = r
  BY <1>4, Quotient
<1> QED BY <1>5 DEF p, r, a

LEMMA SumFromBoundary ==
  ASSUME NEW b \in Nat \ {0}, NEW x \in Nat, NEW y \in Nat, x % b = 0
  PROVE  (x + y) \div b = (x \div b) + (y \div b) /\ (x + y) % b = y % b
<1>1. x \div b \in Nat /\ x = b * (x \div b)
  BY DivMod
<1>2. y \div b \in Nat /\ y % b \in Nat /\ y % b < b /\ y = (b * (y \div b)) + (y % b)
  BY DivMod
<1>3. b * ((x \div b) + (y \div b)) = (b * (x \div b)) + (b * (y \div b))
  BY <1>1, <1>2
<1>4. x + y = (b * ((x \div b) + (y \div b))) + (y % b)
  BY <1>1, <1>2, <1>3
<1> DEFINE p == (x \div b) + (y \div b)
           r == y % b
           a == x + y
<1>5. p \in Nat /\ r \in Nat /\ r < b /\ a \in Nat /\ a = (b * p) + r
  BY <1>1, <1>2, <1>4
<1> HIDE DEF p, r, a
<1>6. a \div b = p /\ a % b = r
  BY <1>5, Quotient
<1> QED BY <1>6 DEF p, r, a

-----------------------------------------------------------------------------
LEMMA InodeType ==
  ASSUME NEW inode \in 1 .. Len(Inodes)
  PROVE  /\ Inodes[inode].blocks \in Seq(Nat) /\ Inodes[inode].length \in Nat
         /\ Inodes[inode].length <= DATABLOCK_SIZE * Len(Inodes[inode].blocks)
<1> DEFINE InodeSet == [length : Nat, blocks : Seq(Nat)]
<1>1. Inodes[inode] \in InodeSet
  <2>1. Inodes \in Seq(InodeSet)
    BY InodesAssumption
  <2> HIDE DEF InodeSet
  <2> QED BY <2>1
<1> QED BY <1>1, InodesAssumption

(* A block number below the file's length, in blocks, is in its table.      *)
LEMMA BlockOfFile ==
  ASSUME NEW inode \in 1 .. Len(Inodes), NEW block \in Nat,
         DATABLOCK_SIZE * block < Inodes[inode].length
  PROVE  Inodes[inode].blocks[block + 1] \in Nat
<1> DEFINE B == DATABLOCK_SIZE
           blocks == Inodes[inode].blocks
<1>1. B \in Nat \ {0}
  BY NumbersAssumption
<1>2. /\ blocks \in Seq(Nat) /\ Inodes[inode].length \in Nat
      /\ Inodes[inode].length <= B * Len(blocks)
  BY InodeType
<1> HIDE DEF B, blocks
<1>3. Len(blocks) \in Nat /\ B * Len(blocks) \in Nat /\ B * block \in Nat
  BY <1>1, <1>2
<1>4. block < Len(blocks)
  <2>1. CASE block = Len(blocks)
    BY <2>1, <1>2, <1>3 DEF B
  <2>2. CASE Len(blocks) < block
    <3>1. (B * Len(blocks)) + B <= B * block
      BY <2>2, <1>1, <1>3, Multiples
    <3> QED BY <3>1, <1>1, <1>2, <1>3 DEF B
  <2> QED BY <2>1, <2>2, <1>3
<1>5. block + 1 \in 1 .. Len(blocks)
  BY <1>3, <1>4
<1> QED BY <1>2, <1>5 DEF blocks

LEMMA BlockOfByte ==
  ASSUME NEW inode \in 1 .. Len(Inodes), NEW k \in Nat, k < Inodes[inode].length
  PROVE  Inodes[inode].blocks[(k \div DATABLOCK_SIZE) + 1] \in Nat
<1> DEFINE B == DATABLOCK_SIZE
           q == k \div B
<1>1. B \in Nat \ {0}
  BY NumbersAssumption
<1>2. q \in Nat /\ k % B \in Nat /\ k = (B * q) + (k % B)
  BY <1>1, DivMod
<1> HIDE DEF q
<1>3. B * q \in Nat /\ B * q < Inodes[inode].length
  BY <1>1, <1>2, InodeType
<1>4. Inodes[inode].blocks[q + 1] \in Nat
  BY <1>2, <1>3, BlockOfFile
<1> QED BY <1>4 DEF q

LEMMA FileByteType ==
  ASSUME NEW inode \in 1 .. Len(Inodes), NEW k \in Nat, k < Inodes[inode].length
  PROVE  FileByte(inode, k) \in Nat
<1> DEFINE block == Inodes[inode].blocks[(k \div DATABLOCK_SIZE) + 1]
           place == k % DATABLOCK_SIZE
<1>1. DATABLOCK_SIZE \in Nat /\ place \in Nat
  BY NumbersAssumption, DivMod
<1>2. block \in Nat
  BY BlockOfByte
<1>3. FileByte(inode, k) = (block * DATABLOCK_SIZE) + place
  BY DEF FileByte
<1> HIDE DEF block, place
<1>4. block * DATABLOCK_SIZE \in Nat
  BY <1>1, <1>2
<1> QED BY <1>1, <1>3, <1>4

(* What read_data copies lies in the data blocks, even when it is wrong.    *)
LEMMA ReadDataType ==
  ASSUME NEW inode \in 1 .. Len(Inodes), NEW offset \in Nat, NEW length \in Nat,
         offset < Inodes[inode].length
  PROVE  /\ ReadData(inode, offset, length) \in Seq(Nat)
         /\ Len(ReadData(inode, offset, length)) = ReadLength(inode, offset, length)
         /\ ReadLength(inode, offset, length) \in 0 .. Inodes[inode].length - offset
<1> DEFINE n == ReadLength(inode, offset, length)
           B == DATABLOCK_SIZE
<1>1. B \in Nat \ {0} /\ Inodes[inode].length \in Nat
  BY NumbersAssumption, InodeType
<1>2. n \in 0 .. Inodes[inode].length - offset
  BY <1>1 DEF ReadLength
<1>3. ASSUME NEW k \in 1 .. n
      PROVE  DataPtr(inode, offset, k - 1) + ((k - 1) % B) \in Nat
  <2> DEFINE c == k - 1
             q == offset \div B
             r == c \div B
             x == offset % B
             y == c % B
             block == Inodes[inode].blocks[(q + r) + 1]
             start == IF c < B THEN offset % B ELSE 0
  <2>1. c \in Nat /\ offset + c < Inodes[inode].length
    BY <1>1, <1>2
  <2>2. /\ q \in Nat /\ x \in Nat /\ offset = (B * q) + x
        /\ r \in Nat /\ y \in Nat /\ c = (B * r) + y
    BY <1>1, <2>1, DivMod
  <2>3. DataPtr(inode, offset, c) = (block * B) + start
    BY DEF DataPtr
  <2>4. start \in Nat
    BY <2>2
  <2> HIDE DEF q, r, x, y, start
  <2>5. B * (q + r) = (B * q) + (B * r)
    BY <1>1, <2>2
  <2>6. B * q \in Nat /\ B * r \in Nat /\ q + r \in Nat
    BY <1>1, <2>2
  <2> HIDE DEF c
  <2>7. B * (q + r) < Inodes[inode].length
    BY <1>1, <2>1, <2>2, <2>5, <2>6
  <2>8. block \in Nat
    BY <2>6, <2>7, BlockOfFile
  <2> HIDE DEF block, B
  <2>9. (block * B) + start \in Nat
    BY <1>1, <2>4, <2>8
  <2> QED BY <2>2, <2>3, <2>9 DEF c, y, B
<1> HIDE DEF n
<1>4. ReadData(inode, offset, length) =
        [k \in 1 .. n |-> DataPtr(inode, offset, k - 1) + ((k - 1) % B)]
  BY DEF ReadData, n
<1>5. n \in Nat
  BY <1>1, <1>2
<1> DEFINE val(k) == DataPtr(inode, offset, k - 1) + ((k - 1) % B)
<1> HIDE DEF val
<1>6. \A k \in 1 .. n : val(k) \in Nat
  BY <1>3 DEF val
<1>7. [k \in 1 .. n |-> val(k)] \in Seq(Nat) /\ Len([k \in 1 .. n |-> val(k)]) = n
  BY <1>5, <1>6
<1> QED BY <1>2, <1>4, <1>7 DEF val, n

(* read_data copies the file's data if it starts at a block boundary or     *)
(* stays in one block: so does the load of a program in execute, from       *)
(* offset 0, and of its entry point, 4 bytes from offset 24 (syscalls.c).   *)
THEOREM ReadDataExact ==
  ASSUME NEW inode \in 1 .. Len(Inodes), NEW offset \in Nat, NEW length \in Nat,
         offset < Inodes[inode].length,
         \/ offset % DATABLOCK_SIZE = 0
         \/ (offset % DATABLOCK_SIZE) + length <= DATABLOCK_SIZE
  PROVE  ReadData(inode, offset, length) =
           FileData(inode, offset, ReadLength(inode, offset, length))
<1> DEFINE n == ReadLength(inode, offset, length)
           B == DATABLOCK_SIZE
<1>1. B \in Nat \ {0}
  BY NumbersAssumption
<1>2. Inodes[inode].length \in Nat
  BY InodeType
<1>3. n \in Nat /\ n <= length /\ offset + n <= Inodes[inode].length
  BY <1>2 DEF ReadLength
<1>4. SUFFICES ASSUME NEW k \in 1 .. n
               PROVE DataPtr(inode, offset, k - 1) + ((k - 1) % B)
                       = FileByte(inode, offset + k - 1)
  BY DEF ReadData, FileData
<1> DEFINE c == k - 1
           block == Inodes[inode].blocks[((offset + c) \div B) + 1]
<1> HIDE DEF n
<1>5. /\ c \in Nat /\ c < length /\ offset + c < Inodes[inode].length
      /\ offset + k - 1 = offset + c
  BY <1>2, <1>3
<1>6. block \in Nat /\ block * B \in Nat
  <2>1. offset + c \in Nat
    BY <1>5
  <2>2. block \in Nat
    <3> HIDE DEF c
    <3> QED BY <2>1, <1>5, BlockOfByte
  <2> HIDE DEF block, B
  <2> QED BY <2>2, <1>1
<1>7. /\ c % B \in Nat /\ c % B < B /\ c \div B \in Nat /\ c = (B * (c \div B)) + (c % B)
      /\ offset % B \in Nat /\ offset \div B \in Nat
  BY <1>1, <1>5, DivMod
<1>8. FileByte(inode, offset + k - 1) = (block * B) + ((offset + c) % B)
  BY <1>5 DEF FileByte
<1>9. CASE offset % B = 0
  <2>1. /\ (offset + c) \div B = (offset \div B) + (c \div B)
        /\ (offset + c) % B = c % B
    BY <1>1, <1>5, <1>9, SumFromBoundary
  <2>2. DataPtr(inode, offset, c) = (block * B) + 0
    BY <2>1, <1>9 DEF DataPtr
  <2> HIDE DEF c, block, B
  <2> QED BY <2>1, <2>2, <1>6, <1>7, <1>8 DEF c, B
<1>10. CASE (offset % B) + length <= B
  <2>1. c < B /\ (offset % B) + c < B
    BY <1>1, <1>5, <1>7, <1>10
  <2>2. /\ (offset + c) \div B = offset \div B
        /\ (offset + c) % B = (offset % B) + c
    BY <1>1, <1>5, <2>1, SumInBlock
  <2>3. c \div B = 0 /\ c % B = c
    <3> HIDE DEF c, B
    <3> QED BY <1>1, <1>5, <2>1, BelowDivisor
  <2>4. DataPtr(inode, offset, c) = (block * B) + (offset % B)
    <3>1. (offset \div B) + (c \div B) = (offset + c) \div B
      BY <1>7, <2>2, <2>3
    <3> QED BY <3>1, <2>1 DEF DataPtr
  <2> HIDE DEF c, block, B
  <2> QED BY <2>2, <2>3, <2>4, <1>5, <1>6, <1>7, <1>8 DEF c, B
<1> QED
  BY <1>9, <1>10

-----------------------------------------------------------------------------
(* Types and descriptors: no step depends on what the files hold.           *)
Shape == TypeOK /\ Descriptors

LEMMA StdTypes ==
  /\ StdFd("stdin") \in FdSet /\ StdFd("stdout") \in FdSet /\ NoFd \in FdSet
  /\ \A name \in 1 .. NumDentries :
       Dentries[name].type # "invalid" =>
         /\ NewFd(Dentries[name]) \in FdSet
         /\ NewFd(Dentries[name]).table \in {"rtc", "dir", "file"}
<1>1. Len(Inodes) \in Nat
  BY InodesAssumption
<1>2. StdFd("stdin") \in FdSet /\ StdFd("stdout") \in FdSet /\ NoFd \in FdSet
  BY <1>1 DEF StdFd, NoFd, FdSet, FileTypes
<1>3. ASSUME NEW name \in 1 .. NumDentries, Dentries[name].type # "invalid"
      PROVE  /\ NewFd(Dentries[name]) \in FdSet
             /\ NewFd(Dentries[name]).table \in {"rtc", "dir", "file"}
  <2> DEFINE DentrySet == [type : FileTypes, inode : 1 .. Len(Inodes)]
             d == Dentries[name]
  <2>1. d \in DentrySet
    <3>1. Dentries \in Seq(DentrySet)
      BY DentriesAssumption
    <3> HIDE DEF DentrySet
    <3> QED BY <3>1 DEF NumDentries
  <2>2. d.type \in {"rtc", "dir", "file"} /\ d.inode \in 1 .. Len(Inodes)
    BY <1>3, <2>1 DEF FileTypes
  <2>3. Inodes[d.inode].length \in Nat
    BY <2>2, InodeType
  <2> HIDE DEF d
  <2>4. NewFd(d) \in FdSet /\ NewFd(d).table \in {"rtc", "dir", "file"}
    BY <1>1, <2>2, <2>3 DEF NewFd, FdSet, FileTypes
  <2> QED BY <2>4 DEF d
<1> QED BY <1>2, <1>3

LEMMA FreshTypes ==
  /\ FreshFds \in [Fd -> FdSet]
  /\ FreshFds[0] = StdFd("stdin") /\ FreshFds[1] = StdFd("stdout")
  /\ \A fd \in 2 .. FD_ARRAY_SIZE - 1 : FreshFds[fd].flags = 0
  /\ [fd \in Fd |-> NoFd] \in [Fd -> FdSet]
  BY StdTypes, NumbersAssumption DEF FreshFds, Fd, NoFd

LEMMA InitShape == Init => Shape
<1> SUFFICES ASSUME Init PROVE Shape
  OBVIOUS
<1> USE DEF Init
<1>1. TypeOK
  BY FreshTypes, RootsAssumption DEF TypeOK, dirVars
<1>2. Descriptors
  <2>1. ASSUME NEW p \in alive PROVE fd_array[p] = FreshFds
    BY <2>1, RootsAssumption
  <2>2. ASSUME NEW p \in Procs \ alive, NEW fd \in Fd PROVE fd_array[p][fd] = NoFd
    BY <2>2
  <2> HIDE DEF Init
  <2> QED BY <2>1, <2>2, FreshTypes DEF Descriptors
<1> QED BY <1>1, <1>2 DEF Shape

-----------------------------------------------------------------------------
(* One lemma per action.                                                    *)

(* The descriptors that a step on p leaves as they were.                    *)
LEMMA OneDescriptor ==
  ASSUME Shape, NEW p \in alive, NEW fd \in 2 .. FD_ARRAY_SIZE - 1, NEW f \in FdSet,
         fd_array' = [fd_array EXCEPT ![p][fd] = f], alive' = alive,
         f.flags = 1 => f.table \in {"rtc", "dir", "file"}
  PROVE  fd_array' \in [Procs -> [Fd -> FdSet]] /\ Descriptors'
<1>1. p \in Procs /\ fd \in Fd /\ 0 \in Fd /\ 1 \in Fd /\ fd # 0 /\ fd # 1
  BY NumbersAssumption DEF Shape, TypeOK, Fd
<1>2. fd_array \in [Procs -> [Fd -> FdSet]]
  BY DEF Shape, TypeOK
<1>3. fd_array' \in [Procs -> [Fd -> FdSet]]
  BY <1>1, <1>2
<1>4. \A q \in Procs, e \in Fd :
        fd_array'[q][e] = IF q = p /\ e = fd THEN f ELSE fd_array[q][e]
  BY <1>1, <1>2
<1>5. alive \subseteq Procs /\ 2 .. FD_ARRAY_SIZE - 1 \subseteq Fd
  BY NumbersAssumption DEF Shape, TypeOK, Fd
<1>6. Descriptors'
  BY <1>1, <1>4, <1>5 DEF Descriptors, Shape
<1> QED BY <1>3, <1>6

LEMMA OpenStep ==
  ASSUME Shape, NEW p \in Procs, Open(p)
  PROVE  Shape'
<1>1. PICK name \in 1 .. NumDentries, fd \in 2 .. FD_ARRAY_SIZE - 1 :
        /\ Running(p) /\ FirstFree(p, fd) /\ Dentries[name].type # "invalid"
        /\ fd_array' = [fd_array EXCEPT ![p][fd] = NewFd(Dentries[name])]
        /\ got' = [got EXCEPT ![p][fd] = <<>>]
        /\ own' = [own EXCEPT ![p] = @ \cup {fd}]
        /\ listed' = IF Dentries[name].type = "dir" THEN [listed EXCEPT ![p] = {}]
                     ELSE listed
        /\ UNCHANGED <<alive, file_index, pc, loaded, round>>
  BY DEF Open, Opened
<1>2. p \in alive /\ fd \in Fd
  BY <1>1, NumbersAssumption DEF Running, Fd
<1>3. /\ NewFd(Dentries[name]) \in FdSet
      /\ NewFd(Dentries[name]).table \in {"rtc", "dir", "file"}
  BY <1>1, StdTypes
<1> DEFINE f == NewFd(Dentries[name])
<1> HIDE DEF f
<1>4. fd_array' \in [Procs -> [Fd -> FdSet]] /\ Descriptors'
  BY <1>1, <1>2, <1>3, OneDescriptor DEF f
<1>5. TypeOK'
  BY <1>1, <1>2, <1>4 DEF Shape, TypeOK
<1> QED BY <1>4, <1>5 DEF Shape

LEMMA CloseStep ==
  ASSUME Shape, NEW p \in Procs, Close(p)
  PROVE  Shape'
<1>1. PICK fd \in 2 .. FD_ARRAY_SIZE - 1 :
        /\ Running(p) /\ fd_array[p][fd].flags = 1
        /\ fd_array' = [fd_array EXCEPT ![p][fd].flags = 0]
        /\ UNCHANGED <<alive, got, own, dirVars>>
  BY DEF Close, ClosableFd
<1> DEFINE d == fd_array[p][fd]
           f == [d EXCEPT !.flags = 0]
<1>2. p \in alive /\ fd \in Fd
  BY <1>1, NumbersAssumption DEF Running, Fd
<1>3. d \in FdSet /\ fd_array' = [fd_array EXCEPT ![p][fd] = f]
  BY <1>1, <1>2 DEF Shape, TypeOK
<1> HIDE DEF d
<1>4. f \in FdSet /\ f.flags = 0
  BY <1>3 DEF FdSet
<1>8. f.flags = 1 => f.table \in {"rtc", "dir", "file"}
  BY <1>4
<1> HIDE DEF f
<1>5. alive' = alive /\ UNCHANGED <<got, own>> /\ UNCHANGED dirVars
  BY <1>1
<1>6. fd_array' \in [Procs -> [Fd -> FdSet]] /\ Descriptors'
  BY <1>2, <1>3, <1>4, <1>8, <1>5, OneDescriptor
<1>7. TypeOK'
  BY <1>5, <1>6 DEF Shape, TypeOK, dirVars
<1> QED BY <1>6, <1>7 DEF Shape

LEMMA ReadFileStep ==
  ASSUME Shape, NEW p \in Procs, ReadFile(p)
  PROVE  Shape'
<1>1. PICK fd \in Fd, nbytes \in Sizes :
        /\ Readable(p, fd) /\ fd_array[p][fd].table = "file"
        /\ LET f == fd_array[p][fd]
               data == ReadData(f.inode, f.file_pos, nbytes)
           IN /\ f.file_pos < Inodes[f.inode].length
              /\ fd_array' = [fd_array EXCEPT ![p][fd].file_pos = @ + Len(data)]
              /\ got' = [got EXCEPT ![p][fd] = @ \o data]
        /\ UNCHANGED <<alive, own, dirVars>>
  BY DEF ReadFile
<1> DEFINE d == fd_array[p][fd]
           data == ReadData(d.inode, d.file_pos, nbytes)
           f == [d EXCEPT !.file_pos = d.file_pos + Len(data)]
<1>2. p \in alive /\ fd # 1 /\ d.table = "file" /\ d.flags = 1
  BY <1>1 DEF Readable, Running
<1>3. fd \in 2 .. FD_ARRAY_SIZE - 1
  <2>1. fd_array[p][0].table = "stdin"
    BY <1>2 DEF Shape, Descriptors, StdFd
  <2> QED BY <1>2, <2>1, NumbersAssumption DEF Fd
<1>4. d \in FdSet
  BY <1>2 DEF Shape, TypeOK
<1>5. nbytes \in Nat /\ d.file_pos < Inodes[d.inode].length
  BY <1>1, NumbersAssumption
<1>6. /\ fd_array' = [fd_array EXCEPT ![p][fd] = f]
      /\ got' = [got EXCEPT ![p][fd] = @ \o data]
  BY <1>1, <1>2 DEF Shape, TypeOK
<1> HIDE DEF d
<1>7. d.inode \in 1 .. Len(Inodes) /\ d.file_pos \in Nat
  BY <1>2, <1>4, InodesAssumption DEF FdSet
<1>8. data \in Seq(Nat) /\ Len(data) \in 0 .. Inodes[d.inode].length - d.file_pos
  BY <1>5, <1>7, ReadDataType
<1> HIDE DEF data
<1>14. d.file_pos + Len(data) \in 0 .. Inodes[d.inode].length
  BY <1>7, <1>8, InodeType
<1>9. f \in FdSet /\ f.table = "file"
  BY <1>2, <1>4, <1>7, <1>14 DEF FdSet
<1> HIDE DEF f
<1>10. alive' = alive /\ UNCHANGED own /\ UNCHANGED dirVars
  BY <1>1
<1>11. fd_array' \in [Procs -> [Fd -> FdSet]] /\ Descriptors'
  BY <1>2, <1>3, <1>6, <1>9, <1>10, OneDescriptor
<1>12. got' \in [Procs -> [Fd -> Seq(Nat)]]
  <2>1. got[p][fd] \in Seq(Nat)
    BY DEF Shape, TypeOK
  <2>2. got[p][fd] \o data \in Seq(Nat)
    BY <2>1, <1>8
  <2> QED BY <2>2, <1>6 DEF Shape, TypeOK
<1>13. TypeOK'
  BY <1>10, <1>11, <1>12 DEF Shape, TypeOK, dirVars
<1> QED BY <1>11, <1>13 DEF Shape

(* The steps of dir_read leave the descriptors.                             *)
LEMMA SameDescriptors ==
  ASSUME Shape, UNCHANGED <<fd_array, alive>>
  PROVE  Descriptors'
  BY DEF Shape, Descriptors

LEMMA DirStep ==
  ASSUME Shape, NEW p \in Procs,
         DirCheck(p) \/ DirEntry(p) \/ DirLoad(p) \/ DirStore(p)
  PROVE  Shape'
<1>1. NumDentries \in Nat
  BY DentriesAssumption DEF NumDentries
<1>2. CASE DirCheck(p)
  <2>1. UNCHANGED <<fd_array, alive, loaded, got, own>>
    BY <1>2 DEF DirCheck, DirEnd
  <2>2. /\ file_index' \in {file_index, 0} /\ round' \in {round, {}}
        /\ listed' \in {listed, [listed EXCEPT ![p] = {}]}
        /\ pc' \in {pc, [pc EXCEPT ![p] = "entry"]}
    BY <1>2 DEF DirCheck, DirEnd
  <2>3. file_index' \in Nat /\ round' \subseteq 1 .. NumDentries
    BY <2>2 DEF Shape, TypeOK
  <2>4. pc' \in [Procs -> {"user", "entry", "load", "store"}]
    BY <2>2 DEF Shape, TypeOK
  <2>5. listed' \in [Procs -> SUBSET (1 .. NumDentries)]
    BY <2>2 DEF Shape, TypeOK
  <2>6. TypeOK'
    BY <2>1, <2>3, <2>4, <2>5 DEF Shape, TypeOK
  <2> QED BY <2>1, <2>6, SameDescriptors DEF Shape
<1>3. CASE DirEntry(p)
  <2>1. file_index < NumDentries => file_index + 1 \in 1 .. NumDentries
    BY <1>1 DEF Shape, TypeOK
  <2>2. TypeOK' /\ UNCHANGED <<fd_array, alive>>
    <3>1. UNCHANGED <<fd_array, alive, file_index, loaded, got, own>>
      BY <1>3 DEF DirEntry
    <3>2. CASE file_index < NumDentries
      <4>1. /\ listed' = [listed EXCEPT ![p] = listed[p] \cup {file_index + 1}]
            /\ round' = round \cup {file_index + 1}
            /\ pc' = [pc EXCEPT ![p] = "load"]
        BY <1>3, <3>2 DEF DirEntry
      <4>2. listed' \in [Procs -> SUBSET (1 .. NumDentries)]
        BY <2>1, <3>2, <4>1 DEF Shape, TypeOK
      <4>3. round' \subseteq 1 .. NumDentries
        BY <2>1, <3>2, <4>1 DEF Shape, TypeOK
      <4>4. pc' \in [Procs -> {"user", "entry", "load", "store"}]
        BY <4>1 DEF Shape, TypeOK
      <4> QED BY <3>1, <4>2, <4>3, <4>4 DEF Shape, TypeOK
    <3>3. CASE ~(file_index < NumDentries)
      BY <1>3, <3>1, <3>3 DEF DirEntry, Shape, TypeOK
    <3> QED BY <3>1, <3>2, <3>3
  <2> QED BY <2>2, SameDescriptors DEF Shape
<1>4. CASE DirLoad(p)
  <2>1. TypeOK' /\ UNCHANGED <<fd_array, alive>>
    BY <1>4 DEF DirLoad, Shape, TypeOK
  <2> QED BY <2>1, SameDescriptors DEF Shape
<1>5. CASE DirStore(p)
  <2>1. loaded[p] + 1 \in Nat
    BY DEF Shape, TypeOK
  <2>2. TypeOK' /\ UNCHANGED <<fd_array, alive>>
    BY <1>5, <2>1 DEF DirStore, Shape, TypeOK
  <2> QED BY <2>2, SameDescriptors DEF Shape
<1> QED BY <1>2, <1>3, <1>4, <1>5

LEMMA ExecuteStep ==
  ASSUME Shape, NEW p \in Procs, Execute(p)
  PROVE  Shape'
<1>1. /\ alive' = alive \cup {p}
      /\ fd_array' = [fd_array EXCEPT ![p] = FreshFds]
      /\ UNCHANGED <<got, own>> /\ UNCHANGED dirVars
  BY DEF Execute
<1>2. TypeOK'
  BY <1>1, FreshTypes DEF Shape, TypeOK, dirVars
<1>3. \A q \in Procs : fd_array'[q] = IF q = p THEN FreshFds ELSE fd_array[q]
  BY <1>1 DEF Shape, TypeOK
<1>4. Descriptors'
  BY <1>1, <1>3, FreshTypes DEF Shape, TypeOK, Descriptors
<1> QED BY <1>2, <1>4 DEF Shape

LEMMA HaltStep ==
  ASSUME Shape, NEW p \in Procs, Halt(p)
  PROVE  Shape'
<1> DEFINE none == [fd \in Fd |-> NoFd]
<1>1. /\ alive' = alive \ {p}
      /\ fd_array' = [fd_array EXCEPT ![p] = none]
      /\ got' = [got EXCEPT ![p] = [fd \in Fd |-> <<>>]]
      /\ own' = [own EXCEPT ![p] = {}]
      /\ listed' = [listed EXCEPT ![p] = {}]
      /\ UNCHANGED <<file_index, pc, loaded, round>>
  BY DEF Halt
<1>2. none \in [Fd -> FdSet] /\ \A fd \in Fd : none[fd] = NoFd
  BY FreshTypes
<1> HIDE DEF none
<1>3. TypeOK'
  BY <1>1, <1>2 DEF Shape, TypeOK
<1>4. \A q \in Procs : fd_array'[q] = IF q = p THEN none ELSE fd_array[q]
  BY <1>1 DEF Shape, TypeOK
<1>5. Descriptors'
  BY <1>1, <1>2, <1>4 DEF Shape, TypeOK, Descriptors
<1> QED BY <1>3, <1>5 DEF Shape

LEMMA RestartStep ==
  ASSUME Shape, NEW p \in Procs, Restart(p)
  PROVE  Shape'
<1>1. TypeOK' /\ UNCHANGED <<fd_array, alive>>
  BY DEF Restart, Shape, TypeOK, dirVars
<1> QED BY <1>1, SameDescriptors DEF Shape

LEMMA StutterStep ==
  ASSUME Shape, UNCHANGED vars
  PROVE  Shape'
<1>1. TypeOK' /\ UNCHANGED <<fd_array, alive>>
  BY DEF vars, Shape, TypeOK
<1> QED BY <1>1, SameDescriptors DEF Shape

LEMMA NextShape == Shape /\ [Next]_vars => Shape'
<1>1. SUFFICES ASSUME Shape, [Next]_vars PROVE Shape'
  OBVIOUS
<1>2. ASSUME NEW p \in Procs,
             \/ Open(p) \/ Close(p) \/ ReadFile(p)
             \/ DirCheck(p) \/ DirEntry(p) \/ DirLoad(p) \/ DirStore(p)
             \/ Execute(p) \/ Halt(p) \/ Restart(p)
      PROVE Shape'
  BY <1>1, <1>2, OpenStep, CloseStep, ReadFileStep, DirStep, ExecuteStep, HaltStep,
     RestartStep
<1>3. CASE UNCHANGED vars
  BY <1>1, <1>3, StutterStep
<1> QED BY <1>1, <1>2, <1>3 DEF Next

(* Whatever programs open, close and read, every descriptor has its type,   *)
(* the position of an open file stays within the file, the programs that    *)
(* run have their terminal on 0 and 1, and a free pcb holds nothing open.   *)
THEOREM FilesInvariant == Spec => []Inv
<1>1. Init => Shape
  BY InitShape
<1>2. Shape /\ [Next]_vars => Shape'
  BY NextShape
<1>3. Shape => Inv
  BY DEF Shape, Inv
<1> QED BY <1>1, <1>2, <1>3, PTL DEF Spec

-----------------------------------------------------------------------------
(* The reads of programs that ask for multiples of a unit: whole blocks, or *)
(* one same part of a block each time.                                      *)
SizesFit(unit) ==
  /\ DATABLOCK_SIZE % unit = 0
  /\ \A n \in Sizes : n % unit = 0 /\ (n = unit \/ unit = DATABLOCK_SIZE)

(* Parts of a block that are read one after the other do not cross its end. *)
LEMMA PartInBlock ==
  ASSUME NEW unit \in Nat \ {0}, NEW b \in Nat \ {0}, b % unit = 0,
         NEW pos \in Nat, pos % unit = 0
  PROVE  (pos % b) + unit <= b
<1> DEFINE r == pos % b
           x == b * (pos \div b)
<1>1. /\ pos \div b \in Nat /\ r \in Nat /\ r < b /\ pos = x + r
  BY DivMod
<1>2. b = unit * (b \div unit) /\ b \div unit \in Nat
  BY DivMod
<1>3. x % unit = 0 /\ x \in Nat
  <2> DEFINE y == (b \div unit) * (pos \div b)
             z == 0
  <2>1. y \in Nat /\ x \in Nat /\ x = (unit * y) + z /\ z \in Nat /\ z < unit
    BY <1>1, <1>2, Z3
  <2> HIDE DEF x, y, z
  <2>2. x % unit = z
    BY <2>1, Quotient
  <2> QED BY <2>1, <2>2 DEF z
<1> HIDE DEF x, r
<1>4. r % unit = 0
  <2>1. (x + r) % unit = r % unit
    BY <1>1, <1>3, SumFromBoundary
  <2> QED BY <1>1, <2>1
<1>5. r = unit * (r \div unit) /\ r \div unit \in Nat
  BY <1>1, <1>4, DivMod
<1>6. r \div unit < b \div unit
  <2> DEFINE p == r \div unit
             q == b \div unit
  <2>1. p \in Nat /\ q \in Nat /\ r = unit * p /\ b = unit * q /\ r < b
    BY <1>1, <1>2, <1>5
  <2> HIDE DEF p, q
  <2>2. SUFFICES ASSUME ~ (p < q) PROVE FALSE
    BY DEF p, q
  <2>3. CASE p = q
    BY <2>1, <2>3
  <2>4. CASE q < p
    <3>1. (unit * q) + unit <= unit * p
      BY <2>1, <2>4, Multiples
    <3> QED BY <1>1, <2>1, <3>1
  <2> QED BY <2>1, <2>2, <2>3, <2>4
<1>7. (unit * (r \div unit)) + unit <= unit * (b \div unit)
  BY <1>2, <1>5, <1>6, Multiples
<1> QED BY <1>2, <1>5, <1>7 DEF r

WholeFd(unit, f, data) ==
  f.flags = 1 /\ f.table = "file" =>
    /\ data = FileData(f.inode, 0, f.file_pos)
    /\ f.file_pos % unit = 0 \/ f.file_pos = Inodes[f.inode].length

Whole(unit) == Shape /\ \A p \in alive, fd \in Fd : WholeFd(unit, fd_array[p][fd], got[p][fd])

LEMMA FileDataType ==
  ASSUME NEW inode \in 1 .. Len(Inodes), NEW offset \in Nat, NEW n \in Nat,
         offset + n <= Inodes[inode].length
  PROVE  FileData(inode, offset, n) \in Seq(Nat) /\ Len(FileData(inode, offset, n)) = n
<1> DEFINE val(k) == FileByte(inode, offset + k - 1)
<1>1. Inodes[inode].length \in Nat
  BY InodeType
<1>2. ASSUME NEW k \in 1 .. n PROVE val(k) \in Nat
  <2>1. offset + k - 1 \in Nat /\ offset + k - 1 < Inodes[inode].length
    BY <1>1
  <2> QED BY <2>1, FileByteType
<1>3. FileData(inode, offset, n) = [k \in 1 .. n |-> val(k)]
  BY DEF FileData
<1> HIDE DEF val
<1>4. \A k \in 1 .. n : val(k) \in Nat
  BY <1>2
<1>5. [k \in 1 .. n |-> val(k)] \in Seq(Nat) /\ Len([k \in 1 .. n |-> val(k)]) = n
  BY <1>4
<1> QED BY <1>3, <1>5

(* Two consecutive parts of a file are one.                                 *)
LEMMA FileDataConcat ==
  ASSUME NEW inode \in 1 .. Len(Inodes), NEW pos \in Nat, NEW n \in Nat,
         pos + n <= Inodes[inode].length
  PROVE  FileData(inode, 0, pos) \o FileData(inode, pos, n) = FileData(inode, 0, pos + n)
<1> DEFINE a == FileData(inode, 0, pos)
           b == FileData(inode, pos, n)
           c == FileData(inode, 0, pos + n)
<1>1. Inodes[inode].length \in Nat
  BY InodeType
<1>2. /\ a \in Seq(Nat) /\ Len(a) = pos /\ b \in Seq(Nat) /\ Len(b) = n
      /\ c \in Seq(Nat) /\ Len(c) = pos + n
  <2>1. 0 \in Nat /\ pos + n \in Nat /\ 0 + pos <= Inodes[inode].length
        /\ 0 + (pos + n) <= Inodes[inode].length
    BY <1>1
  <2> QED BY <2>1, FileDataType
<1>3. \A k \in 1 .. pos : a[k] = FileByte(inode, k - 1)
  <2>1. \A k \in 1 .. pos : 0 + k - 1 = k - 1
    OBVIOUS
  <2> QED BY <2>1 DEF FileData
<1>4. \A k \in 1 .. n : b[k] = FileByte(inode, pos + k - 1)
  BY DEF FileData
<1>5. \A k \in 1 .. pos + n : c[k] = FileByte(inode, k - 1)
  <2>1. \A k \in 1 .. pos + n : 0 + k - 1 = k - 1
    OBVIOUS
  <2> QED BY <2>1 DEF FileData
<1> HIDE DEF a, b, c
<1> DEFINE d == a \o b
<1>6. /\ d \in Seq(Nat) /\ Len(d) = pos + n
      /\ \A k \in 1 .. pos + n : d[k] = IF k <= pos THEN a[k] ELSE b[k - pos]
  <2>1. Len(a) = pos /\ Len(b) = n
    BY <1>2
  <2>2. /\ d \in Seq(Nat) /\ Len(d) = Len(a) + Len(b)
        /\ \A k \in 1 .. Len(a) + Len(b) :
             d[k] = IF k <= Len(a) THEN a[k] ELSE b[k - Len(a)]
    BY <1>2, ConcatProperties
  <2> HIDE DEF d
  <2> QED BY <2>1, <2>2
<1> HIDE DEF d
<1>7. ASSUME NEW k \in 1 .. pos + n PROVE d[k] = c[k]
  <2>1. CASE k <= pos
    <3>1. k \in 1 .. pos /\ d[k] = a[k]
      BY <2>1, <1>6
    <3> QED BY <3>1, <1>3, <1>5
  <2>2. CASE ~(k <= pos)
    <3>1. k - pos \in 1 .. n /\ d[k] = b[k - pos]
      BY <2>2, <1>6
    <3>2. pos + (k - pos) - 1 = k - 1
      OBVIOUS
    <3> QED BY <3>1, <3>2, <1>4, <1>5
  <2> QED BY <2>1, <2>2
<1>8. d = c
  BY <1>2, <1>6, <1>7, SeqEqual
<1> QED BY <1>8 DEF a, b, c, d

(* One read of such a size.                                                 *)
LEMMA ReadWhole ==
  ASSUME NEW unit \in Nat \ {0}, SizesFit(unit), NEW nbytes \in Sizes,
         NEW f \in FdSet, NEW data \in Seq(Nat), WholeFd(unit, f, data),
         f.flags = 1, f.table = "file", f.file_pos < Inodes[f.inode].length
  PROVE  LET new == ReadData(f.inode, f.file_pos, nbytes)
         IN WholeFd(unit, [f EXCEPT !.file_pos = f.file_pos + Len(new)], data \o new)
<1> DEFINE i == f.inode
           pos == f.file_pos
           n == ReadLength(i, pos, nbytes)
           new == ReadData(i, pos, nbytes)
           g == [f EXCEPT !.file_pos = pos + Len(new)]
<1>1. i \in 1 .. Len(Inodes) /\ pos \in Nat /\ Inodes[i].length \in Nat
  <2>1. i \in 1 .. Len(Inodes) /\ pos \in Nat
    BY InodesAssumption DEF FdSet
  <2> QED BY <2>1, InodeType
<1>2. pos % unit = 0 /\ data = FileData(i, 0, pos)
  BY <1>1 DEF WholeFd
<1>a. /\ nbytes \in Nat /\ nbytes % unit = 0
      /\ \/ pos % DATABLOCK_SIZE = 0
         \/ (pos % DATABLOCK_SIZE) + nbytes <= DATABLOCK_SIZE
  <2>1. nbytes \in Nat /\ nbytes % unit = 0 /\ DATABLOCK_SIZE % unit = 0
    BY NumbersAssumption DEF SizesFit
  <2>2. CASE unit = DATABLOCK_SIZE
    BY <1>2, <2>1, <2>2
  <2>3. CASE nbytes = unit
    <3>1. (pos % DATABLOCK_SIZE) + unit <= DATABLOCK_SIZE
      BY <1>1, <1>2, <2>1, NumbersAssumption, PartInBlock
    <3> QED BY <2>1, <2>3, <3>1
  <2> QED BY <2>2, <2>3 DEF SizesFit
<1>3. new = FileData(i, pos, n)
  BY <1>1, <1>a, ReadDataExact
<1>4. Len(new) = n /\ n \in 0 .. Inodes[i].length - pos
  BY <1>1, <1>a, ReadDataType
<1>5. g.inode = i /\ g.file_pos = pos + n
  BY <1>4 DEF FdSet
<1>6. data \o new = FileData(i, 0, pos + n)
  <2>1. n \in Nat /\ pos + n <= Inodes[i].length
    BY <1>1, <1>4
  <2>2. FileData(i, 0, pos) \o FileData(i, pos, n) = FileData(i, 0, pos + n)
    <3> HIDE DEF i, pos, n
    <3> QED BY <1>1, <2>1, FileDataConcat
  <2> QED BY <1>2, <1>3, <2>2
<1>7. (pos + n) % unit = 0 \/ pos + n = Inodes[i].length
  <2>1. CASE Inodes[i].length < pos + nbytes
    BY <2>1, <1>1 DEF ReadLength
  <2>2. CASE ~(Inodes[i].length < pos + nbytes)
    <3>1. n = nbytes
      BY <2>2 DEF ReadLength
    <3>2. (pos + nbytes) % unit = 0
      BY <1>1, <1>2, <1>a, SumFromBoundary
    <3> QED BY <3>1, <3>2
  <2> QED BY <2>1, <2>2
<1> HIDE DEF g, n, new
<1>8. WholeFd(unit, g, data \o new)
  BY <1>5, <1>6, <1>7 DEF WholeFd
<1> QED BY <1>8 DEF g, new

(* A step that leaves the processes that run and the files they have open.  *)
LEMMA WholeFrame ==
  ASSUME NEW unit \in Nat \ {0}, Whole(unit), alive' = alive,
         \A q \in alive, e \in Fd : WholeFd(unit, fd_array[q][e], got[q][e]) =>
                                      WholeFd(unit, fd_array'[q][e], got'[q][e]),
         Shape'
  PROVE  Whole(unit)'
<1>1. \A q \in alive', e \in Fd : WholeFd(unit, fd_array'[q][e], got'[q][e])
  BY DEF Whole
<1> QED BY <1>1 DEF Whole, WholeFd

LEMMA OpenWhole ==
  ASSUME NEW unit \in Nat \ {0}, Whole(unit), NEW p \in Procs, Open(p), Shape'
  PROVE  Whole(unit)'
<1>1. PICK name \in 1 .. NumDentries, fd \in 2 .. FD_ARRAY_SIZE - 1 :
        /\ fd_array' = [fd_array EXCEPT ![p][fd] = NewFd(Dentries[name])]
        /\ got' = [got EXCEPT ![p][fd] = <<>>]
        /\ alive' = alive
  BY DEF Open, Opened
<1>2. FileData(NewFd(Dentries[name]).inode, 0, 0) = <<>>
  BY DEF FileData
<1>3. 0 % unit = 0
  BY Z3
<1>4. WholeFd(unit, NewFd(Dentries[name]), <<>>)
  BY <1>2, <1>3 DEF WholeFd, NewFd
<1>5. \A q \in Procs, e \in Fd :
        IF q = p /\ e = fd
        THEN fd_array'[q][e] = NewFd(Dentries[name]) /\ got'[q][e] = <<>>
        ELSE fd_array'[q][e] = fd_array[q][e] /\ got'[q][e] = got[q][e]
  BY <1>1 DEF Whole, Shape, TypeOK
<1>6. \A q \in alive, e \in Fd : WholeFd(unit, fd_array[q][e], got[q][e]) =>
                                   WholeFd(unit, fd_array'[q][e], got'[q][e])
  <2>1. alive \subseteq Procs
    BY DEF Whole, Shape, TypeOK
  <2> QED BY <2>1, <1>4, <1>5
<1> QED BY <1>1, <1>6, WholeFrame

LEMMA CloseWhole ==
  ASSUME NEW unit \in Nat \ {0}, Whole(unit), NEW p \in Procs, Close(p), Shape'
  PROVE  Whole(unit)'
<1>1. PICK fd \in 2 .. FD_ARRAY_SIZE - 1 :
        /\ fd_array' = [fd_array EXCEPT ![p][fd].flags = 0]
        /\ UNCHANGED <<alive, got>>
  BY DEF Close, ClosableFd
<1>2. \A q \in Procs, e \in Fd :
        /\ q = p /\ e = fd => fd_array'[q][e].flags = 0
        /\ ~(q = p /\ e = fd) => fd_array'[q][e] = fd_array[q][e]
  <2>1. fd_array \in [Procs -> [Fd -> FdSet]]
    BY DEF Whole, Shape, TypeOK
  <2>2. \A e \in Fd : "flags" \in DOMAIN fd_array[p][e]
    <3>1. \A f \in FdSet : "flags" \in DOMAIN f
      BY DEF FdSet
    <3> QED BY <2>1, <3>1
  <2> QED BY <1>1, <2>1, <2>2
<1>3. \A q \in alive, e \in Fd : WholeFd(unit, fd_array[q][e], got[q][e]) =>
                                   WholeFd(unit, fd_array'[q][e], got'[q][e])
  <2>1. alive \subseteq Procs
    BY DEF Whole, Shape, TypeOK
  <2> QED BY <2>1, <1>1, <1>2 DEF WholeFd
<1> QED BY <1>1, <1>3, WholeFrame

LEMMA ReadFileWhole ==
  ASSUME NEW unit \in Nat \ {0}, Whole(unit), NEW p \in Procs, ReadFile(p), Shape',
         SizesFit(unit)
  PROVE  Whole(unit)'
<1>1. PICK fd \in Fd, nbytes \in Sizes :
        /\ Readable(p, fd) /\ fd_array[p][fd].table = "file"
        /\ LET f == fd_array[p][fd]
               data == ReadData(f.inode, f.file_pos, nbytes)
           IN /\ f.file_pos < Inodes[f.inode].length
              /\ fd_array' = [fd_array EXCEPT ![p][fd].file_pos = @ + Len(data)]
              /\ got' = [got EXCEPT ![p][fd] = @ \o data]
        /\ UNCHANGED <<alive, own, dirVars>>
  BY DEF ReadFile
<1> DEFINE d == fd_array[p][fd]
           old == got[p][fd]
           data == ReadData(d.inode, d.file_pos, nbytes)
           f == [d EXCEPT !.file_pos = d.file_pos + Len(data)]
<1>2. p \in alive /\ alive' = alive /\ d.flags = 1
  BY <1>1 DEF Readable, Running
<1>3. d \in FdSet /\ old \in Seq(Nat)
  BY DEF Whole, Shape, TypeOK
<1>4. WholeFd(unit, d, old)
  BY <1>2 DEF Whole
<1>5. /\ d.table = "file" /\ d.file_pos < Inodes[d.inode].length
      /\ nbytes \in Sizes
  BY <1>1
<1>6. \A q \in Procs, e \in Fd :
        IF q = p /\ e = fd
        THEN fd_array'[q][e] = f /\ got'[q][e] = old \o data
        ELSE fd_array'[q][e] = fd_array[q][e] /\ got'[q][e] = got[q][e]
  BY <1>1, ZenonT(60) DEF Whole, Shape, TypeOK
<1>7. WholeFd(unit, f, old \o data)
  <2> HIDE DEF d, old
  <2> QED BY <1>2, <1>3, <1>4, <1>5, ReadWhole
<1> HIDE DEF f, data
<1>8. \A q \in alive, e \in Fd : WholeFd(unit, fd_array[q][e], got[q][e]) =>
                                   WholeFd(unit, fd_array'[q][e], got'[q][e])
  <2>1. alive \subseteq Procs
    BY DEF Whole, Shape, TypeOK
  <2> QED BY <2>1, <1>6, <1>7
<1> QED BY <1>2, <1>8, WholeFrame

LEMMA ExecuteWhole ==
  ASSUME NEW unit \in Nat \ {0}, Whole(unit), NEW p \in Procs, Execute(p), Shape'
  PROVE  Whole(unit)'
<1>1. /\ alive' = alive \cup {p} /\ got' = got
      /\ fd_array' = [fd_array EXCEPT ![p] = FreshFds]
  BY DEF Execute
<1>2. \A e \in Fd : FreshFds[e].table # "file"
  BY DEF FreshFds, StdFd, NoFd
<1>3. \A q \in Procs : fd_array'[q] = IF q = p THEN FreshFds ELSE fd_array[q]
  BY <1>1 DEF Whole, Shape, TypeOK
<1>4. alive \subseteq Procs
  BY DEF Whole, Shape, TypeOK
<1>5. \A q \in alive', e \in Fd : WholeFd(unit, fd_array'[q][e], got'[q][e])
  BY <1>1, <1>2, <1>3, <1>4 DEF Whole, WholeFd
<1> QED BY <1>5 DEF Whole, WholeFd

LEMMA HaltWhole ==
  ASSUME NEW unit \in Nat \ {0}, Whole(unit), NEW p \in Procs, Halt(p), Shape'
  PROVE  Whole(unit)'
<1>1. /\ alive' = alive \ {p}
      /\ fd_array' = [fd_array EXCEPT ![p] = [fd \in Fd |-> NoFd]]
      /\ got' = [got EXCEPT ![p] = [fd \in Fd |-> <<>>]]
  BY DEF Halt
<1>2. alive \subseteq Procs
  BY DEF Whole, Shape, TypeOK
<1>3. \A q \in alive' : q \in alive /\ fd_array'[q] = fd_array[q] /\ got'[q] = got[q]
  BY <1>1, <1>2 DEF Whole, Shape, TypeOK
<1>4. \A q \in alive', e \in Fd : WholeFd(unit, fd_array'[q][e], got'[q][e])
  BY <1>3 DEF Whole
<1> QED BY <1>4 DEF Whole, WholeFd

LEMMA NextWhole ==
  ASSUME NEW unit \in Nat \ {0}, SizesFit(unit)
  PROVE  Whole(unit) /\ [Next]_vars => Whole(unit)'
<1>1. SUFFICES ASSUME Whole(unit), [Next]_vars PROVE Whole(unit)'
  OBVIOUS
<1>2. Shape'
  BY <1>1, NextShape DEF Whole
<1>3. ASSUME UNCHANGED <<fd_array, alive, got>> PROVE Whole(unit)'
  <2>1. \A q \in alive, e \in Fd : WholeFd(unit, fd_array[q][e], got[q][e]) =>
                                     WholeFd(unit, fd_array'[q][e], got'[q][e])
    BY <1>3
  <2> QED BY <1>1, <1>2, <1>3, <2>1, WholeFrame
<1>4. ASSUME NEW p \in Procs,
             DirCheck(p) \/ DirEntry(p) \/ DirLoad(p) \/ DirStore(p) \/ Restart(p)
      PROVE UNCHANGED <<fd_array, alive, got>>
  BY <1>4 DEF DirCheck, DirEnd, DirEntry, DirLoad, DirStore, Restart
<1>5. CASE UNCHANGED vars
  BY <1>3, <1>5 DEF vars
<1>6. ASSUME NEW p \in Procs,
             \/ Open(p) \/ Close(p) \/ ReadFile(p)
             \/ DirCheck(p) \/ DirEntry(p) \/ DirLoad(p) \/ DirStore(p)
             \/ Execute(p) \/ Halt(p) \/ Restart(p)
      PROVE Whole(unit)'
  <2>1. CASE Open(p)
    BY <1>1, <1>2, <2>1, OpenWhole
  <2>2. CASE Close(p)
    BY <1>1, <1>2, <2>2, CloseWhole
  <2>3. CASE ReadFile(p)
    BY <1>1, <1>2, <2>3, ReadFileWhole
  <2>4. CASE Execute(p)
    BY <1>1, <1>2, <2>4, ExecuteWhole
  <2>5. CASE Halt(p)
    BY <1>1, <1>2, <2>5, HaltWhole
  <2> QED BY <1>3, <1>4, <1>6, <2>1, <2>2, <2>3, <2>4, <2>5
<1> QED BY <1>1, <1>5, <1>6 DEF Next

(* Programs that read whole blocks, or always the same part of a block, are *)
(* given their files whole, each byte once and in order, however their      *)
(* calls interleave.                                                        *)
THEOREM FilesWhole ==
  ASSUME NEW unit \in Nat \ {0}, SizesFit(unit)
  PROVE  Spec => []FileWhole
<1>1. Init => Whole(unit)
  <2>1. SUFFICES ASSUME Init PROVE \A p \in alive, fd \in Fd :
                   WholeFd(unit, fd_array[p][fd], got[p][fd])
    BY InitShape DEF Whole
  <2>2. \A e \in Fd : FreshFds[e].table # "file"
    BY DEF FreshFds, StdFd, NoFd
  <2>3. \A p \in alive : fd_array[p] = FreshFds
    BY <2>1, RootsAssumption DEF Init
  <2> QED BY <2>2, <2>3 DEF WholeFd
<1>2. Whole(unit) /\ [Next]_vars => Whole(unit)'
  BY NextWhole
<1>3. Whole(unit) => FileWhole
  BY DEF Whole, WholeFd, FileWhole
<1> QED BY <1>1, <1>2, <1>3, PTL DEF Spec

-----------------------------------------------------------------------------
(* The listing of the directory by one process.  Its step between two       *)
(* accesses to file_index finds it as it was left.                          *)
Listing == {p \in Procs : pc[p] \in {"load", "store"}}

Alone ==
  /\ file_index <= NumDentries
  /\ \A p \in Procs : pc[p] # "user" => p \in Listers
  /\ \A p \in Procs : pc[p] # "user" => file_index < NumDentries
  /\ \A p \in Procs : pc[p] = "store" => loaded[p] = file_index
  /\ Listing = {} => round = 1 .. file_index
  /\ Listing # {} => round = 1 .. file_index + 1

LEMMA NextAlone ==
  ASSUME \A p, q \in Listers : p = q, Shape, Alone, [Next]_vars
  PROVE  Alone'
<1> USE DEF Alone, Listing
<1>1. NumDentries \in Nat /\ file_index \in Nat
  BY DentriesAssumption DEF NumDentries, Shape, TypeOK
<1>2. pc \in [Procs -> {"user", "entry", "load", "store"}] /\ loaded \in [Procs -> Nat]
  BY DEF Shape, TypeOK
<1>3. ASSUME UNCHANGED dirVars PROVE Alone'
  BY <1>3 DEF dirVars
<1>4. ASSUME NEW p \in Procs, DirCheck(p) PROVE Alone'
  <2>1. p \in Listers /\ pc[p] = "user"
    BY <1>4 DEF DirCheck, Readable, Running
  <2>2. \A q \in Procs : pc[q] = "user"
    BY <2>1
  <2>3. CASE AtEnd
    BY <1>1, <1>4, <2>2, <2>3 DEF DirCheck, DirEnd
  <2>4. CASE ~AtEnd
    BY <1>1, <1>2, <1>4, <2>1, <2>2, <2>4 DEF DirCheck, AtEnd
  <2> QED BY <2>3, <2>4
<1>5. ASSUME NEW p \in Procs, DirEntry(p) PROVE Alone'
  <2>1. pc[p] = "entry" /\ file_index < NumDentries
    BY <1>5 DEF DirEntry, At
  <2>2. \A q \in Procs : q # p => pc[q] = "user"
    BY <2>1
  <2>3. pc' = [pc EXCEPT ![p] = "load"] /\ round' = round \cup {file_index + 1}
    BY <1>5, <2>1 DEF DirEntry
  <2>4. file_index' = file_index /\ loaded' = loaded
    BY <1>5 DEF DirEntry
  <2>5. round = 1 .. file_index
    BY <2>1, <2>2
  <2>6. round' = 1 .. file_index + 1
    BY <1>1, <2>3, <2>5
  <2>7. \A q \in Procs : pc'[q] = IF q = p THEN "load" ELSE "user"
    BY <1>2, <2>2, <2>3
  <2>8. Listing' = {p}
    BY <2>7
  <2> QED BY <2>1, <2>4, <2>6, <2>7, <2>8
<1>6. ASSUME NEW p \in Procs, DirLoad(p) PROVE Alone'
  <2>1. pc[p] = "load" /\ \A q \in Procs : q # p => pc[q] = "user"
    BY <1>6 DEF DirLoad, At
  <2>2. \A q \in Procs : pc'[q] = IF q = p THEN "store" ELSE "user"
    BY <1>2, <1>6, <2>1 DEF DirLoad
  <2>3. loaded'[p] = file_index /\ UNCHANGED <<file_index, round>>
    BY <1>2, <1>6 DEF DirLoad
  <2>4. Listing # {} /\ Listing' = {p}
    BY <2>1, <2>2
  <2> QED BY <2>1, <2>2, <2>3, <2>4
<1>7. ASSUME NEW p \in Procs, DirStore(p) PROVE Alone'
  <2>1. pc[p] = "store" /\ \A q \in Procs : q # p => pc[q] = "user"
    BY <1>7 DEF DirStore, At
  <2>2. \A q \in Procs : pc'[q] = "user"
    BY <1>2, <1>7, <2>1 DEF DirStore
  <2>3. file_index' = file_index + 1 /\ round' = round
    BY <1>7, <2>1 DEF DirStore
  <2>4. Listing # {} /\ Listing' = {}
    BY <2>1, <2>2
  <2> QED BY <1>1, <2>1, <2>2, <2>3, <2>4
<1>8. ASSUME NEW p \in Procs, Halt(p) PROVE Alone'
  BY <1>8 DEF Halt
<1>9. CASE UNCHANGED vars
  BY <1>3, <1>9 DEF vars, dirVars
<1>10. ASSUME NEW p \in Procs, Open(p) PROVE Alone'
  BY <1>10 DEF Open
<1>11. ASSUME NEW p \in Procs, Close(p) \/ ReadFile(p) \/ Execute(p) \/ Restart(p)
       PROVE Alone'
  BY <1>3, <1>11 DEF Close, ReadFile, Execute, Restart
<1> QED BY <1>4, <1>5, <1>6, <1>7, <1>8, <1>9, <1>10, <1>11 DEF Next

LEMMA InitAlone == Init => Alone
  BY DentriesAssumption DEF Init, Alone, Listing, NumDentries

(* With one process that lists directories, none of its reads fails.        *)
THEOREM DirectoryReads ==
  ASSUME \A p, q \in Listers : p = q
  PROVE  Spec => []DirReadFinds
<1>1. Init => Shape /\ Alone
  BY InitShape, InitAlone
<1>2. Shape /\ Alone /\ [Next]_vars => Shape' /\ Alone'
  BY NextShape, NextAlone
<1>3. Alone => DirReadFinds
  BY DEF Alone, DirReadFinds, At
<1> QED BY <1>1, <1>2, <1>3, PTL DEF Spec

(* With one process that lists directories, every name has been delivered   *)
(* when a read finds the end.                                               *)
THEOREM DirectoryRounds ==
  ASSUME \A p, q \in Listers : p = q
  PROVE  Spec => DirRounds
<1>1. Init => Shape /\ Alone
  BY InitShape, InitAlone
<1>2. Shape /\ Alone /\ [Next]_vars => Shape' /\ Alone'
  BY NextShape, NextAlone
<1>3. Shape /\ Alone /\ [Next]_vars =>
        [\A p \in Procs : DirCheck(p) /\ DirEnd(p) => round = 1 .. NumDentries]_vars
  <2>1. SUFFICES ASSUME Shape, Alone, NEW p \in Procs, DirCheck(p), DirEnd(p)
                 PROVE  round = 1 .. NumDentries
    OBVIOUS
  <2>2. NumDentries \in Nat /\ file_index \in Nat
    BY <2>1, DentriesAssumption DEF NumDentries, Shape, TypeOK
  <2>3. pc[p] = "user"
    BY <2>1 DEF DirCheck, Readable, Running
  <2>4. pc'[p] = "user"
    BY <2>1, <2>3 DEF DirEnd
  <2>5. file_index = NumDentries
    BY <2>1, <2>4 DEF DirCheck, AtEnd, Shape, TypeOK
  <2>6. Listing = {}
    BY <2>1, <2>2, <2>5 DEF Alone, Listing
  <2> QED BY <2>1, <2>5, <2>6 DEF Alone
<1> QED BY <1>1, <1>2, <1>3, PTL DEF Spec, DirRounds
=============================================================================
