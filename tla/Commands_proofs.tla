-------------------------- MODULE Commands_proofs ---------------------------
(***************************************************************************)
(* Commands, for any directory and any texts: which program a command      *)
(* runs, with which arguments, and what open finds.                        *)
(***************************************************************************)
EXTENDS Commands, SequenceTheorems, WellFoundedInduction, TLAPS

LEMMA LeastElement ==
  ASSUME NEW T \in SUBSET Nat, T # {}
  PROVE  First(T) \in T /\ \A y \in T : First(T) <= y
<1> DEFINE R == OpToRel(<, Nat)
<1>1. IsWellFoundedOn(R, Nat)
  BY NatLessThanWellFounded
<1>2. \A x, y \in Nat : <<y, x>> \in R <=> y < x
  BY DEF OpToRel
<1> HIDE DEF R
<1>3. PICK x \in T : \A y \in T : ~(<<y, x>> \in R)
  BY <1>1, WFMin
<1>4. ASSUME NEW y \in T PROVE x <= y
  <2>1. ~(y < x)
    BY <1>2, <1>3
  <2> QED BY <2>1
<1> QED BY <1>4 DEF First

LEMMA SameText ==
  ASSUME NEW s \in Seq(Char), NEW t \in Seq(Char), Len(s) = Len(t),
         \A i \in 1 .. Len(s) : s[i] = t[i]
  PROVE  s = t
  BY SeqEqual

LEMMA Chars ==
  ASSUME NEW s \in Seq(Char)
  PROVE  Len(s) \in Nat /\ \A i \in 1 .. Len(s) : s[i] \in Char /\ s[i] # "nul" /\ s[i] # "size"
<1>1. Len(s) \in Nat /\ \A i \in 1 .. Len(s) : s[i] \in Char
  OBVIOUS
<1> QED BY <1>1 DEF Char

-----------------------------------------------------------------------------
(* The directory.                                                           *)
Dirs == 1 .. Len(Dentries)

LEMMA Directory ==
  /\ Len(Dentries) \in Nat
  /\ \A k \in Dirs : /\ Dentries[k].name \in Seq(Char) /\ Dentries[k].inode \in Nat
                     /\ Dentries[k].type \in 0 .. 2
                     /\ Len(Dentries[k].name) \in 1 .. FILENAME_SIZE
  /\ \A k, l \in Dirs : Dentries[k].name = Dentries[l].name => k = l
<1> DEFINE D == [name : Seq(Char), type : Filetypes, inode : Nat]
<1>1. Dentries \in Seq(D)
  BY DentriesAssumption
<1> HIDE DEF D
<1>2. Len(Dentries) \in Nat /\ \A k \in 1 .. Len(Dentries) : Dentries[k] \in D
  BY <1>1
<1>3. \A d \in D : d.name \in Seq(Char) /\ d.type \in 0 .. 2 /\ d.inode \in Nat
  BY DEF D, Filetypes
<1> QED BY <1>2, <1>3, DentriesAssumption DEF Dirs

(* The comparison is that of the names, also when one fills its field.      *)
LEMMA MatchesIsEqual ==
  ASSUME NEW fname \in Seq(Char), NEW k \in Dirs
  PROVE  Matches(fname, Dentries[k]) <=> fname = Dentries[k].name
<1> DEFINE d == Dentries[k]
           n == Len(d.name)
<1>1. d.name \in Seq(Char) /\ n \in 1 .. FILENAME_SIZE /\ FILENAME_SIZE \in Nat
  BY Directory, NumbersAssumption
<1>2. TargetLen(d) = n
  <2>1. n \in Nat /\ n <= FILENAME_SIZE
    BY <1>1
  <2>2. CASE n = FILENAME_SIZE /\ d.type # 0
    <3>1. Strlen(d) = n + 1
      BY <2>2 DEF Strlen
    <3> HIDE DEF n
    <3>2. Strlen(d) > FILENAME_SIZE
      BY <2>1, <2>2, <3>1
    <3> QED BY <2>2, <3>2 DEF TargetLen
  <2>3. CASE ~(n = FILENAME_SIZE /\ d.type # 0)
    <3>1. Strlen(d) = n + 0
      BY <2>3 DEF Strlen
    <3> HIDE DEF n
    <3>2. Strlen(d) = n /\ ~(Strlen(d) > FILENAME_SIZE)
      BY <1>1, <2>1, <3>1
    <3> QED BY <3>2 DEF TargetLen
  <2> QED BY <2>2, <2>3
<1> HIDE DEF d
<1>3. /\ \A i \in 1 .. Len(fname) : At(fname, i) = fname[i] /\ fname[i] # "nul"
      /\ \A i \in 1 .. n : At(d.name, i) = d.name[i] /\ Len(fname) \in Nat
  BY <1>1, Chars DEF At
<1>4. ASSUME Matches(fname, d) PROVE fname = d.name
  <2>1. Len(fname) = n /\ SameFirst(fname, d.name, n)
    BY <1>2, <1>4 DEF Matches
  <2>2. ASSUME NEW i \in 1 .. n PROVE fname[i] = d.name[i]
    <3>1. \A j \in 1 .. i - 1 : At(fname, j) # "nul"
      <4>1. \A j \in 1 .. i - 1 : j \in 1 .. n
        BY <1>1
      <4> QED BY <1>3, <2>1, <4>1
    <3> QED BY <1>3, <2>1, <3>1 DEF SameFirst
  <2> QED BY <1>1, <2>1, <2>2, SameText
<1>5. ASSUME fname = d.name PROVE Matches(fname, d)
  BY <1>2, <1>5 DEF Matches, SameFirst
<1> QED BY <1>4, <1>5 DEF d

LEMMA SearchFinds ==
  ASSUME NEW fname \in Seq(Char)
  PROVE  /\ Found(fname) = {k \in Dirs : Dentries[k].name = fname}
         /\ \A k \in Dirs : Dentries[k].name = fname => ReadDentryByName(fname) = Dentries[k]
         /\ Found(fname) = {} => ReadDentryByName(fname) = Cleared
<1>1. Found(fname) = {k \in Dirs : Dentries[k].name = fname}
  BY MatchesIsEqual DEF Found, Dirs
<1>2. ASSUME NEW k \in Dirs, Dentries[k].name = fname
      PROVE  ReadDentryByName(fname) = Dentries[k]
  <2>1. Found(fname) = {k}
    BY <1>1, <1>2, Directory
  <2>2. k \in Nat
    BY DEF Dirs
  <2>3. First(Found(fname)) = k
    BY <2>1, <2>2, LeastElement
  <2> QED BY <2>1, <2>3 DEF ReadDentryByName
<1> QED BY <1>1, <1>2 DEF ReadDentryByName

-----------------------------------------------------------------------------
(* The parsing.                                                             *)
LEMMA NameLenIs ==
  ASSUME NEW text \in Seq(Char)
  PROVE  /\ NameLen(text) \in 0 .. Len(text)
         /\ NameLen(text) = Len(text) \/ text[NameLen(text) + 1] \in Ends
         /\ \A i \in 1 .. NameLen(text) : text[i] \notin Ends
<1> DEFINE S == {i \in 0 .. Len(text) : i = Len(text) \/ text[i + 1] \in Ends}
           n == NameLen(text)
<1>1. Len(text) \in Nat
  BY Chars
<1>2. S \in SUBSET Nat /\ Len(text) \in S
  BY <1>1
<1>3. n \in S /\ \A y \in S : n <= y
  BY <1>2, LeastElement DEF NameLen
<1> HIDE DEF n
<1>4. ASSUME NEW i \in 1 .. n PROVE text[i] \notin Ends
  <2>1. i - 1 \in 0 .. Len(text) /\ i - 1 < n /\ (i - 1) + 1 = i
    BY <1>1, <1>3
  <2>2. i - 1 \notin S
    BY <1>3, <2>1
  <2> QED BY <2>1, <2>2
<1> QED BY <1>3, <1>4 DEF n

LEMMA FnameIs ==
  ASSUME NEW text \in Seq(Char)
  PROVE  /\ Fname(text) \in Seq(Char) /\ Len(Fname(text)) = NameLen(text)
         /\ IsName(Fname(text), text)
         /\ \A name \in Seq(Char) : IsName(name, text) => name = Fname(text)
<1> DEFINE n == NameLen(text)
           f == Fname(text)
<1>1. /\ n \in 0 .. Len(text) /\ Len(text) \in Nat
      /\ n = Len(text) \/ text[n + 1] \in Ends
      /\ \A i \in 1 .. n : text[i] \notin Ends
  BY NameLenIs, Chars
<1>2. f = SubSeq(text, 1, n)
  BY DEF Fname
<1> HIDE DEF n, f
<1>3. f \in Seq(Char) /\ Len(f) = n /\ \A i \in 1 .. n : f[i] = text[i]
  BY <1>1, <1>2
<1>4. IsName(f, text)
  BY <1>1, <1>3 DEF IsName
<1>5. ASSUME NEW name \in Seq(Char), IsName(name, text) PROVE name = f
  <2>1. /\ Len(name) \in Nat /\ Len(name) <= Len(text)
        /\ \A i \in 1 .. Len(name) : text[i] = name[i] /\ name[i] \notin Ends
        /\ Len(name) = Len(text) \/ text[Len(name) + 1] \in Ends
    BY <1>5, Chars DEF IsName
  <2>2. ~(Len(name) < n)
    <3>1. SUFFICES ASSUME Len(name) < n PROVE FALSE
      OBVIOUS
    <3>2. Len(name) + 1 \in 1 .. n /\ Len(name) # Len(text)
      BY <1>1, <2>1, <3>1
    <3> QED BY <1>1, <2>1, <3>2
  <2>3. ~(n < Len(name))
    <3>1. SUFFICES ASSUME n < Len(name) PROVE FALSE
      OBVIOUS
    <3>2. n + 1 \in 1 .. Len(name) /\ n # Len(text)
      BY <1>1, <2>1, <3>1
    <3> QED BY <1>1, <2>1, <3>2
  <2>4. Len(name) = n
    BY <1>1, <2>1, <2>2, <2>3
  <2> QED BY <1>3, <2>1, <2>4, SameText
<1> QED BY <1>3, <1>4, <1>5 DEF n, f

(* The arguments, when the name ends at n with a space and they end at e.   *)
LEMMA ArgsFrom ==
  ASSUME NEW text \in Seq(Char), NEW n \in Nat, NEW e \in Nat, NEW a,
         n + 1 <= e, e <= Len(text), text[n + 1] = "sp",
         \A i \in 1 .. n : text[i] \notin Ends,
         e = Len(text) \/ text[e + 1] = "nl",
         \A i \in n + 1 .. e - 1 : text[i + 1] # "nl",
         a = SubSeq(text, n + 2, e)
  PROVE  a \in Seq(Char) /\ Len(a) < Len(text) /\ IsArgs(a, text)
<1>1. Len(text) \in Nat
  BY Chars
<1>2. /\ a \in Seq(Char)
      /\ Len(a) = IF n + 2 <= e THEN e - (n + 2) + 1 ELSE 0
      /\ \A j \in 1 .. e - (n + 2) + 1 : a[j] = text[n + 2 + j - 1]
  <2>1. ASSUME NEW j \in n + 2 .. e PROVE text[j] \in Char
    <3>1. j \in 1 .. Len(text)
      BY <1>1
    <3> QED BY <3>1, Chars
  <2>2. n + 2 \in Int /\ e \in Int
    OBVIOUS
  <2> QED BY <2>1, <2>2, SubSeqProperties
<1>3. Len(a) = e - n - 1
  <2>1. n + 2 <= e => Len(a) = e - n - 1
    BY <1>2
  <2>2. ~(n + 2 <= e) => e = n + 1 /\ Len(a) = 0
    BY <1>2
  <2> QED BY <2>1, <2>2
<1>4. ASSUME NEW j \in 1 .. Len(a) PROVE text[(n + 1) + j] = a[j] /\ a[j] # "nl"
  <2>1. j \in 1 .. e - (n + 2) + 1 /\ n + 2 + j - 1 = (n + 1) + j
    BY <1>3
  <2>2. a[j] = text[(n + 1) + j]
    BY <1>2, <2>1
  <2>3. n + j \in n + 1 .. e - 1 /\ (n + j) + 1 = (n + 1) + j
    BY <1>3
  <2> QED BY <2>2, <2>3
<1>5. (n + 1) + Len(a) = e
  BY <1>3
<1>6. n + 1 \in 1 .. Len(text) /\ (n + 1) - 1 = n /\ Len(a) < Len(text)
  BY <1>1, <1>3
<1>7. (n + 1) + Len(a) = Len(text) \/ text[(n + 1) + Len(a) + 1] = "nl"
  BY <1>5
<1>8. (n + 1) + Len(a) <= Len(text)
  BY <1>5
<1>9. \A j \in 1 .. (n + 1) - 1 : text[j] \notin Ends
  BY <1>6
<1> DEFINE i == n + 1
<1>10. /\ i \in 1 .. Len(text) /\ text[i] = "sp" /\ \A j \in 1 .. i - 1 : text[j] \notin Ends
       /\ i + Len(a) <= Len(text)
       /\ \A j \in 1 .. Len(a) : text[i + j] = a[j] /\ a[j] # "nl"
       /\ i + Len(a) = Len(text) \/ text[i + Len(a) + 1] = "nl"
  BY <1>4, <1>6, <1>7, <1>8, <1>9
<1> HIDE DEF i
<1> QED BY <1>2, <1>6, <1>10 DEF IsArgs

LEMMA NoArgsFrom ==
  ASSUME NEW text \in Seq(Char), NEW n \in Nat, n <= Len(text),
         \A i \in 1 .. n : text[i] \notin Ends,
         n = Len(text) \/ (text[n + 1] \in Ends /\ text[n + 1] # "sp")
  PROVE  NoArgs(text)
<1>1. SUFFICES ASSUME NEW i \in 1 .. Len(text), text[i] = "sp"
               PROVE  \E j \in 1 .. i - 1 : text[j] \in Ends
  BY DEF NoArgs
<1>2. Len(text) \in Nat /\ i \in Nat
  BY Chars
<1>3. "sp" \in Ends
  BY DEF Ends
<1>4. i > n
  <2>1. i \notin 1 .. n
    BY <1>1, <1>3
  <2> QED BY <1>1, <1>2, <2>1
<1>5. n # Len(text) /\ i # n + 1
  BY <1>1, <1>2, <1>4
<1>6. n + 1 \in 1 .. i - 1
  BY <1>2, <1>4, <1>5
<1> QED BY <1>5, <1>6

LEMMA ArgsAre ==
  ASSUME NEW text \in Seq(Char)
  PROVE  /\ HasArgs(text) => /\ Args(text) \in Seq(Char) /\ Len(Args(text)) < Len(text)
                             /\ IsArgs(Args(text), text)
         /\ ~HasArgs(text) => Args(text) = <<>> /\ NoArgs(text)
<1>1. PICK n \in Nat : n = NameLen(text)
  BY NameLenIs, Chars
<1>2. /\ n <= Len(text) /\ Len(text) \in Nat
      /\ n = Len(text) \/ text[n + 1] \in Ends
      /\ \A i \in 1 .. n : text[i] \notin Ends
  BY <1>1, NameLenIs, Chars
<1>3. HasArgs(text) <=> n < Len(text) /\ text[n + 1] = "sp"
  BY <1>1 DEF HasArgs
<1>4. ASSUME HasArgs(text)
      PROVE  Args(text) \in Seq(Char) /\ Len(Args(text)) < Len(text) /\ IsArgs(Args(text), text)
  <2> DEFINE S == {i \in n + 1 .. Len(text) : i = Len(text) \/ text[i + 1] = "nl"}
  <2>1. Len(text) \in n + 1 .. Len(text)
    BY <1>2, <1>3, <1>4
  <2>2. S \in SUBSET Nat /\ S # {}
    BY <1>2, <2>1
  <2>3. PICK e : e = First(S) /\ e \in S /\ \A y \in S : e <= y
    BY <2>2, LeastElement
  <2>4. e \in Nat /\ n + 1 <= e /\ e <= Len(text) /\ (e = Len(text) \/ text[e + 1] = "nl")
    BY <1>2, <2>3
  <2>5. ASSUME NEW i \in n + 1 .. e - 1 PROVE text[i + 1] # "nl"
    <3>1. i \in n + 1 .. Len(text) /\ ~(e <= i)
      BY <1>2, <2>4
    <3> QED BY <2>3, <3>1
  <2>6. Args(text) = SubSeq(text, n + 2, e)
    BY <1>1, <1>4, <2>3 DEF Args, ArgsEnd
  <2> QED BY <1>2, <1>3, <1>4, <2>4, <2>5, <2>6, ArgsFrom
<1>5. ASSUME ~HasArgs(text) PROVE Args(text) = <<>> /\ NoArgs(text)
  <2>1. Args(text) = <<>>
    BY <1>5 DEF Args
  <2>2. n = Len(text) \/ (text[n + 1] \in Ends /\ text[n + 1] # "sp")
    BY <1>2, <1>3, <1>5
  <2> QED BY <1>2, <2>1, <2>2, NoArgsFrom
<1> QED BY <1>4, <1>5

(* A text has at most one string of arguments.                              *)
LEMMA OneArgs ==
  ASSUME NEW text \in Seq(Char), NEW a \in Seq(Char), NEW b \in Seq(Char),
         IsArgs(a, text), IsArgs(b, text)
  PROVE  a = b
<1>1. PICK i \in 1 .. Len(text) :
        /\ text[i] = "sp" /\ \A j \in 1 .. i - 1 : text[j] \notin Ends
        /\ i + Len(a) <= Len(text)
        /\ \A j \in 1 .. Len(a) : text[i + j] = a[j] /\ a[j] # "nl"
        /\ i + Len(a) = Len(text) \/ text[i + Len(a) + 1] = "nl"
  BY DEF IsArgs
<1>2. PICK k \in 1 .. Len(text) :
        /\ text[k] = "sp" /\ \A j \in 1 .. k - 1 : text[j] \notin Ends
        /\ k + Len(b) <= Len(text)
        /\ \A j \in 1 .. Len(b) : text[k + j] = b[j] /\ b[j] # "nl"
        /\ k + Len(b) = Len(text) \/ text[k + Len(b) + 1] = "nl"
  BY DEF IsArgs
<1>3. Len(text) \in Nat /\ Len(a) \in Nat /\ Len(b) \in Nat
  BY Chars
<1>4. i = k
  <2>1. "sp" \in Ends
    BY DEF Ends
  <2>2. ~(i < k)
    <3>1. i < k => i \in 1 .. k - 1
      BY <1>3
    <3> QED BY <1>1, <1>2, <2>1, <3>1
  <2>3. ~(k < i)
    <3>1. k < i => k \in 1 .. i - 1
      BY <1>3
    <3> QED BY <1>1, <1>2, <2>1, <3>1
  <2> QED BY <1>3, <2>2, <2>3
<1>5. ~(Len(a) < Len(b))
  <2>1. SUFFICES ASSUME Len(a) < Len(b) PROVE FALSE
    OBVIOUS
  <2>2. Len(a) + 1 \in 1 .. Len(b) /\ i + (Len(a) + 1) = i + Len(a) + 1
    BY <1>3, <2>1
  <2>3. i + Len(a) # Len(text)
    <3>1. i + Len(b) <= Len(text)
      BY <1>2, <1>4
    <3> QED BY <1>3, <2>1, <3>1
  <2> QED BY <1>1, <1>2, <1>4, <2>2, <2>3
<1>6. ~(Len(b) < Len(a))
  <2>1. SUFFICES ASSUME Len(b) < Len(a) PROVE FALSE
    OBVIOUS
  <2>2. Len(b) + 1 \in 1 .. Len(a) /\ k + (Len(b) + 1) = k + Len(b) + 1
    BY <1>3, <2>1
  <2>3. k + Len(b) # Len(text)
    <3>1. k + Len(a) <= Len(text)
      BY <1>1, <1>4
    <3> QED BY <1>3, <2>1, <3>1
  <2> QED BY <1>1, <1>2, <1>4, <2>2, <2>3
<1>7. Len(a) = Len(b)
  BY <1>3, <1>5, <1>6
<1> QED BY <1>1, <1>2, <1>4, <1>7, SameText

-----------------------------------------------------------------------------
(* execute.                                                                 *)
Started ==
  /\ pid_bits \subseteq Pid
  /\ command \in [Pid -> Seq(Char)]
  /\ program \in [Pid -> Nat]

RInv == Started /\ RunsItsCommand

LEMMA InodeIs ==
  ASSUME NEW text \in Seq(Char)
  PROVE  /\ Inode(text) \in Executable =>
              \E k \in Dirs : /\ IsName(Dentries[k].name, text)
                              /\ Dentries[k].inode = Inode(text)
         /\ \A k \in Dirs : IsName(Dentries[k].name, text)
              => Dentries[k].inode = Inode(text) /\ Dentries[k].name = Fname(text)
<1>1. /\ Fname(text) \in Seq(Char) /\ IsName(Fname(text), text)
      /\ \A name \in Seq(Char) : IsName(name, text) => name = Fname(text)
  BY FnameIs
<1>2. ASSUME Inode(text) \in Executable
      PROVE  \E k \in Dirs : /\ IsName(Dentries[k].name, text)
                             /\ Dentries[k].inode = Inode(text)
  <2>1. Inode(text) # 0
    BY <1>2, ExecutableAssumption
  <2>2. Found(Fname(text)) # {}
    BY <1>1, <2>1, SearchFinds DEF Inode, Cleared
  <2>3. PICK k \in Dirs : Dentries[k].name = Fname(text)
    BY <1>1, <2>2, SearchFinds
  <2> QED BY <1>1, <2>3, SearchFinds DEF Inode
<1>3. ASSUME NEW k \in Dirs, IsName(Dentries[k].name, text)
      PROVE  Dentries[k].inode = Inode(text) /\ Dentries[k].name = Fname(text)
  <2>1. Dentries[k].name = Fname(text)
    BY <1>1, <1>3, Directory
  <2> QED BY <1>1, <2>1, SearchFinds DEF Inode
<1> QED BY <1>2, <1>3

(* A launch takes a free pid, and leaves the other processes alone.         *)
LEMMA LaunchIs ==
  ASSUME NEW text, NEW caller, pid_bits \subseteq Pid, Launch(text, caller)
  PROVE  /\ NewPid \in Pid \ pid_bits /\ pid_bits' = pid_bits \cup {NewPid}
         /\ command' = [command EXCEPT ![NewPid] = text]
         /\ program' = [program EXCEPT ![NewPid] = Inode(text)]
         /\ args' = [args EXCEPT ![NewPid] = Stored(Args(text))]
         /\ args_size' = [args_size EXCEPT ![NewPid] = Len(Args(text))]
         /\ Inode(text) \in Executable
<1>1. Pid \ pid_bits \in SUBSET Nat /\ Pid \ pid_bits # {}
  <2>1. Pid \in SUBSET Nat
    BY NumbersAssumption DEF Pid
  <2>2. pid_bits # Pid
    BY DEF Launch
  <2> QED BY <2>1, <2>2
<1>2. NewPid \in Pid \ pid_bits
  BY <1>1, LeastElement DEF NewPid
<1> QED BY <1>2 DEF Launch, SetArgs, CanExecute

Texts == CommandTexts \cup {ShellText}
LEMMA TextTypes == \A text \in Texts : text \in Seq(Char)
<1>1. "b" \in Char /\ "nl" \in Char
  BY DEF Char
<1>2. ShellText \in Seq(Char)
  BY <1>1 DEF ShellText
<1> QED BY <1>2, TextsAssumption DEF Texts

(* The steps, by what they change.                                          *)
LEMMA Steps ==
  ASSUME [Next]_vars
  PROVE  \/ /\ \E text \in Texts, caller \in Pid \cup {NoPid} : Launch(text, caller)
            /\ ret' = ret \/ ret' = [call |-> "none"]
         \/ /\ UNCHANGED pcbVars /\ ret' = [call |-> "none"]
            /\ \E p \in Pid : pid_bits' = pid_bits \ {p}
         \/ UNCHANGED <<pid_bits, pcbVars, ret>>
         \/ \E p \in Pid, text \in CommandTexts : ExecuteFails(p, text)
         \/ \E p \in Pid, nbytes \in BufferSizes : Getargs(p, nbytes)
         \/ \E p \in Pid, name \in Names : Open(p, name)
<1>1. CASE StartShell
  BY <1>1 DEF StartShell, Texts
<1>2. CASE \E p \in Pid, text \in CommandTexts : Execute(p, text)
  BY <1>2 DEF Execute, Texts
<1>3. CASE \E p \in Pid : Halt(p)
  BY <1>3 DEF Halt
<1>4. CASE UNCHANGED vars
  BY <1>4 DEF vars
<1> QED BY <1>1, <1>2, <1>3, <1>4 DEF Next

LEMMA RunsStep == RInv /\ [Next]_vars => RInv'
<1>1. SUFFICES ASSUME RInv, [Next]_vars PROVE RInv'
  OBVIOUS
<1>2. ASSUME NEW text \in Texts, NEW caller, Launch(text, caller) PROVE RInv'
  <2>1. text \in Seq(Char)
    BY TextTypes
  <2>2. /\ NewPid \in Pid \ pid_bits /\ pid_bits' = pid_bits \cup {NewPid}
        /\ command' = [command EXCEPT ![NewPid] = text]
        /\ program' = [program EXCEPT ![NewPid] = Inode(text)]
        /\ Inode(text) \in Executable
    BY <1>1, <1>2, LaunchIs DEF RInv, Started
  <2> DEFINE new == NewPid
  <2> HIDE DEF new
  <2>3. Started'
    <3>1. Inode(text) \in Nat
      BY <2>2, ExecutableAssumption
    <3> QED BY <1>1, <2>1, <2>2, <3>1 DEF RInv, Started
  <2>4. ASSUME NEW p \in pid_bits'
        PROVE  \E k \in 1 .. Len(Dentries) :
                 IsName(Dentries[k].name, command'[p]) /\ program'[p] = Dentries[k].inode
    <3>1. CASE p = NewPid
      <4>1. command'[p] = text /\ program'[p] = Inode(text)
        BY <1>1, <2>2, <3>1 DEF RInv, Started
      <4> QED BY <2>1, <2>2, <4>1, InodeIs DEF Dirs
    <3>2. CASE p # NewPid
      <4>1. p \in pid_bits /\ command'[p] = command[p] /\ program'[p] = program[p]
        BY <1>1, <2>2, <2>4, <3>2 DEF RInv, Started
      <4> QED BY <1>1, <4>1 DEF RInv, RunsItsCommand
    <3> QED BY <3>1, <3>2
  <2> QED BY <2>3, <2>4 DEF RInv, RunsItsCommand
<1>3. ASSUME UNCHANGED pcbVars, pid_bits' \subseteq pid_bits PROVE RInv'
  BY <1>1, <1>3 DEF pcbVars, RInv, Started, RunsItsCommand
<1> QED BY <1>1, <1>2, <1>3, Steps DEF ExecuteFails, Getargs, Open

(* Every process runs the program that the text it was started with names.  *)
THEOREM CommandsRun == Spec => []RunsItsCommand
<1>1. Init => RInv
  BY DEF Init, RInv, Started, RunsItsCommand
<1>2. RInv => RunsItsCommand
  BY DEF RInv
<1> QED BY <1>1, <1>2, RunsStep, PTL DEF Spec

-----------------------------------------------------------------------------
(* The arguments, when the texts are no longer than pcb_t.args.             *)
TextsFit == \A text \in CommandTexts : Len(text) <= BUF_SIZE

AInv ==
  /\ pid_bits \subseteq Pid
  /\ command \in [Pid -> Seq(Char)] /\ args \in [Pid -> Seq(Char)]
  /\ args_size \in [Pid -> Nat]
  /\ ArgsItsOwn
  /\ ret.call \in {"getargs", "noargs"} => ret.pid \in pid_bits

LEMMA StoredAre ==
  ASSUME TextsFit, NEW text \in Texts
  PROVE  /\ Args(text) \in Seq(Char) /\ Stored(Args(text)) = Args(text)
         /\ Len(Args(text)) \in Nat
         /\ IsArgs(Args(text), text) \/ (Args(text) = <<>> /\ NoArgs(text))
<1>1. text \in Seq(Char) /\ BUF_SIZE \in Nat /\ BUF_SIZE > 0
  BY TextTypes, NumbersAssumption
<1>2. CASE HasArgs(text)
  <2>1. Args(text) \in Seq(Char) /\ Len(Args(text)) < Len(text) /\ IsArgs(Args(text), text)
    BY <1>1, <1>2, ArgsAre
  <2>2. text # ShellText
    <3>1. ShellText = <<"b", "nl">> /\ ~HasArgs(<<"b", "nl">>)
      <4>1. <<"b", "nl">> \in Seq(Char)
        BY DEF Char
      <4>2. \A i \in 1 .. Len(<<"b", "nl">>) : <<"b", "nl">>[i] # "sp"
        OBVIOUS
      <4>3. NameLen(<<"b", "nl">>) \in Nat
        <5>1. NameLen(<<"b", "nl">>) \in 0 .. Len(<<"b", "nl">>)
          BY <4>1, NameLenIs
        <5> QED BY <5>1
      <4> QED BY <4>2, <4>3 DEF HasArgs, ShellText
    <3> QED BY <1>2, <3>1
  <2>3. Len(text) <= BUF_SIZE
    BY <2>2 DEF Texts, TextsFit
  <2>4. Len(Args(text)) \in Nat /\ Len(text) \in Nat
    BY <1>1, <2>1, Chars
  <2>5. Len(Args(text)) < BUF_SIZE
    BY <1>1, <2>1, <2>3, <2>4
  <2> QED BY <2>1, <2>4, <2>5 DEF Stored
<1>3. CASE ~HasArgs(text)
  <2>1. Args(text) = <<>> /\ NoArgs(text)
    BY <1>1, <1>3, ArgsAre
  <2>2. <<>> \in Seq(Char) /\ Len(<<>>) = 0
    OBVIOUS
  <2> QED BY <1>1, <2>1, <2>2 DEF Stored
<1> QED BY <1>2, <1>3

LEMMA ArgsStep == TextsFit /\ AInv /\ [Next]_vars => AInv'
<1>1. SUFFICES ASSUME TextsFit, AInv, [Next]_vars PROVE AInv'
  OBVIOUS
<1>2. ASSUME NEW text \in Texts, NEW caller, Launch(text, caller),
             ret' = ret \/ ret' = [call |-> "none"]
      PROVE  AInv'
  <2>1. text \in Seq(Char)
    BY TextTypes
  <2>2. /\ NewPid \in Pid \ pid_bits /\ pid_bits' = pid_bits \cup {NewPid}
        /\ command' = [command EXCEPT ![NewPid] = text]
        /\ args' = [args EXCEPT ![NewPid] = Args(text)]
        /\ args_size' = [args_size EXCEPT ![NewPid] = Len(Args(text))]
    BY <1>1, <1>2, LaunchIs, StoredAre DEF AInv
  <2>3. /\ Args(text) \in Seq(Char) /\ Len(Args(text)) \in Nat
        /\ IsArgs(Args(text), text) \/ (Args(text) = <<>> /\ NoArgs(text))
    BY <1>1, StoredAre
  <2>4. /\ pid_bits' \subseteq Pid
        /\ command' \in [Pid -> Seq(Char)] /\ args' \in [Pid -> Seq(Char)]
        /\ args_size' \in [Pid -> Nat]
    BY <1>1, <2>1, <2>2, <2>3 DEF AInv
  <2>5. ASSUME NEW p \in pid_bits'
        PROVE  /\ args_size'[p] = Len(args'[p])
               /\ IsArgs(args'[p], command'[p]) \/ (args'[p] = <<>> /\ NoArgs(command'[p]))
    <3>1. CASE p = NewPid
      <4>1. command'[p] = text /\ args'[p] = Args(text) /\ args_size'[p] = Len(Args(text))
        BY <1>1, <2>2, <3>1 DEF AInv
      <4> QED BY <2>3, <4>1
    <3>2. CASE p # NewPid
      <4>1. /\ p \in pid_bits /\ command'[p] = command[p] /\ args'[p] = args[p]
            /\ args_size'[p] = args_size[p]
        BY <1>1, <2>2, <2>5, <3>2 DEF AInv
      <4> QED BY <1>1, <4>1 DEF AInv, ArgsItsOwn
    <3> QED BY <3>1, <3>2
  <2>6. ret'.call \in {"getargs", "noargs"} => ret'.pid \in pid_bits'
    BY <1>1, <1>2, <2>2 DEF AInv
  <2> QED BY <2>4, <2>5, <2>6 DEF AInv, ArgsItsOwn
<1>3. ASSUME UNCHANGED pcbVars, pid_bits' \subseteq pid_bits,
             ret'.call \in {"getargs", "noargs"} => ret'.pid \in pid_bits'
      PROVE  AInv'
  BY <1>1, <1>3 DEF pcbVars, AInv, ArgsItsOwn
<1>4. ASSUME NEW p \in Pid, NEW nbytes \in BufferSizes, Getargs(p, nbytes) PROVE AInv'
  <2>1. UNCHANGED pcbVars /\ pid_bits' = pid_bits /\ p \in pid_bits
    BY <1>4 DEF Getargs, Runs
  <2>2. ret'.pid = p
    BY <1>4 DEF Getargs
  <2> QED BY <1>3, <2>1, <2>2
<1>5. ASSUME NEW p \in Pid, NEW text \in CommandTexts, ExecuteFails(p, text) PROVE AInv'
  <2>1. UNCHANGED pcbVars /\ pid_bits' = pid_bits /\ ret'.call = "execute"
    BY <1>5 DEF ExecuteFails
  <2> QED BY <1>3, <2>1
<1>6. ASSUME NEW p \in Pid, NEW name \in Names, Open(p, name) PROVE AInv'
  <2>1. UNCHANGED pcbVars /\ pid_bits' = pid_bits /\ ret'.call = "open"
    BY <1>6 DEF Open
  <2> QED BY <1>3, <2>1
<1>7. ASSUME UNCHANGED pcbVars, ret' = [call |-> "none"], NEW p \in Pid,
             pid_bits' = pid_bits \ {p}
      PROVE  AInv'
  <2>1. ret'.call = "none"
    BY <1>7
  <2> QED BY <1>3, <1>7, <2>1
<1>8. ASSUME UNCHANGED <<pid_bits, pcbVars, ret>> PROVE AInv'
  BY <1>1, <1>3, <1>8 DEF AInv
<1> QED BY <1>1, <1>2, <1>4, <1>5, <1>6, <1>7, <1>8, Steps

LEMMA InitArgs == Init => AInv
<1>1. <<>> \in Seq(Char)
  OBVIOUS
<1> QED BY <1>1 DEF Init, AInv, ArgsItsOwn

(* The PCB of every process has the arguments of its own command, if no     *)
(* text is longer than the PCB's array.                                     *)
THEOREM CommandsArgs ==
  ASSUME TextsFit
  PROVE  Spec => []ArgsItsOwn
<1>1. AInv => ArgsItsOwn
  BY DEF AInv
<1>2. AInv /\ [Next]_vars => AInv'
  BY ArgsStep
<1> QED BY <1>1, <1>2, InitArgs, PTL DEF Spec

-----------------------------------------------------------------------------
(* getargs.                                                                 *)
Delivers(r) ==
  /\ r.call = "getargs" =>
       \E n \in 0 .. Len(r.buf) :
         /\ IsArgs(SubSeq(r.buf, 1, n), command[r.pid])
         /\ \A i \in n + 1 .. Len(r.buf) : r.buf[i] = "nul"
  /\ r.call = "noargs" =>
       ~\E n \in 1 .. r.nbytes :
          \E i \in 1 .. Len(command[r.pid]) - n + 1 :
            IsArgs(SubSeq(command[r.pid], i, i + n - 1), command[r.pid])

(* strncpy of arguments that fit the buffer: they are followed by '\0'.     *)
LEMMA StrncpyIs ==
  ASSUME NEW s \in Seq(Char), NEW m \in Nat, Len(s) <= m
  PROVE  /\ Len(Strncpy(s, m)) = m /\ Len(s) \in 0 .. m
         /\ SubSeq(Strncpy(s, m), 1, Len(s)) = s
         /\ \A i \in Len(s) + 1 .. m : Strncpy(s, m)[i] = "nul"
<1> DEFINE n == Len(s)
           b == Strncpy(s, m)
<1>1. n \in Nat /\ n <= m /\ \A i \in 1 .. n : s[i] \in Char
  BY Chars
<1>2. b = [i \in 1 .. m |-> IF i <= n THEN s[i] ELSE "nul"]
  BY DEF Strncpy, At
<1>3. Len(b) = m
  BY <1>2
<1>4. \A i \in 1 .. n : b[i] = s[i]
  BY <1>1, <1>2
<1>5. \A i \in n + 1 .. m : b[i] = "nul"
  BY <1>1, <1>2
<1> HIDE DEF n, b
<1> DEFINE r == SubSeq(b, 1, n)
<1>6. /\ r \in Seq(Char) /\ Len(r) = IF 1 <= n THEN n - 1 + 1 ELSE 0
      /\ \A i \in 1 .. n - 1 + 1 : r[i] = b[1 + i - 1]
  <2>1. \A i \in 1 .. n : b[i] \in Char
    BY <1>1, <1>4
  <2>2. 1 \in Int /\ n \in Int
    BY <1>1
  <2> QED BY <2>1, <2>2, SubSeqProperties
<1> HIDE DEF r
<1>7. Len(r) = n
  <2>1. n = 0 => Len(r) = 0
    BY <1>6
  <2>2. n # 0 => Len(r) = n
    BY <1>1, <1>6
  <2> QED BY <2>1, <2>2
<1>8. ASSUME NEW i \in 1 .. n PROVE r[i] = s[i]
  <2>1. i \in 1 .. n - 1 + 1 /\ 1 + i - 1 = i
    BY <1>1
  <2> QED BY <1>4, <1>6, <2>1
<1>9. r = s
  BY <1>6, <1>7, <1>8, SameText DEF n
<1> QED BY <1>1, <1>3, <1>5, <1>9 DEF n, b, r

LEMMA GetargsIs ==
  ASSUME AInv, NEW p \in Pid, NEW nbytes \in BufferSizes, Getargs(p, nbytes)
  PROVE  Delivers(ret')
<1>1. p \in pid_bits /\ nbytes \in Int
  BY NumbersAssumption DEF Getargs, Runs
<1>2. /\ args[p] \in Seq(Char) /\ args_size[p] = Len(args[p]) /\ command[p] \in Seq(Char)
      /\ IsArgs(args[p], command[p]) \/ (args[p] = <<>> /\ NoArgs(command[p]))
      /\ Len(args[p]) \in Nat /\ Len(command[p]) \in Nat
  BY <1>1, Chars DEF AInv, ArgsItsOwn
<1>3. CASE CannotGive(p, nbytes)
  <2>1. ret' = [call |-> "noargs", pid |-> p, nbytes |-> nbytes]
    BY <1>3 DEF Getargs
  <2>2. ret'.call = "noargs" /\ ret'.pid = p /\ ret'.nbytes = nbytes
    BY <2>1
  <2>3. ASSUME NEW n \in 1 .. nbytes, NEW i \in 1 .. Len(command[p]) - n + 1,
               IsArgs(SubSeq(command[p], i, i + n - 1), command[p])
        PROVE  FALSE
    <3> DEFINE c == command[p]
               a == SubSeq(c, i, i + n - 1)
    <3>1. a \in Seq(Char) /\ Len(a) = n
      <4>1. \A j \in i .. i + n - 1 : c[j] \in Char
        <5>1. \A j \in i .. i + n - 1 : j \in 1 .. Len(c)
          BY <1>2, <2>3
        <5> QED BY <1>2, <5>1, Chars
      <4>2. i \in Int /\ i + n - 1 \in Int /\ i <= i + n - 1 /\ i + n - 1 - i + 1 = n
        BY <2>3
      <4>3. a \in Seq(Char) /\ Len(a) = IF i <= i + n - 1 THEN i + n - 1 - i + 1 ELSE 0
        BY <4>1, <4>2, SubSeqProperties
      <4> QED BY <4>2, <4>3
    <3>2. ~NoArgs(c)
      <4>1. PICK j \in 1 .. Len(c) : c[j] = "sp" /\ \A k \in 1 .. j - 1 : c[k] \notin Ends
        BY <2>3 DEF IsArgs
      <4> QED BY <4>1 DEF NoArgs
    <3>3. a = args[p]
      BY <1>2, <2>3, <3>1, <3>2, OneArgs
    <3>4. Len(args[p]) = n /\ n <= nbytes /\ n > 0
      BY <1>1, <3>1, <3>3
    <3> QED BY <1>1, <1>2, <1>3, <3>4 DEF CannotGive
  <2> QED BY <2>2, <2>3 DEF Delivers
<1>4. CASE ~CannotGive(p, nbytes)
  <2>1. ret' = [call |-> "getargs", pid |-> p, buf |-> Strncpy(args[p], nbytes)]
    BY <1>4 DEF Getargs
  <2>2. ret'.call = "getargs" /\ ret'.pid = p /\ ret'.buf = Strncpy(args[p], nbytes)
    BY <2>1
  <2>3. Len(args[p]) # 0 /\ Len(args[p]) <= nbytes /\ nbytes \in Nat
    BY <1>1, <1>2, <1>4 DEF CannotGive
  <2>4. IsArgs(args[p], command[p])
    BY <1>2, <2>3
  <2>5. /\ Len(ret'.buf) = nbytes /\ Len(args[p]) \in 0 .. nbytes
        /\ SubSeq(ret'.buf, 1, Len(args[p])) = args[p]
        /\ \A i \in Len(args[p]) + 1 .. nbytes : ret'.buf[i] = "nul"
    BY <1>2, <2>2, <2>3, StrncpyIs
  <2>6. \E n \in 0 .. Len(ret'.buf) :
          /\ IsArgs(SubSeq(ret'.buf, 1, n), command[p])
          /\ \A i \in n + 1 .. Len(ret'.buf) : ret'.buf[i] = "nul"
    BY <2>4, <2>5
  <2> QED BY <2>2, <2>6 DEF Delivers
<1> QED BY <1>3, <1>4

LEMMA DeliversStep ==
  ASSUME AInv, Delivers(ret), [Next]_vars
  PROVE  GetargsDelivers'
<1>1. ASSUME NEW text \in Texts, NEW caller, Launch(text, caller), ret' = ret
      PROVE  GetargsDelivers'
  <2>1. NewPid \in Pid \ pid_bits /\ command' = [command EXCEPT ![NewPid] = text]
    BY <1>1, LaunchIs DEF AInv
  <2>2. ret.call \in {"getargs", "noargs"} => command'[ret.pid] = command[ret.pid]
    BY <2>1 DEF AInv
  <2> QED BY <1>1, <2>2 DEF GetargsDelivers, Delivers
<1>2. ASSUME ret'.call \in {"none", "execute", "open"} PROVE GetargsDelivers'
  BY <1>2 DEF GetargsDelivers
<1>3. ASSUME NEW p \in Pid, NEW nbytes \in BufferSizes, Getargs(p, nbytes)
      PROVE  GetargsDelivers'
  <2>1. Delivers(ret')
    BY <1>3, GetargsIs
  <2>2. command' = command
    BY <1>3 DEF Getargs, pcbVars
  <2> QED BY <2>1, <2>2 DEF GetargsDelivers, Delivers
<1>4. ASSUME NEW p \in Pid, NEW text \in CommandTexts, ExecuteFails(p, text)
      PROVE  GetargsDelivers'
  BY <1>2, <1>4 DEF ExecuteFails
<1>5. ASSUME NEW p \in Pid, NEW name \in Names, Open(p, name) PROVE GetargsDelivers'
  BY <1>2, <1>5 DEF Open
<1>6. ASSUME UNCHANGED <<pid_bits, pcbVars, ret>> PROVE GetargsDelivers'
  BY <1>6 DEF pcbVars, GetargsDelivers, Delivers
<1>7. ASSUME ret' = [call |-> "none"] PROVE GetargsDelivers'
  BY <1>2, <1>7
<1> QED BY <1>1, <1>3, <1>4, <1>5, <1>6, <1>7, Steps

(* getargs gives a program exactly the arguments it was started with, or    *)
(* says truly that there are none or that there is no room.                 *)
THEOREM CommandsGetargs ==
  ASSUME TextsFit
  PROVE  Spec => []GetargsDelivers
<1> DEFINE I == AInv /\ GetargsDelivers
<1>1. Init => I
  BY InitArgs DEF Init, GetargsDelivers
<1>2. I /\ [Next]_vars => I'
  <2>1. GetargsDelivers => Delivers(ret)
    BY DEF GetargsDelivers, Delivers
  <2> QED BY <2>1, ArgsStep, DeliversStep
<1>3. I => GetargsDelivers
  OBVIOUS
<1> HIDE DEF I
<1> QED BY <1>1, <1>2, <1>3, PTL DEF Spec

-----------------------------------------------------------------------------
(* What execute and open answer depends on the last call only.              *)
ProgramNamesShort ==
  \A k \in Dirs : Dentries[k].inode \in Executable => Len(Dentries[k].name) < FILENAME_SIZE

LEMMA FailsIs ==
  ASSUME ProgramNamesShort, NEW text \in CommandTexts, ~CanExecute(text), NEW k \in Dirs,
         IsName(Dentries[k].name, text)
  PROVE  Dentries[k].inode \notin Executable
<1>1. text \in Seq(Char)
  BY TextsAssumption
<1>2. Dentries[k].inode = Inode(text) /\ Dentries[k].name = Fname(text)
  BY <1>1, InodeIs
<1>3. SUFFICES ASSUME Dentries[k].inode \in Executable PROVE FALSE
  OBVIOUS
<1>4. Refused(text)
  BY <1>2, <1>3 DEF CanExecute
<1>5. /\ Len(Dentries[k].name) \in Nat /\ Len(Dentries[k].name) >= 1
      /\ Len(Dentries[k].name) = NameLen(text)
  BY <1>1, <1>2, FnameIs, Directory, NumbersAssumption
<1>6. Len(Dentries[k].name) <= Len(text) /\ text[1] \notin Ends
  <2>1. 1 \in 1 .. Len(Dentries[k].name)
    BY <1>5
  <2> QED BY <2>1 DEF IsName
<1>7. text # <<>>
  BY <1>5, <1>6
<1>8. text[1] # "sp"
  BY <1>6 DEF Ends
<1>9. NameLen(text) >= FILENAME_SIZE
  BY <1>4, <1>7, <1>8 DEF Refused
<1>10. Len(Dentries[k].name) < FILENAME_SIZE
  BY <1>3 DEF ProgramNamesShort
<1> QED BY <1>5, <1>9, <1>10, NumbersAssumption

(* execute refuses no command that names a program, if the programs' names  *)
(* do not fill their fields.                                                *)
THEOREM CommandsFail ==
  ASSUME ProgramNamesShort
  PROVE  Spec => []FailsRightly
<1>1. Init => FailsRightly
  BY DEF Init, FailsRightly
<1>2. FailsRightly /\ [Next]_vars => FailsRightly'
  <2>1. SUFFICES ASSUME FailsRightly, [Next]_vars PROVE FailsRightly'
    OBVIOUS
  <2>2. ASSUME ret' = ret PROVE FailsRightly'
    BY <2>1, <2>2 DEF FailsRightly
  <2>3. ASSUME ret'.call \in {"none", "getargs", "noargs", "open"} PROVE FailsRightly'
    BY <2>3 DEF FailsRightly
  <2>4. ASSUME ret' = [call |-> "none"] PROVE FailsRightly'
    BY <2>3, <2>4
  <2>5. ASSUME NEW p \in Pid, NEW nbytes \in BufferSizes, Getargs(p, nbytes)
        PROVE  FailsRightly'
    BY <2>3, <2>5 DEF Getargs
  <2>6. ASSUME NEW p \in Pid, NEW name \in Names, Open(p, name) PROVE FailsRightly'
    BY <2>3, <2>6 DEF Open
  <2>7. ASSUME NEW p \in Pid, NEW text \in CommandTexts, ExecuteFails(p, text)
        PROVE  FailsRightly'
    <3>1. ret'.text = text /\ (ret'.all <=> pid_bits = Pid)
      BY <2>7 DEF ExecuteFails
    <3>2. ~CanExecute(text) \/ pid_bits = Pid
      BY <2>7 DEF ExecuteFails
    <3>3. CASE pid_bits = Pid
      BY <3>1, <3>3 DEF FailsRightly
    <3>4. CASE ~CanExecute(text)
      BY <3>1, <3>4, FailsIs DEF FailsRightly, Dirs
    <3> QED BY <3>2, <3>3, <3>4
  <2> QED BY <2>1, <2>2, <2>4, <2>5, <2>6, <2>7, Steps
<1> QED BY <1>1, <1>2, PTL DEF Spec

NoLeadingSpace == \A k \in Dirs : Dentries[k].name[1] # "sp"

LEMMA OpenIs ==
  ASSUME NoLeadingSpace, NEW p \in Pid, NEW name \in Names, Open(p, name)
  PROVE  OpenFinds'
<1> DEFINE d == ReadDentryByName(name)
           ok == name # <<>> /\ name[1] # "sp" /\ Found(name) # {} /\ SameName(d, name)
           files == {Dentries[k].inode : k \in {l \in 1 .. Len(Dentries) :
                                                  Dentries[l].name = name}}
<1>1. name \in Seq(Char)
  BY TextsAssumption
<1>2. ret' = [call |-> "open", name |-> name, opened |-> IF ok THEN {d.inode} ELSE {}]
  BY DEF Open
<1>3. CASE \E k \in Dirs : Dentries[k].name = name
  <2>1. PICK k \in Dirs : Dentries[k].name = name
    BY <1>3
  <2>2. d = Dentries[k] /\ Found(name) # {}
    BY <1>1, <2>1, SearchFinds
  <2>3. name # <<>> /\ name[1] # "sp"
    BY <2>1, Directory, NumbersAssumption DEF NoLeadingSpace
  <2>4. SameName(d, name)
    BY <2>1, <2>2 DEF SameName, SameFirst
  <2>5. files = {d.inode}
    BY <2>1, <2>2, Directory DEF Dirs
  <2>6. ret'.opened = files /\ ret'.name = name
    BY <1>2, <2>2, <2>3, <2>4, <2>5
  <2> QED BY <2>6 DEF OpenFinds
<1>4. CASE ~\E k \in Dirs : Dentries[k].name = name
  <2>1. Found(name) = {}
    BY <1>1, <1>4, SearchFinds
  <2>2. files = {}
    BY <1>4 DEF Dirs
  <2>3. ret'.opened = files /\ ret'.name = name
    BY <1>2, <2>1, <2>2
  <2> QED BY <2>3 DEF OpenFinds
<1> QED BY <1>3, <1>4

(* open finds the file of the name it is given and no other, if no name of  *)
(* the directory starts with a space.                                       *)
THEOREM CommandsOpen ==
  ASSUME NoLeadingSpace
  PROVE  Spec => []OpenFinds
<1>1. Init => OpenFinds
  BY DEF Init, OpenFinds
<1>2. OpenFinds /\ [Next]_vars => OpenFinds'
  <2>1. SUFFICES ASSUME OpenFinds, [Next]_vars PROVE OpenFinds'
    OBVIOUS
  <2>2. ASSUME ret' = ret PROVE OpenFinds'
    BY <2>1, <2>2 DEF OpenFinds
  <2>3. ASSUME ret'.call \in {"none", "getargs", "noargs", "execute"} PROVE OpenFinds'
    BY <2>3 DEF OpenFinds
  <2>4. ASSUME ret' = [call |-> "none"] PROVE OpenFinds'
    BY <2>3, <2>4
  <2>5. ASSUME NEW p \in Pid, NEW nbytes \in BufferSizes, Getargs(p, nbytes)
        PROVE  OpenFinds'
    BY <2>3, <2>5 DEF Getargs
  <2>6. ASSUME NEW p \in Pid, NEW text \in CommandTexts, ExecuteFails(p, text)
        PROVE  OpenFinds'
    BY <2>3, <2>6 DEF ExecuteFails
  <2> QED BY <2>1, <2>2, <2>4, <2>5, <2>6, OpenIs, Steps
<1> QED BY <1>1, <1>2, PTL DEF Spec
=============================================================================
