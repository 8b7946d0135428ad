-------------------------- MODULE LineInput_proofs --------------------------
(***************************************************************************)
(* Typed lines, for any number of terminals and any size of buffer: the    *)
(* invariant of the buffers and of the flags of a swap, and the lines of   *)
(* hidden terminals.                                                       *)
(***************************************************************************)
EXTENDS MCLineInput, SequenceTheorems, WellFoundedInduction, TLAPS

LEMMA LeastElement ==
  ASSUME NEW T \in SUBSET Nat, T # {}
  PROVE  \E x \in T : \A y \in T : x <= y
<1> DEFINE R == OpToRel(<, Nat)
<1>1. IsWellFoundedOn(R, Nat)
  BY NatLessThanWellFounded
<1>2. \A x, y \in Nat : <<y, x>> \in R <=> y < x
  BY DEF OpToRel
<1> HIDE DEF R
<1>3. PICK x \in T : \A y \in T : ~(<<y, x>> \in R)
  BY <1>1, WFMin
<1>4. ASSUME NEW y \in T PROVE x <= y
  <2>1. ~(y < x)
    BY <1>2, <1>3
  <2> QED BY <2>1
<1> QED BY <1>4

-----------------------------------------------------------------------------
(* The buffers.                                                             *)
BuffersOK ==
  /\ screen_buf \in [Term -> [0 .. BufSize - 1 -> Char]]
  /\ screen_buf_top \in [Term -> 0 .. BufSize - 1]
  /\ terminal_num_display \in Term

LineOK(buf, top) ==
  /\ \A i \in top .. BufSize - 1 : buf[i] = "nul" \/ (i = BufSize - 1 /\ buf[i] = "cr")
  /\ \A i \in 1 .. top - 1 : buf[i - 1] \in Eol => buf[i] \notin Eol

(* What an operation does to the buffers: only those of the terminal on     *)
(* display change, and they keep their shape.                               *)
BufferStep ==
  /\ screen_buf' \in [Term -> [0 .. BufSize - 1 -> Char]]
  /\ screen_buf_top' \in [Term -> 0 .. BufSize - 1]
  /\ LineOK(screen_buf'[terminal_num_display], screen_buf_top'[terminal_num_display])
  /\ \A t \in Term \ {terminal_num_display} :
       screen_buf'[t] = screen_buf[t] /\ screen_buf_top'[t] = screen_buf_top[t]

LEMMA ShapeIsLineOK ==
  BufferShape /\ EndsApart <=> \A t \in Term : LineOK(screen_buf[t], screen_buf_top[t])
  BY DEF BufferShape, EndsApart, LineOK

LEMMA BufSizes == BufSize \in Nat /\ BufSize > 1
  BY BufferAssumption

LEMMA KeptBuffers ==
  ASSUME BuffersOK, BufferShape, EndsApart, UNCHANGED bufVars
  PROVE  BufferStep
  BY ShapeIsLineOK DEF BuffersOK, BufferStep, bufVars

LEMMA ClearBufStep ==
  ASSUME BuffersOK, ClearBuf
  PROVE  BufferStep
<1> DEFINE d == terminal_num_display
           empty == [i \in 0 .. BufSize - 1 |-> "nul"]
<1>1. /\ screen_buf' = [screen_buf EXCEPT ![d] = empty]
      /\ screen_buf_top' = [screen_buf_top EXCEPT ![d] = 0]
  BY DEF ClearBuf
<1>2. empty \in [0 .. BufSize - 1 -> Char] /\ 0 \in 0 .. BufSize - 1
  BY BufSizes DEF Char
<1>3. LineOK(empty, 0)
  BY BufSizes DEF LineOK
<1> HIDE DEF empty
<1> QED BY <1>1, <1>2, <1>3 DEF BuffersOK, BufferStep

LEMMA Add2BufStep ==
  ASSUME BuffersOK, BufferShape, EndsApart, NEW c \in Char, Add2Buf(c),
         c \in Eol => Top = 0 \/ Cell(Top - 1) \notin Eol
  PROVE  BufferStep
<1> DEFINE d == terminal_num_display
           b == screen_buf[d]
<1>1. CASE Top < BufSize - 1
  <2> DEFINE new == [b EXCEPT ![Top] = c]
  <2>1. /\ screen_buf' = [screen_buf EXCEPT ![d] = new]
        /\ screen_buf_top' = [screen_buf_top EXCEPT ![d] = Top + 1]
    BY <1>1 DEF Add2Buf, Top
  <2>2. b \in [0 .. BufSize - 1 -> Char] /\ Top \in 0 .. BufSize - 1
    BY DEF BuffersOK, Top
  <2>3. new \in [0 .. BufSize - 1 -> Char] /\ Top + 1 \in 0 .. BufSize - 1
    BY <1>1, <2>2, BufSizes
  <2>4. LineOK(b, Top)
    BY ShapeIsLineOK DEF BuffersOK, Top
  <2>5. Top # 0 => b[Top - 1] \notin Eol \/ c \notin Eol
    BY DEF Cell
  <2>6. \A i \in 0 .. BufSize - 1 : new[i] = IF i = Top THEN c ELSE b[i]
    BY <2>2
  <2>7. LineOK(new, Top + 1)
    <3>1. ASSUME NEW i \in Top + 1 .. BufSize - 1
          PROVE  new[i] = "nul" \/ (i = BufSize - 1 /\ new[i] = "cr")
      <4>1. i \in Top .. BufSize - 1 /\ i \in 0 .. BufSize - 1 /\ i # Top
        BY <2>2, BufSizes
      <4> QED BY <2>4, <2>6, <4>1 DEF LineOK
    <3>2. ASSUME NEW i \in 1 .. (Top + 1) - 1, new[i - 1] \in Eol
          PROVE  new[i] \notin Eol
      <4>1. i \in 0 .. BufSize - 1 /\ i - 1 \in 0 .. BufSize - 1 /\ i - 1 # Top
        BY <1>1, <2>2, BufSizes
      <4>2. new[i - 1] = b[i - 1]
        BY <2>6, <4>1
      <4>3. CASE i = Top
        BY <2>5, <2>6, <3>2, <4>1, <4>2, <4>3
      <4>4. CASE i # Top
        <5>1. i \in 1 .. Top - 1 /\ new[i] = b[i]
          BY <2>2, <2>6, <4>1, <4>4
        <5> QED BY <2>4, <3>2, <4>2, <5>1 DEF LineOK
      <4> QED BY <4>3, <4>4
    <3> QED BY <3>1, <3>2 DEF LineOK
  <2> HIDE DEF new, b
  <2> QED BY <2>1, <2>3, <2>7 DEF BuffersOK, BufferStep
<1>2. CASE ~(Top < BufSize - 1)
  BY <1>2, KeptBuffers DEF Add2Buf
<1> QED BY <1>1, <1>2

LEMMA EnterPressStep ==
  ASSUME BuffersOK, BufferShape, EndsApart, NEW c \in Char, EnterPress(c)
  PROVE  BufferStep
  BY Add2BufStep, KeptBuffers DEF EnterPress

LEMMA DeleteCharStep ==
  ASSUME BuffersOK, BufferShape, EndsApart, DeleteChar
  PROVE  BufferStep
<1> DEFINE d == terminal_num_display
           b == screen_buf[d]
<1>1. CASE Top > 0
  <2> DEFINE new == [b EXCEPT ![Top - 1] = "nul"]
  <2>1. /\ screen_buf' = [screen_buf EXCEPT ![d] = new]
        /\ screen_buf_top' = [screen_buf_top EXCEPT ![d] = Top - 1]
    BY <1>1 DEF DeleteChar, Top
  <2>2. b \in [0 .. BufSize - 1 -> Char] /\ Top \in 0 .. BufSize - 1
    BY DEF BuffersOK, Top
  <2>3. new \in [0 .. BufSize - 1 -> Char] /\ Top - 1 \in 0 .. BufSize - 1
    BY <1>1, <2>2, BufSizes DEF Char
  <2>4. LineOK(b, Top)
    BY ShapeIsLineOK DEF BuffersOK, Top
  <2>5. \A i \in 0 .. BufSize - 1 : new[i] = IF i = Top - 1 THEN "nul" ELSE b[i]
    BY <1>1, <2>2, BufSizes
  <2>6. LineOK(new, Top - 1)
    <3>1. ASSUME NEW i \in Top - 1 .. BufSize - 1
          PROVE  new[i] = "nul" \/ (i = BufSize - 1 /\ new[i] = "cr")
      <4>1. i \in 0 .. BufSize - 1 /\ (i # Top - 1 => i \in Top .. BufSize - 1)
        BY <1>1, <2>2, BufSizes
      <4> QED BY <2>4, <2>5, <4>1 DEF LineOK
    <3>2. ASSUME NEW i \in 1 .. (Top - 1) - 1, new[i - 1] \in Eol
          PROVE  new[i] \notin Eol
      <4>1. /\ i \in 0 .. BufSize - 1 /\ i - 1 \in 0 .. BufSize - 1
            /\ i # Top - 1 /\ i - 1 # Top - 1 /\ i \in 1 .. Top - 1
        BY <2>2, BufSizes
      <4>2. new[i] = b[i] /\ new[i - 1] = b[i - 1]
        BY <2>5, <4>1
      <4> QED BY <2>4, <3>2, <4>1, <4>2 DEF LineOK
    <3> QED BY <3>1, <3>2 DEF LineOK
  <2> HIDE DEF new, b
  <2> QED BY <2>1, <2>3, <2>6 DEF BuffersOK, BufferStep
<1>2. CASE ~(Top > 0)
  BY <1>2, KeptBuffers DEF DeleteChar
<1> QED BY <1>1, <1>2

LEMMA MarkEndStep ==
  ASSUME BuffersOK, BufferShape, EndsApart, MarkEnd, UNCHANGED screen_buf_top
  PROVE  BufferStep
<1> DEFINE d == terminal_num_display
           b == screen_buf[d]
           new == [b EXCEPT ![BufSize - 1] = "cr"]
<1>1. screen_buf' = [screen_buf EXCEPT ![d] = new] /\ screen_buf_top' = screen_buf_top
  BY DEF MarkEnd
<1>2. b \in [0 .. BufSize - 1 -> Char] /\ Top \in 0 .. BufSize - 1
  BY DEF BuffersOK, Top
<1>3. new \in [0 .. BufSize - 1 -> Char]
  BY <1>2, BufSizes DEF Char
<1>4. LineOK(b, Top)
  BY ShapeIsLineOK DEF BuffersOK, Top
<1>5. \A i \in 0 .. BufSize - 1 : new[i] = IF i = BufSize - 1 THEN "cr" ELSE b[i]
  BY <1>2, BufSizes
<1>6. LineOK(new, Top)
  <2>1. ASSUME NEW i \in Top .. BufSize - 1
        PROVE  new[i] = "nul" \/ (i = BufSize - 1 /\ new[i] = "cr")
    <3>1. i \in 0 .. BufSize - 1
      BY <1>2, BufSizes
    <3> QED BY <1>4, <1>5, <3>1 DEF LineOK
  <2>2. ASSUME NEW i \in 1 .. Top - 1, new[i - 1] \in Eol PROVE new[i] \notin Eol
    <3>1. /\ i \in 0 .. BufSize - 1 /\ i - 1 \in 0 .. BufSize - 1
          /\ i # BufSize - 1 /\ i - 1 # BufSize - 1
      BY <1>2, BufSizes
    <3>2. new[i] = b[i] /\ new[i - 1] = b[i - 1]
      BY <1>5, <3>1
    <3> QED BY <1>4, <2>2, <3>2 DEF LineOK
  <2> QED BY <2>1, <2>2 DEF LineOK
<1> HIDE DEF new, b
<1>7. \A t \in Term \ {d} : screen_buf'[t] = screen_buf[t]
  BY <1>1 DEF BuffersOK
<1> QED BY <1>1, <1>3, <1>6, <1>7 DEF BuffersOK, BufferStep, Top

-----------------------------------------------------------------------------
(* What a read delivers.                                                    *)
LEMMA CopyLengths ==
  ASSUME BuffersOK, NEW n \in 0 .. BufSize
  PROVE  /\ CopyLength(n) \in 0 .. n
         /\ [i \in 1 .. CopyLength(n) |-> Cell(i - 1)] \in Seq(Char)
         /\ Len([i \in 1 .. CopyLength(n) |-> Cell(i - 1)]) <= BufSize
<1>1. CopyLength(n) \in 0 .. n
  <2>1. CASE Ends(n) = {}
    BY <2>1 DEF CopyLength
  <2>2. CASE Ends(n) # {}
    <3>1. Ends(n) \in SUBSET Nat
      BY DEF Ends
    <3>2. \E i \in Ends(n) : \A j \in Ends(n) : i <= j
      BY <2>2, <3>1, LeastElement
    <3> DEFINE e == CHOOSE i \in Ends(n) : \A j \in Ends(n) : i <= j
    <3>3. e \in Ends(n)
      BY <3>2
    <3>4. CopyLength(n) = 1 + e
      BY <2>2, Zenon DEF CopyLength
    <3> HIDE DEF e
    <3> QED BY <3>3, <3>4, BufSizes DEF Ends
  <2> QED BY <2>1, <2>2
<1> DEFINE m == CopyLength(n)
<1> HIDE DEF m
<1>2. \A i \in 1 .. m : Cell(i - 1) \in Char
  <2>1. m \in 0 .. n
    BY <1>1 DEF m
  <2>2. ASSUME NEW i \in 1 .. m PROVE i - 1 \in 0 .. BufSize - 1
    BY <2>1, BufSizes
  <2> QED BY <2>2 DEF BuffersOK, Cell
<1>3. m \in Nat /\ m <= BufSize
  BY <1>1, BufSizes DEF m
<1>4. [i \in 1 .. m |-> Cell(i - 1)] \in Seq(Char)
  BY <1>2, <1>3
<1>5. Len([i \in 1 .. m |-> Cell(i - 1)]) = m
  BY <1>3
<1> QED BY <1>1, <1>3, <1>4, <1>5 DEF m

-----------------------------------------------------------------------------
(* The handlers cut in a swap.                                              *)
SwapsOK ==
  /\ terminal_flags \subseteq Term
  /\ terminal_num \in Term
  /\ handlers \in [Term -> Seq(Term)]
  /\ \A t \in Term : Len(handlers[t]) <= MaxNesting

LEMMA Prepended ==
  ASSUME NEW S, NEW s \in Seq(S), NEW e \in S
  PROVE  /\ <<e>> \o s \in Seq(S) /\ Len(s) \in Nat /\ Len(<<e>> \o s) = Len(s) + 1
         /\ (<<e>> \o s)[1] = e
         /\ \A i \in 1 .. Len(s) : (<<e>> \o s)[i + 1] = s[i]
<1>1. <<e>> \in Seq(S) /\ Len(<<e>>) = 1 /\ <<e>>[1] = e /\ Len(s) \in Nat
  OBVIOUS
<1> DEFINE one == <<e>>
<1> HIDE DEF one
<1>2. /\ one \o s \in Seq(S) /\ Len(one \o s) = Len(one) + Len(s)
      /\ \A i \in 1 .. Len(one) + Len(s) :
           (one \o s)[i] = IF i <= Len(one) THEN one[i] ELSE s[i - Len(one)]
  BY <1>1, ConcatProperties DEF one
<1>3. one \in Seq(S) /\ Len(one) = 1 /\ one[1] = e
  BY <1>1 DEF one
<1>4. ASSUME NEW i \in 1 .. Len(s) PROVE (one \o s)[i + 1] = s[i]
  <2>1. i + 1 \in 1 .. 1 + Len(s) /\ ~(i + 1 <= 1) /\ (i + 1) - 1 = i
    BY <1>1
  <2> QED BY <1>2, <1>3, <2>1
<1>5. (one \o s)[1] = e /\ Len(one \o s) = Len(s) + 1
  BY <1>1, <1>2, <1>3
<1> QED BY <1>1, <1>2, <1>4, <1>5 DEF one

LEMMA FirstOfFlags ==
  ASSUME NEW F \in SUBSET Term, F # {}
  PROVE  FirstFlag(F) \in F
<1>1. F \in SUBSET Nat
  BY DEF Term
<1>2. \E t \in F : \A u \in F : t <= u
  BY <1>1, LeastElement
<1> QED BY <1>2 DEF FirstFlag

(* A swap starts a handler that will reset all flags.                       *)
LEMMA SwapKeyStep ==
  ASSUME SwapsOK, NEW flags \in SUBSET Term, NEW enter, SwapKey(flags, enter)
  PROVE  /\ SwapsOK' /\ FlagsServed'
         /\ terminal_num_display' \in Term \cup {terminal_num_display}
<1> DEFINE tn == terminal_num
           h == handlers[tn]
           new == <<0>> \o h
<1>1. CASE SwapNeeded(FirstFlag(flags))
  <2>1. /\ Len(h) < MaxNesting /\ handlers' = [handlers EXCEPT ![tn] = new]
        /\ terminal_num_display' = FirstFlag(flags)
        /\ terminal_flags' = flags /\ flags # {} /\ terminal_num' = tn
    BY <1>1 DEF SwapKey
  <2>2. 0 \in Term
    BY TerminalsAssumption DEF Term
  <2>3. h \in Seq(Term) /\ Len(h) \in Nat
    BY DEF SwapsOK
  <2>4. new \in Seq(Term) /\ Len(new) = Len(h) + 1 /\ new[1] = 0
    <3>1. <<0>> \in Seq(Term) /\ Len(<<0>>) = 1 /\ <<0>>[1] = 0
      BY <2>2
    <3> QED BY <2>3, <3>1, ConcatProperties
  <2> HIDE DEF h, new
  <2>5. \A t \in Term : handlers'[t] = IF t = tn THEN new ELSE handlers[t]
    BY <2>1 DEF SwapsOK
  <2>6. SwapsOK'
    <3>1. handlers' \in [Term -> Seq(Term)]
      BY <2>1, <2>4 DEF SwapsOK
    <3>2. \A t \in Term : Len(handlers'[t]) <= MaxNesting
      BY <2>1, <2>3, <2>4, <2>5, NestingAssumption DEF SwapsOK
    <3> QED BY <2>1, <3>1, <3>2 DEF SwapsOK
  <2>7. FlagsServed'
    <3>1. tn \in Term /\ 1 \in 1 .. Len(handlers'[tn]) /\ handlers'[tn][1] = 0
      BY <2>3, <2>4, <2>5 DEF SwapsOK
    <3>2. \A f \in terminal_flags' : 0 <= f
      BY <2>1 DEF Term
    <3> QED BY <3>1, <3>2 DEF FlagsServed
  <2> QED BY <2>1, <2>6, <2>7, FirstOfFlags
<1>2. CASE ~SwapNeeded(FirstFlag(flags))
  <2>1. terminal_flags' = {} /\ UNCHANGED <<terminal_num_display, handlers, terminal_num>>
    BY <1>2 DEF SwapKey
  <2> QED BY <2>1 DEF SwapsOK, FlagsServed
<1> QED BY <1>1, <1>2

(* Resetting a flag leaves the later ones to the same handler.              *)
LEMMA ResetFlagStep ==
  ASSUME SwapsOK, FlagsServed, ResetFlag
  PROVE  SwapsOK' /\ FlagsServed'
<1> DEFINE tn == terminal_num
           h == handlers[tn]
           flag == Head(h)
           new == IF flag = NumTerminals - 1 THEN Tail(h) ELSE <<flag + 1>> \o Tail(h)
<1>1. /\ h # <<>> /\ terminal_flags' = terminal_flags \ {flag}
      /\ handlers' = [handlers EXCEPT ![tn] = new] /\ terminal_num' = tn
  BY DEF ResetFlag
<1>2. h \in Seq(Term) /\ Len(h) \in Nat /\ Len(h) > 0
  BY <1>1 DEF SwapsOK
<1>3. /\ flag \in Term /\ flag = h[1] /\ Tail(h) \in Seq(Term) /\ Len(Tail(h)) = Len(h) - 1
      /\ \A i \in 1 .. Len(Tail(h)) : Tail(h)[i] = h[i + 1]
  BY <1>1, <1>2, HeadTailProperties
<1> DEFINE tail == Tail(h)
<1> HIDE DEF flag, tail
<1>4. ASSUME flag # NumTerminals - 1
      PROVE  /\ <<flag + 1>> \o tail \in Seq(Term) /\ Len(<<flag + 1>> \o tail) = Len(h)
             /\ (<<flag + 1>> \o tail)[1] = flag + 1
             /\ \A i \in 2 .. Len(h) : (<<flag + 1>> \o tail)[i] = h[i]
  <2>1. flag + 1 \in Term
    BY <1>3, <1>4, TerminalsAssumption DEF Term
  <2>2. tail \in Seq(Term) /\ Len(tail) = Len(h) - 1
        /\ \A i \in 1 .. Len(tail) : tail[i] = h[i + 1]
    BY <1>3 DEF tail
  <2>3. /\ <<flag + 1>> \o tail \in Seq(Term) /\ Len(<<flag + 1>> \o tail) = Len(tail) + 1
        /\ (<<flag + 1>> \o tail)[1] = flag + 1
        /\ \A i \in 1 .. Len(tail) : (<<flag + 1>> \o tail)[i + 1] = tail[i]
    BY <2>1, <2>2, Prepended
  <2>4. ASSUME NEW i \in 2 .. Len(h) PROVE (<<flag + 1>> \o tail)[i] = h[i]
    <3>1. i - 1 \in 1 .. Len(tail) /\ (i - 1) + 1 = i
      BY <1>2, <2>2
    <3> QED BY <2>2, <2>3, <3>1
  <2> QED BY <1>2, <2>2, <2>3, <2>4
<1>5. new \in Seq(Term) /\ Len(new) <= Len(h)
  BY <1>2, <1>3, <1>4 DEF tail
<1>6. \A f \in terminal_flags' : \A i \in 1 .. Len(h) :
        h[i] <= f => \E j \in 1 .. Len(new) : new[j] <= f
  <2> SUFFICES ASSUME NEW f \in terminal_flags', NEW i \in 1 .. Len(h), h[i] <= f
               PROVE  \E j \in 1 .. Len(new) : new[j] <= f
    OBVIOUS
  <2>1. f \in Term /\ f # flag
    BY <1>1 DEF SwapsOK
  <2>2. CASE flag = NumTerminals - 1
    <3>1. i # 1
      <4>1. f <= NumTerminals - 1 /\ f \in Int /\ NumTerminals \in Int
        BY <2>1, TerminalsAssumption DEF Term
      <4>2. ~(flag <= f)
        BY <2>1, <2>2, <4>1
      <4> QED BY <1>3, <4>2
    <3>2. new = tail
      BY <2>2 DEF tail
    <3>3. i - 1 \in 1 .. Len(tail) /\ tail[i - 1] = h[i]
      BY <1>2, <1>3, <3>1 DEF tail
    <3> QED BY <3>2, <3>3
  <2>3. CASE flag # NumTerminals - 1 /\ i = 1
    <3>1. new = <<flag + 1>> \o tail
      BY <2>3 DEF tail
    <3>2. new[1] = flag + 1 /\ 1 \in 1 .. Len(new)
      BY <1>2, <1>4, <2>3, <3>1
    <3>3. flag + 1 <= f
      BY <1>3, <2>1, <2>3 DEF Term
    <3> QED BY <3>2, <3>3
  <2>4. CASE flag # NumTerminals - 1 /\ i # 1
    <3>1. new = <<flag + 1>> \o tail
      BY <2>4 DEF tail
    <3>2. new[i] = h[i] /\ i \in 1 .. Len(new)
      BY <1>2, <1>4, <2>4, <3>1
    <3> QED BY <3>2
  <2> QED BY <2>2, <2>3, <2>4
<1> HIDE DEF new
<1>7. \A t \in Term : handlers'[t] = IF t = tn THEN new ELSE handlers[t]
  BY <1>1 DEF SwapsOK
<1>8. SwapsOK'
  <2>1. handlers' \in [Term -> Seq(Term)]
    BY <1>1, <1>5 DEF SwapsOK
  <2>2. \A t \in Term : Len(handlers'[t]) <= MaxNesting
    <3>1. Len(new) \in Nat /\ Len(h) <= MaxNesting
      BY <1>5 DEF SwapsOK
    <3>2. Len(new) <= MaxNesting
      BY <1>2, <1>5, <3>1, NestingAssumption
    <3> QED BY <1>7, <3>2 DEF SwapsOK
  <2> QED BY <1>1, <2>1, <2>2 DEF SwapsOK
<1>9. FlagsServed'
  <2> SUFFICES ASSUME NEW f \in terminal_flags'
               PROVE  \E t \in Term : \E i \in 1 .. Len(handlers'[t]) : handlers'[t][i] <= f
    BY DEF FlagsServed
  <2>1. f \in terminal_flags
    BY <1>1
  <2>2. PICK t \in Term : \E i \in 1 .. Len(handlers[t]) : handlers[t][i] <= f
    BY <2>1 DEF FlagsServed
  <2>3. CASE t = tn
    BY <1>6, <1>7, <2>2, <2>3
  <2>4. CASE t # tn
    BY <1>7, <2>2, <2>4
  <2> QED BY <2>3, <2>4
<1> QED BY <1>8, <1>9

-----------------------------------------------------------------------------
(* The invariant in the parts that the actions change.                      *)
RestOK ==
  /\ enter_flag \in {0, 1}
  /\ reader \in [Term -> {"idle", "wait", "take"}]
  /\ user_buf \in Seq(Char) /\ Len(user_buf) <= BufSize

LEMMA InvParts ==
  Inv <=> /\ BuffersOK /\ SwapsOK /\ RestOK
          /\ BufferShape /\ EndsApart /\ FlagsServed
  BY DEF Inv, TypeOK, BuffersOK, SwapsOK, RestOK

(* What every step does to the buffers.                                     *)
Step ==
  /\ BufferStep
  /\ terminal_num_display' = terminal_num_display \/ UNCHANGED bufVars
  /\ terminal_num_display' \in Term
  /\ SwapsOK' /\ FlagsServed' /\ RestOK'

LEMMA StepKeepsInv ==
  ASSUME Inv, Step
  PROVE  Inv'
<1>1. BuffersOK'
  BY DEF Step, BufferStep, BuffersOK
<1>2. \A t \in Term : LineOK(screen_buf'[t], screen_buf_top'[t])
  <2>1. \A t \in Term : LineOK(screen_buf[t], screen_buf_top[t])
    BY InvParts, ShapeIsLineOK
  <2> QED BY <2>1 DEF Step, BufferStep
<1>3. BufferShape' /\ EndsApart'
  BY <1>2 DEF BufferShape, EndsApart, LineOK
<1>4. SwapsOK' /\ RestOK' /\ FlagsServed'
  BY DEF Step
<1> QED BY <1>1, <1>3, <1>4 DEF Inv, TypeOK, BuffersOK, SwapsOK, RestOK

swapVars == <<terminal_flags, terminal_num, handlers>>
LEMMA KeptSwaps ==
  ASSUME Inv, UNCHANGED swapVars
  PROVE  SwapsOK' /\ FlagsServed'
  BY InvParts DEF SwapsOK, FlagsServed, swapVars

LEMMA CtrlLStep == ASSUME Inv, CtrlL PROVE Step
<1>1. BufferStep
  BY InvParts, ClearBufStep DEF CtrlL
<1>2. SwapsOK' /\ FlagsServed'
  BY InvParts DEF CtrlL, SwapsOK, FlagsServed
<1>3. RestOK'
  BY InvParts DEF CtrlL, RestOK
<1> QED BY <1>1, <1>2, <1>3, InvParts DEF CtrlL, Step, BuffersOK

LEMMA TypeKeyStep == ASSUME Inv, NEW k, TypeKey(k) PROVE Step
<1>1. BufferStep
  <2>1. k \in KeyKinds
    BY KeysAssumption DEF TypeKey
  <2>2. Ascii(k) \in Char
    BY <2>1 DEF Ascii, KeyKinds, Char
  <2>3. "a" \in Char /\ "a" \notin Eol
    BY DEF Char, Eol
  <2>4. \/ EnterPress(Ascii(k)) \/ Add2Buf("a") \/ DeleteChar \/ UNCHANGED bufVars
    BY DEF TypeKey
  <2> QED BY <2>2, <2>3, <2>4, InvParts, EnterPressStep, Add2BufStep, DeleteCharStep, KeptBuffers
<1>2. SwapsOK' /\ FlagsServed'
  BY KeptSwaps DEF TypeKey, swapVars
<1>3. RestOK'
  BY InvParts DEF TypeKey, RestOK
<1> QED BY <1>1, <1>2, <1>3, InvParts DEF TypeKey, Step, BuffersOK

LEMMA SwapStep ==
  ASSUME Inv, NEW flags \in SUBSET Term, NEW enter \in {0, 1}, SwapKey(flags, enter)
  PROVE  Step
<1>1. BufferStep
  BY InvParts, KeptBuffers DEF SwapKey
<1>2. /\ SwapsOK' /\ FlagsServed'
      /\ terminal_num_display' \in Term \cup {terminal_num_display}
  BY InvParts, SwapKeyStep
<1>3. RestOK'
  BY InvParts DEF SwapKey, RestOK
<1>4. UNCHANGED bufVars
  BY DEF SwapKey
<1> QED BY <1>1, <1>2, <1>3, <1>4, InvParts DEF Step, BuffersOK

LEMMA KeyStep == ASSUME Inv, Key PROVE Step
<1>1. ASSUME NEW k \in Keys, TypeKey(k) PROVE Step
  BY <1>1, TypeKeyStep
<1>2. ASSUME NEW k \in Keys, KeyInSwap(k) PROVE Step
  <2>1. terminal_flags \in SUBSET Term /\ enter_flag \in {0, 1}
    BY InvParts DEF SwapsOK, RestOK
  <2>2. PICK enter \in {0, 1} : SwapKey(terminal_flags, enter)
    BY <1>2, <2>1 DEF KeyInSwap
  <2> QED BY <2>1, <2>2, SwapStep
<1>3. ASSUME NEW t \in Term, AltF(t) PROVE Step
  <2>1. terminal_flags \cup {t} \in SUBSET Term /\ enter_flag \in {0, 1}
    BY InvParts DEF SwapsOK, RestOK
  <2> QED BY <1>3, <2>1, SwapStep DEF AltF
<1> QED BY <1>1, <1>2, <1>3, CtrlLStep DEF Key

LEMMA ResetStep == ASSUME Inv, ResetFlag PROVE Step
<1>1. BufferStep
  BY InvParts, KeptBuffers DEF ResetFlag
<1>2. SwapsOK' /\ FlagsServed'
  BY InvParts, ResetFlagStep
<1>3. RestOK'
  BY InvParts DEF ResetFlag, RestOK
<1> QED BY <1>1, <1>2, <1>3, InvParts DEF ResetFlag, Step, BuffersOK

LEMMA TickStep == ASSUME Inv, Tick PROVE Step
<1>1. BufferStep
  BY InvParts, KeptBuffers DEF Tick
<1>2. terminal_num' \in Term
  <2>1. NumTerminals \in Nat /\ NumTerminals > 0 /\ terminal_num + 1 \in Int
    BY InvParts, TerminalsAssumption DEF SwapsOK, Term
  <2> QED BY <2>1 DEF Tick, Term
<1>3. SwapsOK' /\ FlagsServed'
  BY <1>2, InvParts DEF Tick, SwapsOK, FlagsServed
<1>4. RestOK'
  BY InvParts DEF Tick, RestOK
<1> QED BY <1>1, <1>3, <1>4, InvParts DEF Tick, Step, BuffersOK

LEMMA ReadStep == ASSUME Inv, NEW t \in Term, Read(t) PROVE Step
<1>1. SwapsOK' /\ FlagsServed' /\ terminal_num_display' = terminal_num_display
  <2>1. UNCHANGED swapVars /\ terminal_num_display' = terminal_num_display
    BY DEF Read, ReadBegin, ReadFail, ReadWake, ReadTake, swapVars, bufVars
  <2> QED BY <2>1, KeptSwaps
<1>2. CASE ReadBegin(t) \/ ReadFail(t)
  <2>1. BufferStep
    BY <1>2, InvParts, MarkEndStep DEF ReadBegin, ReadFail
  <2>2. RestOK'
    BY <1>2, InvParts DEF ReadBegin, ReadFail, RestOK
  <2> QED BY <1>1, <2>1, <2>2, InvParts DEF Step, BuffersOK
<1>3. CASE ReadWake(t)
  <2>1. BufferStep
    BY <1>3, InvParts, KeptBuffers DEF ReadWake
  <2>2. RestOK'
    BY <1>3, InvParts DEF ReadWake, RestOK
  <2> QED BY <1>1, <2>1, <2>2, InvParts DEF Step, BuffersOK
<1>4. CASE ReadTake(t)
  <2>1. BufferStep
    BY <1>4, InvParts, ClearBufStep DEF ReadTake
  <2>2. PICK n \in Reads : user_buf' = [i \in 1 .. CopyLength(n) |-> Cell(i - 1)]
    BY <1>4 DEF ReadTake
  <2>3. n \in 0 .. BufSize
    BY ReadsAssumption
  <2>4. user_buf' \in Seq(Char) /\ Len(user_buf') <= BufSize
    BY <2>2, <2>3, InvParts, CopyLengths
  <2>5. RestOK'
    BY <1>4, <2>4, InvParts DEF ReadTake, RestOK
  <2> QED BY <1>1, <2>1, <2>5, InvParts DEF Step, BuffersOK
<1> QED BY <1>2, <1>3, <1>4 DEF Read

LEMMA NextStep == Inv /\ [Next]_vars => Step
<1>1. SUFFICES ASSUME Inv, [Next]_vars PROVE Step
  OBVIOUS
<1>2. CASE UNCHANGED vars
  <2>1. UNCHANGED bufVars /\ UNCHANGED swapVars
    BY <1>2 DEF vars, bufVars, swapVars
  <2>2. BufferStep /\ SwapsOK' /\ FlagsServed'
    BY <1>1, <2>1, InvParts, KeptBuffers, KeptSwaps
  <2>3. RestOK'
    BY <1>1, <1>2, InvParts DEF vars, RestOK
  <2> QED BY <1>1, <1>2, <2>2, <2>3, InvParts DEF vars, Step, BuffersOK
<1> QED BY <1>1, <1>2, KeyStep, ResetStep, TickStep, ReadStep DEF Next

LEMMA InitInv == Init => Inv
<1>1. SUFFICES ASSUME Init PROVE Inv
  OBVIOUS
<1>2. 0 \in Term
  BY TerminalsAssumption DEF Term
<1>3. BuffersOK
  BY <1>1, <1>2, BufSizes DEF Init, BuffersOK, Char
<1>4. SwapsOK
  BY <1>1, <1>2, NestingAssumption DEF Init, SwapsOK
<1>5. RestOK
  BY <1>1, BufSizes DEF Init, RestOK
<1>6. BufferShape /\ EndsApart
  BY <1>1, BufSizes DEF Init, BufferShape, EndsApart
<1>7. FlagsServed
  BY <1>1 DEF Init, FlagsServed
<1> QED BY <1>3, <1>4, <1>5, <1>6, <1>7, InvParts

-----------------------------------------------------------------------------
(* No reader sees the remains of an old line, no line has two ends in a     *)
(* row, and no flag of a swap is left without a handler that resets it,     *)
(* however many handlers and ticks cut each other.                          *)
THEOREM LineInputInvariant == Spec => []Inv
<1>1. Inv /\ [Next]_vars => Inv'
  BY NextStep, StepKeepsInv
<1> QED BY <1>1, InitInv, PTL DEF Spec

(* No key, read or tick touches the line of a terminal that is hidden.      *)
THEOREM HiddenLines == Spec => HiddenLinesKept
<1> DEFINE Kept == \A t \in Term :
             t # terminal_num_display /\ t # terminal_num_display'
               => screen_buf[t]' = screen_buf[t] /\ screen_buf_top[t]' = screen_buf_top[t]
<1>1. Inv /\ [Next]_vars => [Kept]_vars
  <2>1. SUFFICES ASSUME Inv, [Next]_vars PROVE Kept
    OBVIOUS
  <2>2. Step
    BY <2>1, NextStep
  <2>3. \A t \in Term \ {terminal_num_display} :
          screen_buf'[t] = screen_buf[t] /\ screen_buf_top'[t] = screen_buf_top[t]
    BY <2>2 DEF Step, BufferStep
  <2> QED BY <2>3
<1>2. Inv /\ [Next]_vars => Inv'
  BY NextStep, StepKeepsInv
<1> QED BY <1>1, <1>2, InitInv, PTL DEF Spec, HiddenLinesKept

-----------------------------------------------------------------------------
(* LineInput implements Lines while no terminal is swapped and no line is   *)
(* cleared by Ctrl-L.                                                       *)
NoSwaps == Keys \cap {"ctrlL", "swap"} = {}

(* The line typed has n characters; once Enter is pending its end follows,  *)
(* in the buffer or, when the buffer is full, by the end mark of the read.  *)
LineIs(n) ==
  /\ n \in 0 .. BufSize - 1
  /\ \A i \in 0 .. n - 1 : Cell(i) = "a"
  /\ \/ Top = n /\ (enter_flag = 0 \/ n = BufSize - 1)
     \/ Top = n + 1 /\ Cell(n) = "nl" /\ enter_flag = 1

OneTerminal ==
  /\ terminal_num_display = 0 /\ terminal_flags = {}
  /\ \A t \in Term : reader[t] = "take" => t = 0 /\ enter_flag = 1
  /\ reader[0] # "idle" => Cell(BufSize - 1) = "cr"
  /\ \E n \in Nat : LineIs(n)

LEMMA Typed ==
  ASSUME BuffersOK, NEW n, LineIs(n)
  PROVE  TypedLength = n
<1>1. n > 0 => Cell(n - 1) = "a"
  BY BufSizes DEF LineIs
<1> QED BY <1>1, BufSizes DEF LineIs, TypedLength, Eol

LEMMA TypedNext ==
  ASSUME BuffersOK', NEW n, LineIs(n)'
  PROVE  TypedLength' = n
<1>1. n > 0 => Cell(n - 1)' = "a"
  BY BufSizes DEF LineIs
<1> QED BY <1>1, BufSizes DEF LineIs, TypedLength, Eol

(* The buffer operations on the terminal displayed, cell by cell.           *)
Cells == 0 .. BufSize - 1

LEMMA Add2BufCells ==
  ASSUME BuffersOK, NEW c, Add2Buf(c), terminal_num_display' = terminal_num_display,
         Top < BufSize - 1
  PROVE  Top' = Top + 1 /\ \A i \in Cells : Cell(i)' = IF i = Top THEN c ELSE Cell(i)
<1>1. Top \in Cells
  BY DEF BuffersOK, Top, Cells
<1> DEFINE d == terminal_num_display
           b == screen_buf[d]
           new == [b EXCEPT ![Top] = c]
<1>2. /\ screen_buf' = [screen_buf EXCEPT ![d] = new]
      /\ screen_buf_top' = [screen_buf_top EXCEPT ![d] = Top + 1]
  BY DEF Add2Buf, Top
<1>3. screen_buf'[d] = new /\ screen_buf_top'[d] = Top + 1
  BY <1>2 DEF BuffersOK
<1>4. \A i \in Cells : new[i] = IF i = Top THEN c ELSE b[i]
  BY <1>1 DEF BuffersOK, Cells
<1> HIDE DEF new
<1> QED BY <1>3, <1>4 DEF Top, Cell

LEMMA DeleteCharCells ==
  ASSUME BuffersOK, DeleteChar, terminal_num_display' = terminal_num_display, Top > 0
  PROVE  Top' = Top - 1 /\ \A i \in Cells : i # Top - 1 => Cell(i)' = Cell(i)
<1>1. Top \in Cells
  BY DEF BuffersOK, Top, Cells
<1> QED BY <1>1, ZenonT(60) DEF DeleteChar, BuffersOK, Top, Cell, Cells

LEMMA MarkEndCells ==
  ASSUME BuffersOK, MarkEnd, UNCHANGED <<screen_buf_top, terminal_num_display>>
  PROVE  /\ Top' = Top
         /\ \A i \in Cells : Cell(i)' = IF i = BufSize - 1 THEN "cr" ELSE Cell(i)
  BY BufSizes DEF MarkEnd, BuffersOK, Top, Cell, Cells

LEMMA KeptCells ==
  ASSUME UNCHANGED bufVars, terminal_num_display' = terminal_num_display
  PROVE  Top' = Top /\ \A i : Cell(i)' = Cell(i)
  BY DEF bufVars, Top, Cell

(* Sequences of one character.                                              *)
Ays(n) == [i \in 1 .. n |-> "a"]

LEMMA AysSeq ==
  ASSUME NEW n \in Nat
  PROVE  Ays(n) \in Seq({"a"}) /\ Len(Ays(n)) = n /\ \A i \in 1 .. n : Ays(n)[i] = "a"
  BY DEF Ays

LEMMA AysAppend ==
  ASSUME NEW n \in Nat, NEW e
  PROVE  Append(Ays(n), e) = [i \in 1 .. n + 1 |-> IF i = n + 1 THEN e ELSE "a"]
<1> DEFINE s == Ays(n)
           r == [i \in 1 .. n + 1 |-> IF i = n + 1 THEN e ELSE "a"]
           a == Append(s, e)
           S == {"a", e}
<1>1. s \in Seq(S) /\ Len(s) = n /\ \A i \in 1 .. n : s[i] = "a"
  BY DEF Ays
<1>2. r \in Seq(S) /\ Len(r) = n + 1
  OBVIOUS
<1>3. /\ a \in Seq(S) /\ Len(a) = Len(s) + 1 /\ a[Len(s) + 1] = e
      /\ \A i \in 1 .. Len(s) : a[i] = s[i]
  <2> HIDE DEF s
  <2>1. e \in S
    OBVIOUS
  <2> HIDE DEF S
  <2> QED BY <1>1, <2>1, AppendProperties
<1>4. \A i \in 1 .. n + 1 : r[i] = IF i = n + 1 THEN e ELSE "a"
  OBVIOUS
<1> HIDE DEF s, r, a
<1>5. ASSUME NEW i \in 1 .. Len(a) PROVE a[i] = r[i]
  <2>1. i \in 1 .. n + 1 /\ (i # n + 1 => i \in 1 .. n)
    BY <1>1, <1>3
  <2> QED BY <2>1, <1>1, <1>3, <1>4
<1>6. a = r
  BY <1>1, <1>2, <1>3, <1>5, SeqEqual
<1> QED BY <1>6 DEF a, r, s

LEMMA AysPrefix ==
  ASSUME NEW n \in Nat, NEW m \in 0 .. n
  PROVE  SubSeq(Ays(n), 1, m) = Ays(m)
<1> DEFINE s == Ays(n)
           r == Ays(m)
           a == SubSeq(s, 1, m)
           S == {"a"}
<1>1. /\ s \in Seq(S) /\ Len(s) = n /\ \A i \in 1 .. n : s[i] = "a"
      /\ r \in Seq(S) /\ Len(r) = m /\ \A i \in 1 .. m : r[i] = "a"
  BY AysSeq
<1> HIDE DEF s, r
<1>2. a \in Seq(S) /\ Len(a) = m /\ \A i \in 1 .. m : a[i] = s[i]
  BY <1>1
<1> HIDE DEF a
<1>3. \A i \in 1 .. Len(a) : a[i] = r[i]
  BY <1>1, <1>2
<1>4. a = r
  BY <1>1, <1>2, <1>3, SeqEqual
<1> QED BY <1>4 DEF a, r, s

(* The abstract state.                                                      *)
AbsLine == [i \in 1 .. TypedLength |-> Cell(i - 1)]
AbsGiven == [i \in 1 .. Len(user_buf) |->
              IF user_buf[i] \in Eol THEN "eol" ELSE user_buf[i]]

LEMMA AbsLineIs ==
  ASSUME BuffersOK, NEW n, LineIs(n)
  PROVE  AbsLine = Ays(n)
<1>1. TypedLength = n
  BY Typed
<1>2. \A i \in 1 .. n : Cell(i - 1) = "a"
  BY DEF LineIs
<1> QED BY <1>1, <1>2 DEF AbsLine, Ays

LEMMA AbsLineIsNext ==
  ASSUME BuffersOK', NEW n, LineIs(n)'
  PROVE  AbsLine' = Ays(n)
<1>1. TypedLength' = n
  BY TypedNext
<1>2. \A i \in 1 .. n : Cell(i - 1)' = "a"
  BY DEF LineIs
<1> QED BY <1>1, <1>2 DEF AbsLine, Ays

(* What a step does to the state and to the abstract state.                 *)
Implements ==
  /\ OneTerminal'
  /\ L!Next \/ UNCHANGED <<AbsLine, enter_flag, user_buf>>

(* A step of the keyboard or of a reader that keeps the line.               *)
LEMMA LineKept ==
  ASSUME BuffersOK, BuffersOK', NEW n \in Nat, LineIs(n),
         terminal_num_display' = terminal_num_display, enter_flag' = enter_flag,
         Top' = Top, \A i \in 0 .. BufSize - 2 : Cell(i)' = Cell(i)
  PROVE  LineIs(n)' /\ AbsLine' = AbsLine
<1>1. \A i \in 0 .. n - 1 : i \in 0 .. BufSize - 2
  BY BufSizes DEF LineIs
<1>2. Top = n + 1 => n \in 0 .. BufSize - 2
  BY BufSizes DEF LineIs, BuffersOK, Top
<1>3. LineIs(n)'
  BY <1>1, <1>2 DEF LineIs
<1> QED BY <1>3, AbsLineIs, AbsLineIsNext

LEMMA KeyImplements ==
  ASSUME Inv, Inv', OneTerminal, NEW k, TypeKey(k)
  PROVE  Implements
<1> DEFINE d == terminal_num_display
<1>1. BuffersOK /\ BuffersOK' /\ BufSize \in Nat /\ BufSize > 1
  BY InvParts, BufSizes DEF Inv, TypeOK, BuffersOK
<1>2. PICK n \in Nat : LineIs(n)
  BY DEF OneTerminal
<1>3. /\ k \in {"char", "enter", "back", "other"} /\ terminal_num_display' = d
      /\ UNCHANGED <<terminal_flags, reader, user_buf>>
      /\ enter_flag' = IF k = "enter" THEN 1 ELSE enter_flag
      /\ enter_flag \in {0, 1}
  BY KeysAssumption, InvParts DEF TypeKey, KeyKinds, RestOK
<1>4. Top \in 0 .. BufSize - 1 /\ n \in 0 .. BufSize - 1
  BY <1>1, <1>2 DEF BuffersOK, Top, LineIs
<1>5. ASSUME NEW m \in Nat, LineIs(m)', \A i \in {BufSize - 1} : Cell(i)' = Cell(i)
      PROVE  OneTerminal'
  BY <1>3, <1>5 DEF OneTerminal
<1>6. ASSUME UNCHANGED bufVars, enter_flag' = enter_flag
      PROVE  Implements
  <2>1. Top' = Top /\ \A i : Cell(i)' = Cell(i)
    BY <1>3, <1>6, KeptCells
  <2>2. LineIs(n)' /\ AbsLine' = AbsLine
    BY <1>1, <1>2, <1>3, <1>6, <2>1, LineKept
  <2> QED BY <1>3, <1>5, <1>6, <2>1, <2>2 DEF Implements
<1>7. CASE enter_flag = 1
  <2>1. EnterPress(Ascii(k)) /\ enter_flag' = enter_flag
    BY <1>3, <1>7 DEF TypeKey
  <2>2. CASE Top = n + 1
    <3>1. Top # 0 /\ Top - 1 = n /\ Cell(Top - 1) \in Eol
      BY <1>2, <1>4, <1>7, <2>2 DEF LineIs, Eol
    <3>2. UNCHANGED bufVars
      BY <2>1, <3>1 DEF EnterPress
    <3> QED BY <1>6, <2>1, <3>2
  <2>3. CASE Top = n
    <3>1. ~ (Top < BufSize - 1)
      BY <1>1, <1>2, <1>4, <1>7, <2>3 DEF LineIs
    <3>2. UNCHANGED bufVars
      BY <2>1, <3>1 DEF EnterPress, Add2Buf
    <3> QED BY <1>6, <2>1, <3>2
  <2> QED BY <1>2, <2>2, <2>3 DEF LineIs
<1>8. CASE enter_flag = 0
  <2>1. Top = n /\ AbsLine = Ays(n)
    BY <1>1, <1>2, <1>8, AbsLineIs DEF LineIs
  <2>2. CASE k = "char"
    <3>1. Add2Buf("a") /\ enter_flag' = 0
      BY <1>3, <1>8, <2>2 DEF TypeKey
    <3>2. CASE Top < BufSize - 1
      <4>1. Top' = n + 1 /\ \A i \in Cells : Cell(i)' = IF i = n THEN "a" ELSE Cell(i)
        BY <1>1, <1>3, <2>1, <3>1, <3>2, Add2BufCells
      <4>2. LineIs(n + 1)'
        BY <1>1, <1>2, <1>4, <2>1, <3>1, <3>2, <4>1 DEF LineIs, Cells
      <4>3. OneTerminal'
        BY <1>1, <1>4, <1>5, <2>1, <3>2, <4>1, <4>2 DEF Cells
      <4>4. AbsLine' = Ays(n + 1) /\ Append(Ays(n), "a") = Ays(n + 1)
        BY <1>1, <4>2, AbsLineIsNext, AysAppend DEF Ays
      <4>5. L!Type
        <5>1. Len(AbsLine) < BufSize - 1 /\ AbsLine' = Append(AbsLine, "a")
          BY <2>1, <3>2, <4>4, AysSeq
        <5>3. ~ (enter_flag = 1) /\ (enter_flag = 1)' = (enter_flag = 1)
          BY <1>8, <3>1
        <5>4. AbsGiven' = AbsGiven
          BY <1>3 DEF AbsGiven
        <5> QED BY <5>1, <5>3, <5>4, Zenon DEF L!Type, AbsLine, AbsGiven
      <4> QED BY <4>3, <4>5 DEF Implements, L!Next
    <3>3. CASE ~ (Top < BufSize - 1)
      BY <1>6, <1>8, <3>1, <3>3 DEF Add2Buf
    <3> QED BY <3>2, <3>3
  <2>3. CASE k = "back"
    <3>1. DeleteChar /\ enter_flag' = 0
      BY <1>3, <1>8, <2>3 DEF TypeKey
    <3>2. CASE Top > 0
      <4>1. /\ Top' = n - 1 /\ n - 1 \in Nat
            /\ \A i \in Cells : i # n - 1 => Cell(i)' = Cell(i)
        BY <1>1, <1>3, <1>4, <2>1, <3>1, <3>2, DeleteCharCells
      <4>2. LineIs(n - 1)'
        BY <1>1, <1>2, <1>4, <2>1, <3>1, <3>2, <4>1 DEF LineIs, Cells
      <4>3. OneTerminal'
        BY <1>1, <1>4, <1>5, <2>1, <3>2, <4>1, <4>2 DEF Cells
      <4>4. AbsLine' = Ays(n - 1) /\ SubSeq(Ays(n), 1, n - 1) = Ays(n - 1)
        BY <1>1, <4>1, <4>2, AbsLineIsNext, AysPrefix
      <4>5. L!Erase
        <5>1. Len(AbsLine) = n
          BY <2>1, AysSeq
        <5>2. AbsLine # <<>> /\ AbsLine' = SubSeq(AbsLine, 1, Len(AbsLine) - 1)
          BY <2>1, <3>2, <4>4, <5>1
        <5>3. ~ (enter_flag = 1) /\ (enter_flag = 1)' = (enter_flag = 1)
          BY <1>8, <3>1
        <5>4. AbsGiven' = AbsGiven
          BY <1>3 DEF AbsGiven
        <5> QED BY <5>2, <5>3, <5>4, Zenon DEF L!Erase, AbsLine, AbsGiven
      <4> QED BY <4>3, <4>5 DEF Implements, L!Next
    <3>3. CASE ~ (Top > 0)
      BY <1>6, <1>8, <3>1, <3>3 DEF DeleteChar
    <3> QED BY <3>2, <3>3
  <2>4. CASE k = "other"
    BY <1>3, <1>6, <1>8, <2>4 DEF TypeKey
  <2>5. CASE k = "enter"
    <3>1. EnterPress("nl") /\ enter_flag' = 1
      BY <1>3, <1>8, <2>5 DEF TypeKey, Ascii
    <3>2. Add2Buf("nl")
      <4>1. Top = 0 \/ Cell(Top - 1) \notin Eol
        BY <1>2, <1>4, <2>1 DEF LineIs, Eol
      <4> QED BY <3>1, <4>1 DEF EnterPress
    <3>3. LineIs(n)' /\ \A i \in {BufSize - 1} : Cell(i)' = Cell(i)
      <4>1. CASE Top < BufSize - 1
        <5>1. Top' = n + 1 /\ \A i \in Cells : Cell(i)' = IF i = n THEN "nl" ELSE Cell(i)
          BY <1>1, <1>3, <2>1, <3>2, <4>1, Add2BufCells
        <5> QED BY <1>1, <1>2, <1>4, <2>1, <3>1, <4>1, <5>1 DEF LineIs, Cells
      <4>2. CASE ~ (Top < BufSize - 1)
        <5>1. Top' = Top /\ \A i : Cell(i)' = Cell(i)
          BY <1>3, <3>2, <4>2, KeptCells DEF Add2Buf
        <5> QED BY <1>1, <1>2, <1>4, <2>1, <3>1, <4>2, <5>1 DEF LineIs
      <4> QED BY <4>1, <4>2
    <3>4. AbsLine' = AbsLine
      BY <1>1, <2>1, <3>3, AbsLineIsNext
    <3>5. OneTerminal'
      BY <1>3, <3>1, <3>3 DEF OneTerminal
    <3>6. L!Enter
      BY <1>3, <1>8, <3>1, <3>4 DEF L!Enter, AbsLine, AbsGiven
    <3> QED BY <3>5, <3>6 DEF Implements, L!Next
  <2> QED BY <1>3, <2>2, <2>3, <2>4, <2>5
<1> QED BY <1>3, <1>7, <1>8

(* What a read of m characters copies from a line of n that has ended: up   *)
(* to the end of line, wherever that stands.                                *)
LEMMA CopiesLine ==
  ASSUME BuffersOK, NEW n \in Nat, LineIs(n), enter_flag = 1,
         Cell(BufSize - 1) = "cr", NEW m \in 0 .. BufSize
  PROVE  /\ \A i \in 0 .. n - 1 : Cell(i) \notin Eol
         /\ Cell(n) \in Eol
         /\ CopyLength(m) = IF m > n THEN n + 1 ELSE m
<1>1. \A i \in 0 .. n - 1 : Cell(i) = "a" /\ Cell(i) \notin Eol
  BY DEF LineIs, Eol
<1>2. Cell(n) \in Eol
  BY DEF LineIs, Eol
<1>3. CASE m > n
  <2>1. n \in Ends(m) /\ \A j \in Ends(m) : n <= j
    BY <1>1, <1>2, <1>3 DEF Ends
  <2>2. \A i \in Ends(m) : i \in Nat
    BY DEF Ends
  <2> DEFINE e == CHOOSE i \in Ends(m) : \A j \in Ends(m) : i <= j
  <2>3. e \in Ends(m) /\ \A j \in Ends(m) : e <= j
    BY <2>1
  <2>4. CopyLength(m) = 1 + e
    BY <2>1, Zenon DEF CopyLength
  <2> HIDE DEF e
  <2>5. e = n
    BY <2>1, <2>2, <2>3
  <2> QED BY <1>1, <1>2, <1>3, <2>4, <2>5
<1>4. CASE ~ (m > n)
  <2>1. Ends(m) = {}
    BY <1>1, <1>4 DEF Ends
  <2>2. CopyLength(m) = m
    BY <2>1, Zenon DEF CopyLength
  <2> QED BY <1>1, <1>2, <1>4, <2>2
<1> QED BY <1>3, <1>4

LEMMA ReadMarks ==
  ASSUME Inv, Inv', OneTerminal, NEW t \in Term, ReadBegin(t) \/ ReadFail(t)
  PROVE  Implements
<1>0. 0 \in Term
  BY TerminalsAssumption DEF Term
<1>1. BuffersOK /\ BuffersOK' /\ BufSize \in Nat /\ BufSize > 1 /\ 0 \in Term
  BY <1>0, InvParts, BufSizes DEF Inv, TypeOK, BuffersOK
<1>2. /\ MarkEnd /\ UNCHANGED <<screen_buf_top, terminal_num_display>>
      /\ UNCHANGED <<enter_flag, terminal_flags, user_buf>>
      /\ \A s \in Term : reader'[s] # reader[s] => reader'[s] = "wait"
  BY InvParts DEF ReadBegin, ReadFail, RestOK
<1>3. PICK n \in Nat : LineIs(n)
  BY DEF OneTerminal
<1>4. Top' = Top /\ \A i \in Cells : Cell(i)' = IF i = BufSize - 1 THEN "cr" ELSE Cell(i)
  BY <1>1, <1>2, MarkEndCells
<1>5. LineIs(n)' /\ AbsLine' = AbsLine
  <2>1. \A i \in 0 .. BufSize - 2 : Cell(i)' = Cell(i)
    BY <1>1, <1>4 DEF Cells
  <2> QED BY <1>1, <1>2, <1>3, <1>4, <2>1, LineKept
<1>6. Cell(BufSize - 1)' = "cr"
  BY <1>1, <1>4 DEF Cells
<1>7. OneTerminal'
  BY <1>2, <1>5, <1>6 DEF OneTerminal
<1> QED BY <1>2, <1>5, <1>7 DEF Implements

(* Waiting, ticks and all else that touches neither line nor read.          *)
LEMMA OtherImplements ==
  ASSUME Inv, Inv', OneTerminal,
         UNCHANGED <<bufVars, enter_flag, terminal_num_display, user_buf>>,
         terminal_flags' = {},
         \A t \in Term : reader'[t] = reader[t] \/
           (t = 0 /\ reader[0] # "idle" /\ enter_flag = 1)
  PROVE  Implements
<1>0. 0 \in Term
  BY TerminalsAssumption DEF Term
<1>1. BuffersOK /\ BuffersOK' /\ 0 \in Term
  BY <1>0, InvParts DEF Inv, TypeOK, BuffersOK
<1>2. PICK n \in Nat : LineIs(n)
  BY DEF OneTerminal
<1>3. Top' = Top /\ \A i : Cell(i)' = Cell(i)
  BY KeptCells
<1>4. LineIs(n)' /\ AbsLine' = AbsLine
  BY <1>1, <1>2, <1>3, LineKept
<1>5. OneTerminal'
  BY <1>1, <1>3, <1>4 DEF OneTerminal
<1> QED BY <1>4, <1>5 DEF Implements

LEMMA TakeImplements ==
  ASSUME Inv, Inv', OneTerminal, NEW t \in Term, ReadTake(t)
  PROVE  Implements
<1>1. /\ BuffersOK /\ BuffersOK' /\ BufSize \in Nat /\ BufSize > 1
      /\ reader \in [Term -> {"idle", "wait", "take"}]
  BY InvParts, BufSizes DEF Inv, TypeOK, BuffersOK, RestOK
<1>2. /\ t = 0 /\ terminal_num_display = 0 /\ reader[0] = "take"
      /\ enter_flag = 1 /\ Cell(BufSize - 1) = "cr"
  BY DEF OneTerminal, ReadTake, OnCpu
<1>3. PICK n \in Nat : LineIs(n)
  BY DEF OneTerminal
<1>4. PICK m \in Reads : user_buf' = [i \in 1 .. CopyLength(m) |-> Cell(i - 1)]
  BY DEF ReadTake
<1>5. /\ enter_flag' = 0 /\ ClearBuf /\ terminal_num_display' = 0
      /\ terminal_flags' = {} /\ reader' = [reader EXCEPT ![t] = "idle"]
  BY <1>2 DEF ReadTake, OneTerminal
<1>6. Top' = 0
  BY <1>1, <1>2, <1>5 DEF ClearBuf, Top, BuffersOK
<1>7. LineIs(0)'
  BY <1>1, <1>5, <1>6 DEF LineIs
<1>8. OneTerminal'
  <2>1. \A s \in Term : reader'[s] # "take"
    BY <1>1, <1>2, <1>5 DEF OneTerminal
  <2>2. reader'[0] = "idle"
    BY <1>1, <1>2, <1>5
  <2> QED BY <1>5, <1>7, <2>1, <2>2 DEF OneTerminal
<1>9. AbsLine = Ays(n) /\ AbsLine' = <<>>
  <2>1. AbsLine' = Ays(0)
    BY <1>1, <1>7, AbsLineIsNext
  <2>2. Ays(0) = <<>>
    BY DEF Ays
  <2> QED BY <1>1, <1>3, <2>1, <2>2, AbsLineIs
<1>10. m \in 0 .. BufSize
  BY ReadsAssumption
<1> DEFINE len == CopyLength(m)
<1>11. /\ \A i \in 0 .. n - 1 : Cell(i) \notin Eol /\ Cell(i) = "a"
       /\ Cell(n) \in Eol
       /\ len = IF m > n THEN n + 1 ELSE m
  BY <1>1, <1>2, <1>3, <1>10, CopiesLine DEF LineIs
<1> HIDE DEF len
<1>12. AbsGiven' = [i \in 1 .. len |-> IF i = n + 1 THEN "eol" ELSE "a"]
  <2>1. len \in Nat
    BY <1>10, <1>11
  <2>2. user_buf' = [i \in 1 .. len |-> Cell(i - 1)] /\ Len(user_buf') = len
    BY <1>4, <2>1 DEF len
  <2>3. ASSUME NEW i \in 1 .. len
        PROVE  (IF user_buf'[i] \in Eol THEN "eol" ELSE user_buf'[i])
                 = IF i = n + 1 THEN "eol" ELSE "a"
    <3>1. user_buf'[i] = Cell(i - 1) /\ i - 1 \in 0 .. n /\ (i # n + 1 => i - 1 \in 0 .. n - 1)
      BY <1>10, <1>11, <2>2
    <3>2. i = n + 1 => i - 1 = n
      OBVIOUS
    <3> QED BY <1>11, <3>1, <3>2
  <2> QED BY <2>2, <2>3 DEF AbsGiven
<1>13. AbsGiven' = IF m > Len(AbsLine) THEN Append(AbsLine, "eol")
                   ELSE SubSeq(AbsLine, 1, m)
  <2>1. Len(AbsLine) = n
    BY <1>9, AysSeq
  <2>2. CASE m > n
    <3>1. Append(Ays(n), "eol") = [i \in 1 .. n + 1 |-> IF i = n + 1 THEN "eol" ELSE "a"]
      BY AysAppend
    <3> QED BY <1>9, <1>11, <1>12, <2>1, <2>2, <3>1
  <2>3. CASE ~ (m > n)
    <3>1. SubSeq(Ays(n), 1, m) = Ays(m)
      BY <1>10, <2>3, AysPrefix
    <3>2. \A i \in 1 .. m : i # n + 1
      BY <1>10, <2>3
    <3>3. AbsGiven' = Ays(m)
      BY <1>11, <1>12, <2>3, <3>2 DEF Ays
    <3> QED BY <1>9, <2>1, <2>3, <3>1, <3>3
  <2> QED BY <2>2, <2>3
<1>14. L!Read
  <2>1. (enter_flag = 1) /\ (enter_flag = 1)' = FALSE
    BY <1>2, <1>5
  <2> QED BY <1>9, <1>13, <2>1 DEF L!Read, AbsLine, AbsGiven
<1> QED BY <1>8, <1>14 DEF Implements, L!Next

LEMMA NextImplements ==
  ASSUME NoSwaps, Inv, Inv', OneTerminal, [Next]_vars
  PROVE  Implements
<1>1. /\ terminal_flags = {} /\ terminal_num_display = 0
      /\ \A t \in Term : reader[t] \in {"idle", "wait", "take"}
  BY InvParts DEF OneTerminal, RestOK
<1>2. CASE Key
  <2>1. PICK k \in Keys : TypeKey(k)
    BY <1>1, <1>2 DEF NoSwaps, Key, CtrlL, AltF, KeyInSwap, SwapKey
  <2> QED BY <2>1, KeyImplements
<1>3. CASE ResetFlag \/ Tick \/ UNCHANGED vars
  <2>1. UNCHANGED <<bufVars, enter_flag, terminal_num_display, user_buf>>
    BY <1>3 DEF ResetFlag, Tick, vars, bufVars
  <2>2. terminal_flags' = {} /\ reader' = reader
    BY <1>1, <1>3 DEF ResetFlag, Tick, vars
  <2> QED BY <2>1, <2>2, OtherImplements
<1>4. ASSUME NEW t \in Term, Read(t) PROVE Implements
  <2>1. CASE ReadBegin(t) \/ ReadFail(t)
    BY <2>1, ReadMarks
  <2>2. CASE ReadWake(t)
    <3>1. /\ t = 0 /\ enter_flag = 1 /\ reader[0] = "wait"
          /\ reader' = [reader EXCEPT ![t] = "take"]
          /\ UNCHANGED <<bufVars, enter_flag, terminal_num_display, user_buf>>
          /\ terminal_flags' = {}
      BY <1>1, <2>2 DEF ReadWake, OnCpu
    <3>2. \A s \in Term : reader'[s] = reader[s] \/ s = 0
      BY <3>1, InvParts DEF RestOK
    <3> QED BY <3>1, <3>2, OtherImplements
  <2>3. CASE ReadTake(t)
    BY <2>3, TakeImplements
  <2> QED BY <1>4, <2>1, <2>2, <2>3 DEF Read
<1> QED BY <1>2, <1>3, <1>4 DEF Next

LEMMA InitOneTerminal == Init => OneTerminal
<1> SUFFICES ASSUME Init PROVE OneTerminal
  OBVIOUS
<1>1. 0 \in Term
  BY TerminalsAssumption DEF Term
<1>2. LineIs(0)
  BY <1>1, BufSizes DEF Init, LineIs, Top
<1> QED BY <1>1, <1>2 DEF Init, OneTerminal

(* A read that delivers has an Enter pending for its own terminal, with no  *)
(* swap between its wait and its cli().                                     *)
THEOREM ReadsOwn ==
  ASSUME NoSwaps
  PROVE  Spec => ReadsOwnLine
<1>1. Inv /\ [Next]_vars => Inv'
  BY NextStep, StepKeepsInv
<1>2. Inv /\ Inv' /\ OneTerminal /\ [Next]_vars => OneTerminal'
  BY NextImplements DEF Implements
<1>3. Inv /\ OneTerminal /\ [Next]_vars =>
        [\A t \in Term : reader[t] = "take" /\ reader'[t] = "idle"
           => terminal_num_display = t /\ enter_flag = 1]_vars
  BY DEF OneTerminal
<1> QED
  BY <1>1, <1>2, <1>3, InitInv, InitOneTerminal, PTL DEF Spec, ReadsOwnLine

(* With no swap of terminals and no Ctrl-L, line input is Lines: whatever   *)
(* keys come while an Enter is pending and wherever the tick cuts a read,   *)
(* each read delivers what was typed since the last one, with its end.      *)
THEOREM LineInputImplementsLines ==
  ASSUME NoSwaps
  PROVE  Spec => ImplementsLines
<1>1. Inv /\ [Next]_vars => Inv'
  BY NextStep, StepKeepsInv
<1>2. Inv /\ Inv' /\ OneTerminal /\ [Next]_vars => OneTerminal'
  BY NextImplements DEF Implements
<1>3. Inv /\ Inv' /\ OneTerminal /\ [Next]_vars =>
        [L!Next]_<<[i \in 1 .. TypedLength |-> Cell(i - 1)], enter_flag = 1,
                   [i \in 1 .. Len(user_buf) |->
                     IF user_buf[i] \in Eol THEN "eol" ELSE user_buf[i]]>>
  <2>1. SUFFICES ASSUME Inv, Inv', OneTerminal, [Next]_vars
                 PROVE  L!Next \/ UNCHANGED <<AbsLine, enter_flag = 1, AbsGiven>>
    BY DEF AbsLine, AbsGiven
  <2>2. CASE L!Next
    BY <2>2
  <2>3. CASE UNCHANGED <<AbsLine, enter_flag, user_buf>>
    BY <2>3 DEF AbsGiven
  <2> QED BY <2>1, <2>2, <2>3, NextImplements DEF Implements
<1>4. Init => L!Init
  BY TerminalsAssumption DEF Init, L!Init, TypedLength, Top, Cell, Term
<1> QED
  BY <1>1, <1>2, <1>3, <1>4, InitInv, InitOneTerminal, PTL
     DEF Spec, ImplementsLines, L!Spec
=============================================================================
