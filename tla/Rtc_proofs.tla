---------------------------- MODULE Rtc_proofs -----------------------------
(***************************************************************************)
(* What the RTC driver keeps however its calls and handlers interleave,    *)
(* for any number of processes; and what more it keeps if other processes, *)
(* or the handler too, stay out from between an index and its write.       *)
(***************************************************************************)
EXTENDS Rtc, SequenceTheorems, TLAPS

(* The line of the RTC is never left up without a handler to come: an       *)
(* interrupt that a process steals by reading C from the data port only     *)
(* takes its flag down early.                                               *)
THEOREM RtcLineServed == Spec => []LineServed
<1>1. Init => LineServed
  BY DEF Init, LineServed
<1>2. LineServed /\ [Next]_vars => LineServed'
  <2>1. SUFFICES ASSUME LineServed, [Next]_vars PROVE LineServed'
    OBVIOUS
  <2>2. ASSUME NEW p \in Procs, RtcOpen(p) \/ RtcWrite(p) \/ RtcRead(p)
        PROVE LineServed'
    BY <2>1, <2>2 DEF RtcOpen, RtcWrite, RtcRead, chip, LineServed
  <2>3. ASSUME NEW p \in Procs, Access(p) PROVE LineServed'
    <3>1. (periodic' => periodic) /\ requested' = requested /\ interrupted' = interrupted
      <4>1. CASE SetIndex(p)
        <5>1. UNCHANGED <<periodic, requested, interrupted>>
          BY <4>1 DEF SetIndex
        <5> QED BY <5>1
      <4>2. CASE ReadData(p)
        BY <4>2, Zenon DEF ReadData
      <4>4. CASE WritePie(p)
        BY <4>4, Zenon DEF WritePie
      <4>5. CASE WriteRate(p)
        BY <4>5, Zenon DEF WriteRate
      <4>3. CASE ClearSignal(p) \/ Wait(p) \/ Take(p)
        BY <4>3 DEF ClearSignal, Wait, Take, chip
      <4> QED BY <2>3, <4>1, <4>2, <4>3, <4>4, <4>5 DEF Access
    <3> QED BY <2>1, <3>1 DEF LineServed
  <2>4. ASSUME NEW p \in Procs, Interrupt(p) PROVE LineServed'
    <3>1. interrupted' # None
      BY <2>4, NoneAssumption DEF Interrupt
    <3> QED BY <3>1 DEF LineServed
  <2>5. CASE Period
    BY <2>5 DEF Period, LineServed
  <2>6. CASE Handler
    BY <2>6 DEF Handler, LineServed
  <2>7. CASE UNCHANGED vars
    BY <2>1, <2>7 DEF vars, LineServed
  <2> QED BY <2>1, <2>2, <2>3, <2>4, <2>5, <2>6, <2>7 DEF Next
<1> QED BY <1>1, <1>2, PTL DEF Spec

-----------------------------------------------------------------------------
(* rtc_read.  Its store comes only after its busy wait (TakeAfterWait), and *)
(* a signal that is set has been so since every process last cleared it.    *)
Ops == {"index_A", "index_B", "read", "write_pie", "write_rate", "clear", "wait", "take"}
TakeAfterWait(s) == \A i \in 2 .. Len(s) : s[i] = "take" => s[i - 1] = "wait"

Waits ==
  /\ todo \in [Procs -> Seq(Ops)] /\ ticked \in [Procs -> BOOLEAN]
  /\ \A p \in Procs : TakeAfterWait(todo[p])
  /\ \A p \in Procs : todo[p] # <<>> /\ todo[p][1] = "take" => ticked[p]
  /\ rtc_signal = 1 => \A p \in Procs : ticked[p]

LEMMA NoTake ==
  ASSUME NEW S, "take" \notin S, NEW s \in Seq(S)
  PROVE  \A i \in 1 .. Len(s) : s[i] # "take"
<1>1. \A i \in 1 .. Len(s) : s[i] \in S
  OBVIOUS
<1> QED BY <1>1

LEMMA CodeShape ==
  \A code \in {OpenCode, WriteCode, ReadCode} :
    code \in Seq(Ops) /\ code # <<>> /\ code[1] # "take" /\ TakeAfterWait(code)
<1> DEFINE Others == Ops \ {"take"}
<1>1. OpenCode \in Seq(Ops) /\ OpenCode[1] # "take" /\ TakeAfterWait(OpenCode)
  <2>1. OpenCode \in Seq(Ops) /\ OpenCode \in Seq(Others) /\ Len(OpenCode) = 9
    BY DEF OpenCode, Ops
  <2>2. "take" \notin Others
    OBVIOUS
  <2> HIDE DEF Others
  <2>3. \A i \in 1 .. 9 : OpenCode[i] # "take"
    BY <2>1, <2>2, NoTake
  <2>4. OpenCode[1] # "take"
    BY <2>3
  <2> QED BY <2>1, <2>3, <2>4 DEF TakeAfterWait
<1>2. WriteCode \in Seq(Ops) /\ WriteCode[1] # "take" /\ TakeAfterWait(WriteCode)
  <2>1. WriteCode \in Seq(Ops) /\ WriteCode \in Seq(Others) /\ Len(WriteCode) = 4
    BY DEF WriteCode, Ops
  <2>2. "take" \notin Others
    OBVIOUS
  <2> HIDE DEF Others
  <2>3. \A i \in 1 .. 4 : WriteCode[i] # "take"
    BY <2>1, <2>2, NoTake
  <2>4. WriteCode[1] # "take"
    BY <2>3
  <2> QED BY <2>1, <2>3, <2>4 DEF TakeAfterWait
<1>3. ReadCode \in Seq(Ops) /\ ReadCode[1] # "take" /\ TakeAfterWait(ReadCode)
  <2>1. ReadCode \in Seq(Ops) /\ Len(ReadCode) = 2
    BY DEF ReadCode, Ops
  <2>2. ReadCode[1] = "wait"
    BY DEF ReadCode
  <2>3. \A i \in 2 .. 2 : i - 1 = 1
    OBVIOUS
  <2> QED BY <2>1, <2>2, <2>3 DEF TakeAfterWait
<1>4. OpenCode # <<>> /\ WriteCode # <<>> /\ ReadCode # <<>>
  BY DEF OpenCode, WriteCode, ReadCode
<1> QED BY <1>1, <1>2, <1>3, <1>4

(* An access takes the first of a sequence away; a store comes first only   *)
(* after a wait.                                                            *)
LEMMA DoesShape ==
  ASSUME Waits, NEW p \in Procs, NEW what \in Ops, Does(p, what)
  PROVE  /\ todo' \in [Procs -> Seq(Ops)]
         /\ \A r \in Procs : TakeAfterWait(todo'[r])
         /\ \A r \in Procs : r # p => todo'[r] = todo[r]
         /\ todo'[p] # <<>> /\ todo'[p][1] = "take" => what = "wait"
         /\ todo[p] # <<>> /\ todo[p][1] = what
<1> DEFINE s == todo[p]
           t == Tail(s)
<1>1. s \in Seq(Ops) /\ s # <<>> /\ s[1] = what /\ TakeAfterWait(s)
  BY DEF Waits, Does
<1>2. todo' = [todo EXCEPT ![p] = t]
  BY DEF Does
<1> HIDE DEF s
<1>3. t \in Seq(Ops) /\ Len(t) = Len(s) - 1 /\ Len(s) \in Nat /\ Len(s) > 0
  BY <1>1
<1>4. \A i \in 1 .. Len(t) : t[i] = s[i + 1]
  BY <1>1
<1> HIDE DEF t
<1>5. TakeAfterWait(t)
  <2>1. SUFFICES ASSUME NEW i \in 2 .. Len(t), t[i] = "take" PROVE t[i - 1] = "wait"
    BY DEF TakeAfterWait
  <2>2. t[i] = s[i + 1] /\ t[i - 1] = s[i]
    BY <1>3, <1>4
  <2>3. i + 1 \in 2 .. Len(s) /\ (i + 1) - 1 = i
    BY <1>3
  <2> QED BY <1>1, <2>1, <2>2, <2>3 DEF TakeAfterWait
<1>6. t # <<>> /\ t[1] = "take" => what = "wait"
  <2>1. SUFFICES ASSUME t # <<>>, t[1] = "take" PROVE what = "wait"
    OBVIOUS
  <2>2. Len(t) > 0
    BY <1>3, <2>1
  <2>3. t[1] = s[2] /\ 2 \in 2 .. Len(s) /\ 2 - 1 = 1
    BY <1>3, <1>4, <2>2
  <2> QED BY <1>1, <2>1, <2>3 DEF TakeAfterWait
<1>7. \A r \in Procs : todo'[r] = IF r = p THEN t ELSE todo[r]
  BY <1>2 DEF Waits
<1>8. todo' \in [Procs -> Seq(Ops)]
  BY <1>2, <1>3 DEF Waits
<1>9. \A r \in Procs : TakeAfterWait(todo'[r])
  BY <1>5, <1>7 DEF Waits
<1> QED BY <1>1, <1>6, <1>7, <1>8, <1>9 DEF s

LEMMA WaitsPrime ==
  ASSUME todo' \in [Procs -> Seq(Ops)], ticked' \in [Procs -> BOOLEAN],
         \A r \in Procs : TakeAfterWait(todo'[r]),
         \A r \in Procs : todo'[r] # <<>> /\ todo'[r][1] = "take" => ticked'[r],
         rtc_signal' = 1 => \A r \in Procs : ticked'[r]
  PROVE  Waits'
  BY DEF Waits, TakeAfterWait

LEMMA BeginWaits ==
  ASSUME Waits, NEW p \in Procs, NEW code \in {OpenCode, WriteCode, ReadCode},
         Begin(p, code), UNCHANGED <<rtc_signal, ticked>>
  PROVE  Waits'
<1>1. todo' = [todo EXCEPT ![p] = code]
  BY DEF Begin
<1>2. code \in Seq(Ops) /\ code[1] # "take" /\ TakeAfterWait(code)
  BY CodeShape
<1>3. \A r \in Procs : todo'[r] = IF r = p THEN code ELSE todo[r]
  BY <1>1 DEF Waits
<1>4. todo' \in [Procs -> Seq(Ops)]
  BY <1>1, <1>2 DEF Waits
<1>5. \A r \in Procs : TakeAfterWait(todo'[r])
  BY <1>2, <1>3 DEF Waits
<1>6. \A r \in Procs : todo'[r] # <<>> /\ todo'[r][1] = "take" => ticked[r]
  BY <1>2, <1>3 DEF Waits
<1>7. ticked' = ticked /\ rtc_signal' = rtc_signal
  OBVIOUS
<1> QED BY <1>4, <1>5, <1>6, <1>7, WaitsPrime DEF Waits

LEMMA AccessWaits ==
  ASSUME Waits, NEW p \in Procs, Access(p)
  PROVE  Waits'
<1>0. {"index_A", "index_B", "read", "write_pie", "write_rate", "clear", "take"}
        \subseteq Ops \ {"wait"} /\ "wait" \in Ops
  BY DEF Ops
<1>1. ASSUME NEW what \in Ops, what # "wait", Does(p, what),
             UNCHANGED <<rtc_signal, ticked>>
      PROVE  Waits'
  <2>1. /\ todo' \in [Procs -> Seq(Ops)]
        /\ \A r \in Procs : TakeAfterWait(todo'[r])
        /\ \A r \in Procs : r # p => todo'[r] = todo[r]
        /\ todo'[p] # <<>> => todo'[p][1] # "take"
    BY <1>1, DoesShape
  <2> QED BY <1>1, <2>1, WaitsPrime DEF Waits
<1>2. ASSUME NEW what \in Ops, what # "wait", Does(p, what),
             rtc_signal' = 0, ticked' = [ticked EXCEPT ![p] = FALSE]
      PROVE  Waits'
  <2>1. ticked' \in [Procs -> BOOLEAN] /\ \A r \in Procs : r # p => ticked'[r] = ticked[r]
    BY <1>2 DEF Waits
  <2> QED BY <1>2, <2>1, DoesShape DEF Waits, TakeAfterWait
<1>3. CASE Wait(p)
  <2>1. Does(p, "wait") /\ rtc_signal = 1 /\ UNCHANGED <<rtc_signal, ticked>>
    BY <1>3 DEF Wait
  <2> QED BY <1>0, <2>1, DoesShape DEF Waits, TakeAfterWait
<1>4. CASE ClearSignal(p)
  <2>1. Does(p, "clear") /\ rtc_signal' = 0 /\ ticked' = [ticked EXCEPT ![p] = FALSE]
    BY <1>4 DEF ClearSignal
  <2> QED BY <1>0, <1>2, <2>1
<1>5. CASE Take(p)
  <2>1. Does(p, "take") /\ rtc_signal' = 0 /\ ticked' = [ticked EXCEPT ![p] = FALSE]
    BY <1>5 DEF Take
  <2> QED BY <1>0, <1>2, <2>1
<1>6. CASE SetIndex(p)
  <2>1. Does(p, "index_A") \/ Does(p, "index_B")
    BY <1>6 DEF SetIndex
  <2>2. UNCHANGED <<rtc_signal, ticked>>
    BY <1>6 DEF SetIndex
  <2> QED BY <1>0, <1>1, <2>1, <2>2
<1>7. CASE ReadData(p) \/ WritePie(p) \/ WriteRate(p)
  <2>1. Does(p, "read") \/ Does(p, "write_pie") \/ Does(p, "write_rate")
    BY <1>7 DEF ReadData, WritePie, WriteRate
  <2>2. UNCHANGED <<rtc_signal, ticked>>
    BY <1>7 DEF ReadData, WritePie, WriteRate
  <2> QED BY <1>0, <1>1, <2>1, <2>2
<1> QED BY <1>3, <1>4, <1>5, <1>6, <1>7 DEF Access

LEMMA NextWaits == Waits /\ [Next]_vars => Waits'
<1>1. SUFFICES ASSUME Waits, [Next]_vars PROVE Waits'
  OBVIOUS
<1>2. ASSUME NEW p \in Procs, RtcOpen(p) \/ RtcWrite(p) \/ RtcRead(p) PROVE Waits'
  BY <1>1, <1>2, BeginWaits DEF RtcOpen, RtcWrite, RtcRead
<1>3. ASSUME NEW p \in Procs, Access(p) PROVE Waits'
  BY <1>1, <1>3, AccessWaits
<1>4. ASSUME UNCHANGED <<todo, rtc_signal, ticked>> PROVE Waits'
  BY <1>1, <1>4 DEF Waits, TakeAfterWait
<1>5. CASE Handler
  <2>1. todo' = todo /\ ticked' = [p \in Procs |-> TRUE]
    BY <1>5 DEF Handler
  <2> QED BY <1>1, <2>1 DEF Waits, TakeAfterWait
<1>6. ASSUME NEW p \in Procs, Interrupt(p) PROVE Waits'
  BY <1>4, <1>6 DEF Interrupt
<1>7. CASE Period
  BY <1>4, <1>7 DEF Period
<1>8. CASE UNCHANGED vars
  BY <1>4, <1>8 DEF vars
<1> QED BY <1>1, <1>2, <1>3, <1>5, <1>6, <1>7, <1>8 DEF Next

(* No rtc_read returns without an interrupt since its process last cleared  *)
(* the signal, whatever the other processes do to it.                       *)
THEOREM RtcReadWaits == Spec => ReadWaits
<1>1. Init => Waits
  BY DEF Init, Waits, TakeAfterWait
<1>2. Waits /\ [Next]_vars => Waits'
  BY NextWaits
<1>3. Waits /\ [Next]_vars => [\A p \in Procs : Take(p) => ticked[p]]_vars
  <2>1. SUFFICES ASSUME Waits, NEW p \in Procs, Take(p) PROVE ticked[p]
    OBVIOUS
  <2>2. Does(p, "take")
    BY <2>1 DEF Take
  <2>3. "take" \in Ops
    BY DEF Ops
  <2>4. todo[p] # <<>> /\ todo[p][1] = "take"
    BY <2>1, <2>2, <2>3, DoesShape
  <2> QED BY <2>1, <2>4 DEF Waits
<1> QED BY <1>1, <1>2, <1>3, PTL DEF Spec, ReadWaits

-----------------------------------------------------------------------------
(* The driver's calls, with handlers between any two accesses and other     *)
(* processes between all but an index and its write.  A handler leaves the  *)
(* index at C, so a write that it cuts goes nowhere; what reaches A or B is *)
(* what was meant for it (Ready).                                           *)
Ready(s) ==
  \A i \in 2 .. Len(s) : /\ s[i] = "write_pie" => s[i - 1] = "index_B"
                         /\ s[i] = "write_rate" => s[i - 1] = "index_A"
                         /\ \A j \in 1 .. i - 1 : ~(s[i] = "write_rate" /\ s[j] = "write_rate")
Rated(s) == \E i \in 1 .. Len(s) : s[i] = "write_rate"

Codes == {OpenCode, WriteCode, ReadCode}

DriverOK(p) ==
  /\ \E code \in Codes : IsTail(code, todo[p])
  /\ Ready(todo[p])
  /\ todo[p] # <<>> => /\ todo[p][1] = "write_pie" => index # "A"
                       /\ todo[p][1] = "write_rate" => index # "B"
  /\ Rated(todo[p]) => rate[p] \in 3 .. 15

Locals ==
  /\ todo \in [Procs -> Seq(Ops)]
  /\ prev \in [Procs -> 0 .. 127] /\ rate \in [Procs -> 0 .. 15]
  /\ ticked \in [Procs -> BOOLEAN]
  /\ interrupted \in Procs \cup {None} /\ rtc_signal \in {0, 1}

Chip ==
  /\ index \in {"A", "B", "C"} /\ reg \in [{"A", "B"} -> 0 .. 127]
  /\ periodic \in BOOLEAN /\ requested \in BOOLEAN
  /\ reg.A % 16 \in 3 .. 15 /\ Bit6(reg.B) = 1

DInv == Locals /\ Chip /\ \A p \in Procs : DriverOK(p)

LEMMA DInvIsInv == DInv => Inv /\ RateLegal
  BY DEF DInv, Locals, Chip, DriverOK, Codes, Inv, TypeOK, InterruptsOn, RateLegal,
         INIT_BASERATE

LEMMA Tails ==
  ASSUME NEW code \in Seq(Ops), NEW s, IsTail(code, s), s # <<>>
  PROVE  IsTail(code, Tail(s))
<1>1. PICK i \in 0 .. Len(code) : s = SubSeq(code, i + 1, Len(code))
  BY DEF IsTail
<1> DEFINE n == Len(code)
<1>2. n \in Nat
  OBVIOUS
<1>3. i < n
  <2>1. SUFFICES ASSUME ~(i < n) PROVE FALSE
    OBVIOUS
  <2>2. i = n
    BY <1>2, <2>1
  <2>3. SubSeq(code, n + 1, n) = <<>>
    BY <1>2
  <2> QED BY <1>1, <2>2, <2>3
<1>4. i + 1 \in 0 .. n
  BY <1>2, <1>3
<1>5. Tail(s) = SubSeq(code, (i + 1) + 1, n)
  <2>1. s = SubSeq(code, i + 1, n) /\ s \in Seq(Ops) /\ Len(s) = n - i
    BY <1>1, <1>2, <1>3
  <2>2. \A j \in 1 .. Len(s) : s[j] = code[i + j]
    BY <1>1, <1>2, <1>3
  <2>3. Tail(s) \in Seq(Ops) /\ Len(Tail(s)) = Len(s) - 1
    BY <2>1
  <2>4. \A j \in 1 .. Len(Tail(s)) : Tail(s)[j] = s[j + 1]
    BY <2>1
  <2> DEFINE r == SubSeq(code, (i + 1) + 1, n)
  <2>5. r \in Seq(Ops) /\ Len(r) = n - (i + 1)
    BY <1>2, <1>3
  <2>6. \A j \in 1 .. Len(r) : r[j] = code[i + 1 + j]
    BY <1>2, <1>3
  <2> HIDE DEF r
  <2>7. Len(Tail(s)) = Len(r)
    BY <1>2, <1>3, <2>1, <2>3, <2>5
  <2>8. \A j \in 1 .. Len(r) : Tail(s)[j] = r[j]
    <3>1. TAKE j \in 1 .. Len(r)
    <3>2. j + 1 \in 1 .. Len(s) /\ j \in 1 .. Len(Tail(s)) /\ i + (j + 1) = i + 1 + j
      BY <1>2, <1>3, <2>1, <2>3, <2>5
    <3>3. Tail(s)[j] = s[j + 1] /\ s[j + 1] = code[i + (j + 1)] /\ r[j] = code[i + 1 + j]
      BY <2>2, <2>4, <2>6, <3>2
    <3> QED BY <3>2, <3>3
  <2>9. Tail(s) = r
    BY <2>3, <2>5, <2>7, <2>8, SeqEqual
  <2> QED BY <2>9 DEF r
<1> QED BY <1>4, <1>5 DEF IsTail

LEMMA CodesReady ==
  \A code \in Codes : /\ code \in Seq(Ops) /\ code # <<>> /\ Ready(code)
                      /\ code[1] \notin {"write_pie", "write_rate"}
<1>1. Ready(OpenCode) /\ OpenCode[1] \notin {"write_pie", "write_rate"}
  <2>1. /\ Len(OpenCode) = 9
        /\ OpenCode[1] = "index_A" /\ OpenCode[2] = "read" /\ OpenCode[3] = "index_B"
        /\ OpenCode[4] = "write_pie" /\ OpenCode[5] = "index_A" /\ OpenCode[6] = "read"
        /\ OpenCode[7] = "index_A" /\ OpenCode[8] = "write_rate" /\ OpenCode[9] = "clear"
    BY DEF OpenCode
  <2>0. \A i \in 1 .. 9 : i \in {1, 2, 3, 4, 5, 6, 7, 8, 9}
    OBVIOUS
  <2>2. \A i \in 2 .. 9 : OpenCode[i] = "write_pie" => i - 1 = 3
    BY <2>0, <2>1
  <2>3. \A i \in 1 .. 9 : OpenCode[i] = "write_rate" => i = 8
    BY <2>0, <2>1
  <2>4. \A i \in 2 .. 9 : OpenCode[i] = "write_rate" => i - 1 = 7
    BY <2>3
  <2>5. \A i \in 2 .. 9 : \A j \in 1 .. i - 1 :
          ~(OpenCode[i] = "write_rate" /\ OpenCode[j] = "write_rate")
    BY <2>3
  <2> QED BY <2>1, <2>2, <2>4, <2>5 DEF Ready
<1>2. Ready(WriteCode) /\ WriteCode[1] \notin {"write_pie", "write_rate"}
  <2>1. /\ Len(WriteCode) = 4
        /\ WriteCode[1] = "index_A" /\ WriteCode[2] = "read" /\ WriteCode[3] = "index_A"
        /\ WriteCode[4] = "write_rate"
    BY DEF WriteCode
  <2>2. \A i \in 2 .. 4 : WriteCode[i] # "write_pie"
    BY <2>1
  <2>3. \A i \in 1 .. 4 : WriteCode[i] = "write_rate" => i = 4
    BY <2>1
  <2>4. \A i \in 2 .. 4 : WriteCode[i] = "write_rate" => i - 1 = 3
    BY <2>3
  <2>5. \A i \in 2 .. 4 : \A j \in 1 .. i - 1 :
          ~(WriteCode[i] = "write_rate" /\ WriteCode[j] = "write_rate")
    BY <2>3
  <2> QED BY <2>1, <2>2, <2>4, <2>5 DEF Ready
<1>3. Ready(ReadCode) /\ ReadCode[1] \notin {"write_pie", "write_rate"}
  <2>1. Len(ReadCode) = 2 /\ ReadCode[1] = "wait" /\ ReadCode[2] = "take"
    BY DEF ReadCode
  <2>2. \A i \in 1 .. 2 : ReadCode[i] \notin {"write_pie", "write_rate"}
    BY <2>1
  <2>3. \A i \in 2 .. 2 : i \in 1 .. 2
    OBVIOUS
  <2> QED BY <2>1, <2>2, <2>3 DEF Ready
<1> QED BY <1>1, <1>2, <1>3, CodeShape DEF Codes

(* An access takes the first of a sequence away.                            *)
LEMMA DoesStep ==
  ASSUME DInv, NEW p \in Procs, NEW what \in Ops, Does(p, what)
  PROVE  /\ todo' \in [Procs -> Seq(Ops)]
         /\ \E code \in Codes : IsTail(code, todo'[p])
         /\ Ready(todo'[p])
         /\ todo'[p] # <<>> => /\ todo'[p][1] = "write_pie" => what = "index_B"
                               /\ todo'[p][1] = "write_rate" => what = "index_A"
         /\ Rated(todo'[p]) => Rated(todo[p]) /\ what # "write_rate"
         /\ todo[p] # <<>> /\ todo[p][1] = what
<1> DEFINE s == todo[p]
           t == Tail(s)
<1>1. s \in Seq(Ops) /\ s # <<>> /\ s[1] = what /\ Ready(s)
  BY DEF DInv, Locals, DriverOK, Does
<1>2. todo' = [todo EXCEPT ![p] = t]
  BY DEF Does
<1>3. PICK code \in Codes : IsTail(code, s)
  BY DEF DInv, DriverOK
<1> HIDE DEF s
<1>4. t \in Seq(Ops) /\ Len(t) = Len(s) - 1 /\ Len(s) \in Nat /\ Len(s) > 0
  BY <1>1
<1>5. \A i \in 1 .. Len(t) : t[i] = s[i + 1]
  BY <1>1
<1>6. IsTail(code, t)
  BY <1>1, <1>3, Tails, CodesReady
<1> HIDE DEF t
<1>7. \A i \in 1 .. Len(t) : i + 1 \in 2 .. Len(s) /\ (i + 1) - 1 = i
  BY <1>4
<1>8. Ready(t)
  <2>1. SUFFICES ASSUME NEW i \in 2 .. Len(t)
        PROVE  /\ t[i] = "write_pie" => t[i - 1] = "index_B"
               /\ t[i] = "write_rate" => t[i - 1] = "index_A"
               /\ \A j \in 1 .. i - 1 : ~(t[i] = "write_rate" /\ t[j] = "write_rate")
    BY DEF Ready
  <2>2. t[i] = s[i + 1] /\ t[i - 1] = s[i] /\ i + 1 \in 2 .. Len(s) /\ (i + 1) - 1 = i
    BY <1>4, <1>5
  <2>3. \A j \in 1 .. i - 1 : t[j] = s[j + 1] /\ j + 1 \in 1 .. i
    BY <1>4, <1>5
  <2> QED BY <1>1, <2>2, <2>3 DEF Ready
<1>9. t # <<>> => /\ t[1] = "write_pie" => what = "index_B"
                  /\ t[1] = "write_rate" => what = "index_A"
  <2>1. SUFFICES ASSUME t # <<>>
                 PROVE  /\ t[1] = "write_pie" => what = "index_B"
                        /\ t[1] = "write_rate" => what = "index_A"
    OBVIOUS
  <2>2. t[1] = s[2] /\ 2 \in 2 .. Len(s) /\ 2 - 1 = 1
    BY <1>4, <1>5, <2>1
  <2> QED BY <1>1, <2>2 DEF Ready
<1>10. Rated(t) => Rated(s) /\ what # "write_rate"
  <2>1. SUFFICES ASSUME NEW i \in 1 .. Len(t), t[i] = "write_rate"
                 PROVE  Rated(s) /\ what # "write_rate"
    BY DEF Rated
  <2>2. s[i + 1] = "write_rate" /\ i + 1 \in 2 .. Len(s) /\ 1 \in 1 .. (i + 1) - 1
    BY <1>4, <1>5, <2>1
  <2>3. i + 1 \in 1 .. Len(s)
    BY <2>2
  <2> QED BY <1>1, <2>2, <2>3 DEF Ready, Rated
<1>11. todo'[p] = t /\ todo' \in [Procs -> Seq(Ops)]
  BY <1>2, <1>4 DEF DInv, Locals
<1> QED BY <1>1, <1>6, <1>8, <1>9, <1>10, <1>11 DEF s

(* No process gets in with its index between that of another and the write  *)
(* it is for, as if the two accesses could not be cut by a tick.            *)
AtWrite(p) == todo[p] # <<>> /\ todo[p][1] \in {"write_pie", "write_rate"}
Apart == \A p, q \in Procs : AtWrite(p) /\ q # p => ~ SetIndex(q)
PortsKept == [][Apart]_vars

(* What a step of p leaves to the other processes.                          *)
Leaves(p) ==
  \A q \in Procs \ {p} : rate'[q] = rate[q] /\ (index' = index \/ ~ AtWrite(q))

LEMMA OthersOK ==
  ASSUME NEW q \in Procs, DriverOK(q), todo'[q] = todo[q], rate'[q] = rate[q],
         index' = index \/ ~ AtWrite(q)
  PROVE  DriverOK(q)'
  BY DEF DriverOK, AtWrite, IsTail, Ready, Rated, Codes, OpenCode, WriteCode, ReadCode

(* The drivers' part of a step.                                             *)
LEMMA DriverAfter ==
  ASSUME DInv, NEW p \in Procs, NEW what \in Ops, Does(p, what), Leaves(p),
         what = "index_B" => index' # "A", what = "index_A" => index' # "B",
         rate'[p] = rate[p] \/ what = "write_rate"
  PROVE  \A q \in Procs : DriverOK(q)'
<1>1. /\ \E code \in Codes : IsTail(code, todo'[p])
      /\ Ready(todo'[p])
      /\ todo'[p] # <<>> => /\ todo'[p][1] = "write_pie" => what = "index_B"
                            /\ todo'[p][1] = "write_rate" => what = "index_A"
      /\ Rated(todo'[p]) => Rated(todo[p]) /\ what # "write_rate"
  BY DoesStep
<1>2. Rated(todo[p]) => rate[p] \in 3 .. 15
  BY DEF DInv, DriverOK
<1>3. DriverOK(p)'
  BY <1>1, <1>2 DEF DriverOK, IsTail, Ready, Rated, Codes, OpenCode, WriteCode, ReadCode
<1>4. ASSUME NEW q \in Procs \ {p} PROVE DriverOK(q)'
  <2>1. todo'[q] = todo[q] /\ rate'[q] = rate[q] /\ (index' = index \/ ~ AtWrite(q))
    BY DEF Leaves, Does, DInv, Locals
  <2>2. DriverOK(q)
    BY DEF DInv
  <2> QED BY <2>1, <2>2, OthersOK
<1> QED BY <1>3, <1>4

LEMMA Numbers128 ==
  ASSUME NEW v \in 0 .. 127
  PROVE  /\ Bit6(v) \in {0, 1}
         /\ Bit6(v) # 1 => v + PIE \in 0 .. 127 /\ Bit6(v + PIE) = 1
         /\ \A r \in 0 .. 15 : /\ (v \div 16) * 16 + r \in 0 .. 127
                               /\ ((v \div 16) * 16 + r) % 16 = r
<1>1. v < 64 \/ v >= 64
  OBVIOUS
<1>2. CASE v < 64
  <2>1. v \div 64 = 0 /\ (v + 64) \div 64 = 1
    BY <1>2
  <2> QED BY <1>2, <2>1 DEF Bit6, PIE
<1>3. CASE v >= 64
  <2>1. v \div 64 = 1
    BY <1>3
  <2> QED BY <1>3, <2>1 DEF Bit6, PIE
<1>4. \A r \in 0 .. 15 : /\ (v \div 16) * 16 + r \in 0 .. 127
                         /\ ((v \div 16) * 16 + r) % 16 = r
  OBVIOUS
<1> QED BY <1>1, <1>2, <1>3, <1>4

LEMMA AccessDInv ==
  ASSUME DInv, Apart, NEW p \in Procs, Access(p)
  PROVE  DInv'
<1> USE DEF DInv
<1>0. /\ {"index_A", "index_B", "read", "write_pie", "write_rate", "clear", "wait", "take"}
           \subseteq Ops
      /\ prev[p] \in 0 .. 127 /\ rate[p] \in 0 .. 15
  BY DEF Ops, Locals
<1>a. ASSUME NEW v, rate' = rate \/ rate' = [rate EXCEPT ![p] = v], index' = index
      PROVE  Leaves(p)
  BY <1>a DEF Leaves, Locals
<1>1. ASSUME NEW what \in Ops, Does(p, what), UNCHANGED <<chip, interrupted, prev, rate>>,
             rtc_signal' \in {0, 1}, ticked' \in [Procs -> BOOLEAN],
             what \notin {"index_A", "index_B"}
      PROVE  DInv'
  <2>1. \A q \in Procs : DriverOK(q)'
    <3>1. Leaves(p)
      BY <1>1, <1>a DEF chip
    <3> QED BY <1>1, <3>1, DriverAfter
  <2>2. Locals'
    BY <1>1, DoesStep DEF Locals
  <2>3. Chip'
    BY <1>1 DEF Chip, chip, Bit6
  <2> QED BY <2>1, <2>2, <2>3
<1>2. CASE SetIndex(p)
  <2>1. PICK r \in {"A", "B"} :
          /\ Does(p, IF r = "A" THEN "index_A" ELSE "index_B")
          /\ index' = r
          /\ UNCHANGED <<reg, periodic, requested, interrupted, rtc_signal, prev, rate, ticked>>
    BY <1>2, Zenon DEF SetIndex
  <2> DEFINE what == IF r = "A" THEN "index_A" ELSE "index_B"
  <2>2. what \in Ops /\ (what = "index_B" => index' # "A") /\ (what = "index_A" => index' # "B")
    BY <1>0, <2>1
  <2>3. Does(p, what) /\ rate'[p] = rate[p]
    BY <2>1
  <2> HIDE DEF what
  <2>4. \A q \in Procs : DriverOK(q)'
    <3>1. Leaves(p)
      BY <1>2, <2>1 DEF Leaves, Apart
    <3> QED BY <2>2, <2>3, <3>1, DriverAfter
  <2>5. Locals'
    BY <2>1, <2>2, <2>3, DoesStep DEF Locals
  <2>6. Chip'
    BY <2>1 DEF Chip, Bit6
  <2> QED BY <2>4, <2>5, <2>6
<1>3. CASE ReadData(p)
  <2>1. /\ Does(p, "read")
        /\ prev' = [prev EXCEPT ![p] = IF index = "C" THEN FlagsC ELSE reg[index]]
        /\ periodic' = (periodic /\ index # "C")
        /\ UNCHANGED <<index, reg, requested, interrupted, rtc_signal, rate, ticked>>
    BY <1>3, Zenon DEF ReadData
  <2>2. \A q \in Procs : DriverOK(q)'
    BY <1>0, <1>a, <2>1, DriverAfter
  <2>3. (IF index = "C" THEN FlagsC ELSE reg[index]) \in 0 .. 127
    BY DEF Chip, FlagsC
  <2>4. prev' \in [Procs -> 0 .. 127]
    BY <2>1, <2>3 DEF Locals
  <2>5. Locals'
    BY <1>0, <2>1, <2>4, DoesStep DEF Locals
  <2>6. periodic' \in BOOLEAN
    BY <2>1, Zenon
  <2>7. Chip'
    BY <2>1, <2>6 DEF Chip, Bit6
  <2> QED BY <2>2, <2>5, <2>7
<1>4. CASE WritePie(p)
  <2> DEFINE value == IF Bit6(prev[p]) = 1 THEN prev[p] ELSE prev[p] + PIE
  <2>1. /\ Does(p, "write_pie")
        /\ Write(value)
        /\ prev' = [prev EXCEPT ![p] = 0]
        /\ UNCHANGED <<index, periodic, requested, interrupted, rtc_signal, rate, ticked>>
    BY <1>4, Zenon DEF WritePie
  <2>2. value \in 0 .. 127 /\ Bit6(value) = 1
    BY <1>0, Numbers128
  <2> HIDE DEF value
  <2>3. \A q \in Procs : DriverOK(q)'
    BY <1>0, <1>a, <2>1, DriverAfter
  <2>4. Locals'
    BY <1>0, <2>1, DoesStep DEF Locals
  <2>5. index \in {"B", "C"}
    BY <1>0, <2>1, DoesStep DEF DriverOK, Chip
  <2>6. reg' = reg \/ reg' = [reg EXCEPT !["B"] = value]
    BY <2>1, <2>5 DEF Write
  <2>7. reg' \in [{"A", "B"} -> 0 .. 127] /\ reg'.A = reg.A /\ Bit6(reg'.B) = 1
    BY <2>2, <2>6 DEF Chip
  <2>8. Chip'
    BY <2>1, <2>7 DEF Chip, Bit6
  <2> QED BY <2>3, <2>4, <2>8
<1>5. CASE WriteRate(p)
  <2> DEFINE value == (prev[p] \div 16) * 16 + rate[p]
  <2>1. /\ Does(p, "write_rate")
        /\ Write(value)
        /\ prev' = [prev EXCEPT ![p] = 0] /\ rate' = [rate EXCEPT ![p] = 0]
        /\ UNCHANGED <<index, periodic, requested, interrupted, rtc_signal, ticked>>
    BY <1>5, Zenon DEF WriteRate
  <2>2. todo[p] \in Seq(Ops) /\ todo[p] # <<>> /\ todo[p][1] = "write_rate"
    BY <1>0, <2>1, DoesStep DEF Locals
  <2>3. 1 \in 1 .. Len(todo[p])
    BY <2>2
  <2>4. rate[p] \in 3 .. 15 /\ index \in {"A", "C"}
    BY <2>2, <2>3 DEF DriverOK, Rated, Chip
  <2>5. value \in 0 .. 127 /\ value % 16 \in 3 .. 15
    BY <1>0, <2>4, Numbers128
  <2> HIDE DEF value
  <2>6. \A q \in Procs : DriverOK(q)'
    BY <1>0, <1>a, <2>1, DriverAfter
  <2>7. rate' \in [Procs -> 0 .. 15] /\ prev' \in [Procs -> 0 .. 127]
    <3>1. rate \in [Procs -> 0 .. 15] /\ prev \in [Procs -> 0 .. 127]
      BY DEF Locals
    <3>2. 0 \in 0 .. 15 /\ 0 \in 0 .. 127
      OBVIOUS
    <3>3. rate' \in [Procs -> 0 .. 15]
      BY <2>1, <3>1, <3>2
    <3>4. prev' \in [Procs -> 0 .. 127]
      BY <2>1, <3>1, <3>2
    <3> QED BY <3>3, <3>4
  <2>8. Locals'
    BY <1>0, <2>1, <2>7, DoesStep DEF Locals
  <2>9. reg' = reg \/ reg' = [reg EXCEPT !["A"] = value]
    BY <2>1, <2>4 DEF Write
  <2>10. reg' \in [{"A", "B"} -> 0 .. 127] /\ reg'.A % 16 \in 3 .. 15 /\ reg'.B = reg.B
    BY <2>5, <2>9 DEF Chip
  <2>11. Chip'
    BY <2>1, <2>10 DEF Chip, Bit6
  <2> QED BY <2>6, <2>8, <2>11
<1>6. CASE ClearSignal(p)
  BY <1>0, <1>1, <1>6 DEF ClearSignal, Locals
<1>7. CASE Wait(p)
  BY <1>0, <1>1, <1>7 DEF Wait, Locals
<1>8. CASE Take(p)
  BY <1>0, <1>1, <1>8 DEF Take, Locals
<1> QED BY <1>2, <1>3, <1>4, <1>5, <1>6, <1>7, <1>8 DEF Access

LEMMA BeginDInv ==
  ASSUME DInv, NEW p \in Procs, NEW code \in Codes, Begin(p, code),
         \A q \in Procs \ {p} : rate'[q] = rate[q],
         UNCHANGED <<chip, interrupted, rtc_signal, prev, ticked>>,
         rate' \in [Procs -> 0 .. 15], code = ReadCode \/ rate'[p] \in 3 .. 15
  PROVE  DInv'
<1>1. code \in Seq(Ops) /\ code # <<>> /\ Ready(code)
      /\ code[1] \notin {"write_pie", "write_rate"}
  BY CodesReady
<1>2. todo' = [todo EXCEPT ![p] = code] /\ todo' \in [Procs -> Seq(Ops)] /\ todo'[p] = code
  BY <1>1 DEF Begin, DInv, Locals
<1>3. IsTail(code, code)
  <2>1. code = SubSeq(code, 0 + 1, Len(code)) /\ 0 \in 0 .. Len(code)
    BY <1>1
  <2> QED BY <2>1 DEF IsTail
<1>4. ~Rated(ReadCode)
  <2>1. Len(ReadCode) = 2 /\ ReadCode[1] = "wait" /\ ReadCode[2] = "take"
    BY DEF ReadCode
  <2> QED BY <2>1 DEF Rated
<1>5. DriverOK(p)'
  <2>1. (\E c \in Codes : IsTail(c, todo'[p])) /\ Ready(todo'[p])
    BY <1>1, <1>2, <1>3
  <2>2. todo'[p][1] \notin {"write_pie", "write_rate"}
        /\ (Rated(todo'[p]) => rate'[p] \in 3 .. 15)
    BY <1>1, <1>2, <1>4
  <2> QED BY <2>1, <2>2
     DEF DriverOK, IsTail, Ready, Rated, Codes, OpenCode, WriteCode, ReadCode
<1>6. ASSUME NEW q \in Procs \ {p} PROVE DriverOK(q)'
  BY <1>2, OthersOK DEF DInv, Locals, chip
<1>7. Locals' /\ Chip'
  BY <1>2 DEF DInv, Locals, Chip, chip, Bit6
<1> QED BY <1>5, <1>6, <1>7 DEF DInv

LEMMA NextDInv == DInv /\ [Next]_vars /\ [Apart]_vars => DInv'
<1>1. SUFFICES ASSUME DInv, [Next]_vars, [Apart]_vars PROVE DInv'
  OBVIOUS
<1>2. rate \in [Procs -> 0 .. 15]
  BY <1>1 DEF DInv, Locals
<1>3. ASSUME NEW p \in Procs, RtcOpen(p) PROVE DInv'
  <2>1. Begin(p, OpenCode) /\ rate' = [rate EXCEPT ![p] = 15]
        /\ UNCHANGED <<chip, interrupted, rtc_signal, prev, ticked>>
    BY <1>3 DEF RtcOpen, INIT_BASERATE
  <2>2. 15 \in 3 .. 15 /\ 15 \in 0 .. 15
    OBVIOUS
  <2>3. /\ rate' \in [Procs -> 0 .. 15] /\ rate'[p] \in 3 .. 15
        /\ \A q \in Procs \ {p} : rate'[q] = rate[q]
    BY <1>2, <2>1, <2>2
  <2> QED BY <1>1, <2>1, <2>3, BeginDInv DEF Codes
<1>4. ASSUME NEW p \in Procs, RtcWrite(p) PROVE DInv'
  <2>1. PICK freq \in Freqs, log \in MIN_RATE .. MAX_RATE :
          /\ Begin(p, WriteCode) /\ rate' = [rate EXCEPT ![p] = INIT_BASERATE + 1 - log]
          /\ UNCHANGED <<chip, interrupted, rtc_signal, prev, ticked>>
    BY <1>4, Zenon DEF RtcWrite
  <2>2. INIT_BASERATE + 1 - log \in 3 .. 15 /\ INIT_BASERATE + 1 - log \in 0 .. 15
    BY DEF MIN_RATE, MAX_RATE, INIT_BASERATE
  <2>3. /\ rate' \in [Procs -> 0 .. 15] /\ rate'[p] \in 3 .. 15
        /\ \A q \in Procs \ {p} : rate'[q] = rate[q]
    BY <1>2, <2>1, <2>2
  <2> QED BY <1>1, <2>1, <2>3, BeginDInv DEF Codes
<1>5. ASSUME NEW p \in Procs, RtcRead(p) PROVE DInv'
  BY <1>1, <1>2, <1>5, BeginDInv DEF RtcRead, Codes
<1>6. ASSUME NEW p \in Procs, Access(p), ~ UNCHANGED vars PROVE DInv'
  BY <1>1, <1>6, AccessDInv
<1>7. ASSUME UNCHANGED <<todo, prev, rate>>, Locals', Chip', index' \in {index, "C"}
      PROVE  DInv'
  <2>1. \A p \in Procs : DriverOK(p)'
    BY <1>1, <1>7 DEF DInv, DriverOK, IsTail, Ready, Rated, Codes, OpenCode, WriteCode, ReadCode
  <2> QED BY <1>7, <2>1 DEF DInv
<1>8. Locals /\ Chip
  BY <1>1 DEF DInv
<1>9. ASSUME NEW p \in Procs, Interrupt(p) PROVE DInv'
  <2>1. Locals' /\ Chip' /\ UNCHANGED <<todo, prev, rate, index>>
    BY <1>8, <1>9 DEF Interrupt, Locals, Chip, Bit6
  <2> QED BY <1>7, <2>1
<1>10. CASE Period
  <2>1. Locals' /\ Chip' /\ UNCHANGED <<todo, prev, rate, index>>
    BY <1>8, <1>10 DEF Period, Locals, Chip, Bit6
  <2> QED BY <1>7, <2>1
<1>11. CASE Handler
  <2>1. Locals' /\ Chip' /\ UNCHANGED <<todo, prev, rate>> /\ index' = "C"
    BY <1>8, <1>11 DEF Handler, Locals, Chip, Bit6
  <2> QED BY <1>7, <2>1
<1>12. CASE UNCHANGED vars
  <2>1. Locals' /\ Chip' /\ UNCHANGED <<todo, prev, rate, index>>
    BY <1>8, <1>12 DEF vars, Locals, Chip, Bit6
  <2> QED BY <1>7, <2>1
<1> QED BY <1>1, <1>3, <1>4, <1>5, <1>6, <1>9, <1>10, <1>11, <1>12 DEF Next

LEMMA InitDInv == Init => DInv
<1>1. SUFFICES ASSUME Init PROVE DInv
  OBVIOUS
<1>2. Locals
  BY <1>1 DEF Init, Locals
<1>3. Chip
  <2>1. /\ index = "A" /\ periodic = FALSE /\ requested = FALSE
        /\ reg = [A |-> 47, B |-> 102]
    BY <1>1 DEF Init, PIE, INIT_BASERATE
  <2>2. 47 % 16 = 15 /\ Bit6(102) = 1
    BY DEF Bit6, PIE
  <2>3. reg \in [{"A", "B"} -> 0 .. 127]
    BY <2>1
  <2>4. reg.A % 16 \in 3 .. 15 /\ Bit6(reg.B) = 1
    <3>1. reg.A = 47 /\ reg.B = 102
      BY <2>1
    <3> QED BY <2>2, <3>1
  <2>5. index \in {"A", "B", "C"} /\ periodic \in BOOLEAN /\ requested \in BOOLEAN
    BY <2>1
  <2> QED BY <2>3, <2>4, <2>5 DEF Chip
<1>4. ASSUME NEW p \in Procs PROVE DriverOK(p)
  <2>1. todo[p] = <<>> /\ Len(ReadCode) = 2 /\ ReadCode \in Seq(Ops)
    BY <1>1 DEF Init, ReadCode, Ops
  <2>2. <<>> = SubSeq(ReadCode, 2 + 1, Len(ReadCode)) /\ 2 \in 0 .. Len(ReadCode)
    BY <2>1
  <2>3. IsTail(ReadCode, todo[p])
    BY <2>1, <2>2 DEF IsTail
  <2>4. Len(<<>>) = 0
    OBVIOUS
  <2> QED BY <2>1, <2>3, <2>4 DEF DriverOK, Ready, Rated, Codes
<1> QED BY <1>2, <1>3, <1>4 DEF DInv

(* If the index and the write it is for are one to the other processes, the *)
(* types hold, the periodic interrupt stays enabled and the rate is one the *)
(* chip can keep up with: for any number of processes, and wherever the     *)
(* handler comes between their accesses.                                    *)
THEOREM RtcPortsKept == Spec /\ PortsKept => [](Inv /\ RateLegal)
<1>1. DInv /\ [Next]_vars /\ [Apart]_vars => DInv'
  BY NextDInv
<1> QED BY InitDInv, <1>1, DInvIsInv, PTL DEF Spec, PortsKept

(* One process keeps its ports by itself.                                   *)
OneProcess == \A p, q \in Procs : p = q

LEMMA OneKeepsPorts == ASSUME OneProcess PROVE PortsKept
<1>1. [Apart]_vars
  BY DEF Apart, OneProcess
<1> QED BY <1>1, PTL DEF PortsKept

(* With one process in the driver the types hold and the periodic interrupt *)
(* stays enabled, wherever the handler comes between its accesses.          *)
THEOREM RtcInvariant ==
  ASSUME OneProcess
  PROVE  Spec => []Inv
  BY RtcPortsKept, OneKeepsPorts, PTL

(* And the rate in register A is one the chip can keep up with.             *)
THEOREM RtcRateLegal ==
  ASSUME OneProcess
  PROVE  Spec => []RateLegal
  BY RtcPortsKept, OneKeepsPorts, PTL

-----------------------------------------------------------------------------
(* If the handler, too, stays out from between the two accesses, rtc_write  *)
(* does what it returns 0 for.                                              *)
HandlerApart == \A p \in Procs : AtWrite(p) => ~ Handler
HandlerKept == [][HandlerApart]_vars

IndexSet == \A p \in Procs : todo[p] # <<>> /\ todo[p][1] = "write_rate" => index = "A"

LEMMA IndexStep ==
  ASSUME DInv, IndexSet, [Next]_vars, [Apart]_vars, [HandlerApart]_vars
  PROVE  IndexSet'
<1> USE DEF IndexSet
<1>t. todo \in [Procs -> Seq(Ops)] /\ rate \in [Procs -> 0 .. 15]
  BY DEF DInv, Locals
<1>1. CASE UNCHANGED vars
  BY <1>1 DEF vars
<1> SUFFICES ASSUME Next, ~ UNCHANGED vars, NEW q \in Procs,
                    todo'[q] # <<>>, todo'[q][1] = "write_rate"
             PROVE  index' = "A"
  BY <1>1
<1>2. ASSUME index' = index, todo'[q] = todo[q] PROVE index' = "A"
  BY <1>2
<1>3. ASSUME NEW p \in Procs, NEW code \in Codes, Begin(p, code), index' = index
      PROVE  index' = "A"
  <2>1. code[1] # "write_rate"
    BY CodesReady
  <2>2. todo' = [todo EXCEPT ![p] = code]
    BY <1>3 DEF Begin
  <2> QED BY <1>2, <1>3, <1>t, <2>1, <2>2
<1>4. ASSUME NEW p \in Procs, NEW what \in Ops, Does(p, what), index' = index,
             what # "index_A"
      PROVE  index' = "A"
  <2>1. p # q
    BY <1>4, DoesStep
  <2>2. todo'[q] = todo[q]
    BY <1>4, <1>t, <2>1 DEF Does
  <2> QED BY <1>2, <1>4, <2>2
<1>5. ASSUME NEW p \in Procs, SetIndex(p) PROVE index' = "A"
  <2>1. PICK r \in {"A", "B"} :
          Does(p, IF r = "A" THEN "index_A" ELSE "index_B") /\ index' = r
    BY <1>5, Zenon DEF SetIndex
  <2> DEFINE what == IF r = "A" THEN "index_A" ELSE "index_B"
  <2>2. what \in Ops /\ Does(p, what)
    BY <2>1 DEF Ops
  <2>3. r # "A" => what # "index_A"
    OBVIOUS
  <2> HIDE DEF what
  <2>4. CASE p = q
    <3>1. what = "index_A"
      BY <2>2, <2>4, DoesStep
    <3> QED BY <2>1, <2>3, <3>1
  <2>5. CASE p # q
    <3>1. todo'[q] = todo[q]
      BY <1>t, <2>2, <2>5 DEF Does
    <3>2. AtWrite(q)
      BY <3>1 DEF AtWrite
    <3> QED BY <1>5, <2>5, <3>2 DEF Apart
  <2> QED BY <2>4, <2>5
<1>6. {"read", "write_pie", "write_rate", "clear", "wait", "take"} \subseteq Ops
  BY DEF Ops
<1>7. ASSUME NEW p \in Procs, Access(p) PROVE index' = "A"
  <2>1. CASE ReadData(p)
    BY <1>4, <1>6, <2>1, Zenon DEF ReadData
  <2>2. CASE WritePie(p)
    BY <1>4, <1>6, <2>2, Zenon DEF WritePie
  <2>3. CASE WriteRate(p)
    BY <1>4, <1>6, <2>3, Zenon DEF WriteRate
  <2>4. CASE ClearSignal(p) \/ Wait(p) \/ Take(p)
    BY <1>4, <1>6, <2>4 DEF ClearSignal, Wait, Take, chip
  <2> QED BY <1>5, <1>7, <2>1, <2>2, <2>3, <2>4 DEF Access
<1>8. ASSUME NEW p \in Procs, RtcOpen(p) \/ RtcWrite(p) \/ RtcRead(p) PROVE index' = "A"
  <2>1. index' = index /\ \E code \in Codes : Begin(p, code)
    BY <1>8 DEF RtcOpen, RtcWrite, RtcRead, chip, Codes
  <2> QED BY <1>3, <2>1
<1>9. CASE Period \/ \E p \in Procs : Interrupt(p)
  BY <1>2, <1>9 DEF Period, Interrupt
<1>10. CASE Handler
  <2>1. todo' = todo
    BY <1>10 DEF Handler
  <2>2. AtWrite(q)
    BY <2>1 DEF AtWrite
  <2> QED BY <1>10, <2>2 DEF HandlerApart
<1> QED BY <1>7, <1>8, <1>9, <1>10 DEF Next

(* If neither another process nor the handler comes between the index and   *)
(* the write it is for, a write of the rate leaves its rate in register A   *)
(* (rtc.c:114-116), for any number of processes.                            *)
THEOREM RatesWritten == Spec /\ PortsKept /\ HandlerKept => RateWritten
<1>1. Init => IndexSet
  BY DEF Init, IndexSet
<1>2. DInv /\ IndexSet /\ [Next]_vars /\ [Apart]_vars /\ [HandlerApart]_vars => IndexSet'
  BY IndexStep
<1>3. DInv /\ IndexSet /\ [Next]_vars =>
        [\A p \in Procs : WriteRate(p) => reg'.A % 16 = rate[p]]_vars
  <2>1. SUFFICES ASSUME DInv, IndexSet, NEW p \in Procs, WriteRate(p)
                 PROVE  reg'.A % 16 = rate[p]
    OBVIOUS
  <2> DEFINE value == (prev[p] \div 16) * 16 + rate[p]
  <2>2. Does(p, "write_rate") /\ Write(value)
    BY <2>1 DEF WriteRate
  <2>3. prev[p] \in 0 .. 127 /\ rate[p] \in 0 .. 15 /\ reg \in [{"A", "B"} -> 0 .. 127]
    BY <2>1 DEF DInv, Locals, Chip
  <2>4. value % 16 = rate[p]
    BY <2>3, Numbers128
  <2> HIDE DEF value
  <2>5. todo[p] # <<>> /\ todo[p][1] = "write_rate"
    BY <2>1, <2>2, DoesStep DEF Ops
  <2>6. index = "A"
    BY <2>1, <2>5 DEF IndexSet
  <2>7. reg' = [reg EXCEPT !["A"] = value]
    BY <2>2, <2>6 DEF Write
  <2>8. reg'.A = value
    BY <2>3, <2>7
  <2> QED BY <2>4, <2>8
<1>4. DInv /\ [Next]_vars /\ [Apart]_vars => DInv'
  BY NextDInv
<1> QED BY InitDInv, <1>1, <1>2, <1>3, <1>4, PTL DEF Spec, PortsKept, HandlerKept, RateWritten
=============================================================================
