----------------------------- MODULE Pic_proofs -----------------------------
(***************************************************************************)
(* The interrupt controllers and the handlers, for any number of terminals *)
(* and whatever masks the firmware leaves: each EOI ends its own handler's *)
(* interrupt, no line is lost, and a stack never holds more than a handler *)
(* of each line.                                                           *)
(***************************************************************************)
EXTENDS Pic, SequenceTheorems, TLAPS

(* How far the master's mask has come at each stage of the boot; requests   *)
(* come only after it.                                                      *)
Booted ==
  /\ stage = "idt" => mask.master = Lines
  /\ stage = "pic" => mask.master = Lines \ {2}
  /\ stage \in {"keyboard", "rtc"} => mask.master = Lines \ {1, 2}
  /\ stage = "up" => imr.master = Lines \ {0, 1, 2}
  /\ irr # {} => stage = "up"

IInv == Inv /\ Booted

LEMMA IrqLines ==
  /\ \A irq \in Irqs : irq \in {0, 1, 8} /\ Line(irq) \in {0, 1, 2} /\ Line(irq) \in Lines
  /\ \A irq, other \in Irqs : Line(irq) = Line(other) => irq = other
  /\ \A irq \in Irqs : irq >= SLAVE_BOUNDARY <=> irq = 8
  /\ \A irq \in Irqs : irq >= SLAVE_BOUNDARY <=> Line(irq) = 2
  BY DEF Irqs, PIT_IRQ, KEYBOARD_IRQ, IRQ8, Line, SLAVE_BOUNDARY, Lines

LEMMA Pushed ==
  ASSUME NEW S, NEW s \in Seq(S), NEW e \in S
  PROVE  /\ Append(s, e) \in Seq(S) /\ Len(s) \in Nat /\ Len(Append(s, e)) = Len(s) + 1
         /\ \A i \in 1 .. Len(s) : Append(s, e)[i] = s[i]
         /\ Append(s, e)[Len(s) + 1] = e
  OBVIOUS

LEMMA Popped ==
  ASSUME NEW S, NEW s \in Seq(S), s # <<>>
  PROVE  /\ Len(s) \in Nat /\ Len(s) > 0
         /\ SubSeq(s, 1, Len(s) - 1) \in Seq(S)
         /\ Len(SubSeq(s, 1, Len(s) - 1)) = Len(s) - 1
         /\ \A i \in 1 .. Len(s) - 1 : SubSeq(s, 1, Len(s) - 1)[i] = s[i]
<1>1. Len(s) \in Nat /\ Len(s) > 0
  OBVIOUS
<1>2. \A i \in 1 .. Len(s) - 1 : s[i] \in S
  BY <1>1
<1>3. 1 \in Int /\ Len(s) - 1 \in Int
  BY <1>1
<1> DEFINE r == SubSeq(s, 1, Len(s) - 1)
<1>4. /\ r \in Seq(S)
      /\ Len(r) = IF 1 <= Len(s) - 1 THEN (Len(s) - 1) - 1 + 1 ELSE 0
      /\ \A i \in 1 .. (Len(s) - 1) - 1 + 1 : r[i] = s[1 + i - 1]
  BY <1>2, <1>3, SubSeqProperties
<1> HIDE DEF r
<1>5. Len(r) = Len(s) - 1
  <2> DEFINE n == Len(s)
  <2>1. n \in Nat /\ n > 0 /\ Len(r) = IF 1 <= n - 1 THEN (n - 1) - 1 + 1 ELSE 0
    BY <1>1, <1>4
  <2> HIDE DEF n
  <2>2. n = 1 => Len(r) = 0
    BY <2>1
  <2>3. n # 1 => Len(r) = n - 1
    BY <2>1
  <2> QED BY <2>1, <2>2, <2>3 DEF n
<1>6. ASSUME NEW i \in 1 .. Len(s) - 1 PROVE r[i] = s[i]
  <2>1. i \in 1 .. (Len(s) - 1) - 1 + 1 /\ 1 + i - 1 = i
    BY <1>1
  <2> QED BY <1>4, <2>1
<1> QED BY <1>1, <1>4, <1>5, <1>6 DEF r

LEMMA InitInv == Init => IInv
<1>1. SUFFICES ASSUME Init PROVE IInv
  OBVIOUS
<1>2. Entered = {} /\ isr = [master |-> {}, slave |-> {}]
  BY <1>1 DEF Init, Entered
<1>3. TypeOK
  <2>1. entered \in [Term -> Seq(Irqs)]
    BY <1>1 DEF Init
  <2>2. imr \in [master : SUBSET Lines, slave : SUBSET Lines]
    BY <1>1, FirmwareAssumption DEF Init
  <2>3. terminal_num \in Term
    BY <1>1, TerminalsAssumption DEF Init, Term
  <2>4. mask \in [master : SUBSET Lines, slave : SUBSET Lines]
    BY <1>1 DEF Init
  <2>5. isr \in [master : SUBSET Lines, slave : SUBSET Lines]
    BY <1>2
  <2> QED BY <1>1, <2>1, <2>2, <2>3, <2>4, <2>5 DEF Init, TypeOK
<1>4. InServiceExact
  BY <1>2 DEF InServiceExact
<1>5. Nested
  BY <1>1 DEF Init, Nested
<1>6. Booted
  BY <1>1 DEF Init, Booted
<1> QED BY <1>3, <1>4, <1>5, <1>6 DEF IInv, Inv

-----------------------------------------------------------------------------
(* The boot.                                                                *)
LEMMA EnableLine ==
  ASSUME NEW m \in [master : SUBSET Lines, slave : SUBSET Lines],
         NEW irq \in {0, 1, 2}
  PROVE  /\ Enable(m, irq) \in [master : SUBSET Lines, slave : SUBSET Lines]
         /\ Enable(m, irq).master = m.master \ {irq}
         /\ Written(Enable(m, irq), irq) = [imr EXCEPT !.master = m.master \ {irq}]
<1>1. irq \in Lines
  BY DEF Lines
<1>2. irq - SLAVE_BOUNDARY \notin Lines
  BY DEF Lines, SLAVE_BOUNDARY
<1>3. Enable(m, irq) = [m EXCEPT !.master = @ \ {irq}]
  BY <1>1, <1>2 DEF Enable
<1>4. Written(Enable(m, irq), irq) = [imr EXCEPT !.master = Enable(m, irq).master]
  BY <1>1, <1>2 DEF Written
<1> QED BY <1>3, <1>4

LEMMA RtcPortIgnored ==
  /\ \A m : Enable(m, RTC_PORT) = m /\ Disable(m, RTC_PORT) = m
  /\ \A m : Written(m, RTC_PORT) = imr
<1>1. RTC_PORT \notin Lines /\ RTC_PORT - SLAVE_BOUNDARY \notin Lines
  BY DEF RTC_PORT, SLAVE_BOUNDARY, Lines
<1> QED BY <1>1 DEF Enable, Disable, Written

LEMMA BootStep ==
  ASSUME IInv, Boot
  PROVE  IInv'
<1> USE DEF IInv, Inv
<1>1. UNCHANGED noIrq
  BY DEF Boot, I8259Init, KeyboardInit, RtcInit, PitInit
<1>2. InServiceExact' /\ Nested'
  BY <1>1 DEF noIrq, InServiceExact, Nested, Entered
<1>3. /\ mask \in [master : SUBSET Lines, slave : SUBSET Lines]
      /\ imr \in [master : SUBSET Lines, slave : SUBSET Lines]
  BY DEF TypeOK
<1>4. ASSUME /\ mask' \in [master : SUBSET Lines, slave : SUBSET Lines]
             /\ imr' \in [master : SUBSET Lines, slave : SUBSET Lines]
             /\ stage' \in {"idt", "pic", "keyboard", "rtc", "up"}
      PROVE  TypeOK'
  BY <1>1, <1>4 DEF TypeOK, noIrq
<1>5. CASE I8259Init
  <2>1. mask' = Enable(mask, 2) /\ imr' = imr /\ stage = "idt" /\ stage' = "pic"
    BY <1>5 DEF I8259Init, Boots
  <2>2. /\ mask' \in [master : SUBSET Lines, slave : SUBSET Lines]
        /\ mask'.master = mask.master \ {2}
    BY <1>3, <2>1, EnableLine
  <2> QED BY <1>1, <1>2, <1>3, <1>4, <2>1, <2>2 DEF Booted, noIrq
<1>6. CASE KeyboardInit
  <2>1. /\ mask' = Enable(mask, 1) /\ imr' = Written(mask', 1)
        /\ stage = "pic" /\ stage' = "keyboard"
    BY <1>6 DEF KeyboardInit, Boots, KEYBOARD_IRQ
  <2>2. /\ mask' \in [master : SUBSET Lines, slave : SUBSET Lines]
        /\ mask'.master = mask.master \ {1}
        /\ imr' = [imr EXCEPT !.master = mask.master \ {1}]
    BY <1>3, <2>1, EnableLine
  <2>3. imr' \in [master : SUBSET Lines, slave : SUBSET Lines]
    BY <1>3, <2>2
  <2> QED BY <1>1, <1>2, <1>4, <2>1, <2>2, <2>3 DEF Booted, noIrq
<1>7. CASE RtcInit
  <2>1. mask' = mask /\ imr' = imr /\ stage = "keyboard" /\ stage' = "rtc"
    BY <1>7, RtcPortIgnored DEF RtcInit, Boots
  <2> QED BY <1>1, <1>2, <1>3, <1>4, <2>1 DEF Booted, noIrq
<1>8. CASE PitInit
  <2>1. /\ mask' = Enable(mask, 0) /\ imr' = Written(mask', 0)
        /\ stage = "rtc" /\ stage' = "up"
    BY <1>8 DEF PitInit, Boots, PIT_IRQ
  <2>2. /\ mask' \in [master : SUBSET Lines, slave : SUBSET Lines]
        /\ imr' = [imr EXCEPT !.master = mask.master \ {0}]
    BY <1>3, <2>1, EnableLine
  <2>3. /\ imr' \in [master : SUBSET Lines, slave : SUBSET Lines]
        /\ imr'.master = Lines \ {0, 1, 2}
    BY <1>3, <2>1, <2>2 DEF Booted
  <2> QED BY <1>1, <1>2, <1>4, <2>1, <2>2, <2>3 DEF Booted, noIrq
<1> QED BY <1>5, <1>6, <1>7, <1>8 DEF Boot

-----------------------------------------------------------------------------
(* A delivery.                                                              *)
LEMMA EnteredIs ==
  ASSUME TypeOK, NEW t \in Term, NEW i \in 1 .. Len(entered[t])
  PROVE  entered[t][i] \in Irqs /\ entered[t][i] \in Entered
<1>1. entered[t] \in Seq(Irqs)
  BY DEF TypeOK
<1>2. entered[t][i] \in Irqs
  BY <1>1
<1> QED BY <1>2 DEF Entered

LEMMA DeliverStep ==
  ASSUME IInv, NEW irq \in Irqs, Deliver(irq)
  PROVE  IInv'
<1> USE DEF IInv, Inv
<1> DEFINE tn == terminal_num
           s == entered[tn]
           a == Append(s, irq)
<1>1. tn \in Term /\ s \in Seq(Irqs) /\ entered \in [Term -> Seq(Irqs)]
  BY DEF TypeOK
<1>2. /\ entered' = [entered EXCEPT ![tn] = a]
      /\ irr' = irr \ {irq}
      /\ UNCHANGED <<special_mask, terminal_num, stage, mask, imr>>
  BY DEF Deliver, sameMasks
<1>3. /\ a \in Seq(Irqs) /\ Len(a) = Len(s) + 1
      /\ Len(s) \in Nat
      /\ \A i \in 1 .. Len(s) : a[i] = s[i]
      /\ a[Len(s) + 1] = irq
  BY <1>1, Pushed
<1> HIDE DEF s, a
<1>4. \A t \in Term : entered'[t] = IF t = tn THEN a ELSE entered[t]
  BY <1>1, <1>2
<1>5. Entered' = Entered \cup {irq}
  <2>1. ASSUME NEW i \in Irqs, i \in Entered' PROVE i \in Entered \cup {irq}
    <3>0. PICK t \in Term : \E j \in 1 .. Len(entered'[t]) : entered'[t][j] = i
      BY <2>1 DEF Entered
    <3>1. PICK j \in 1 .. Len(entered'[t]) : entered'[t][j] = i
      BY <3>0
    <3>2. CASE t # tn
      BY <1>4, <3>1, <3>2 DEF Entered
    <3>3. CASE t = tn
      <4>1. j = Len(s) + 1 \/ j \in 1 .. Len(s)
        BY <1>3, <1>4, <3>1, <3>3
      <4> QED BY <1>1, <1>3, <1>4, <2>1, <3>1, <3>3, <4>1 DEF Entered, s
    <3> QED BY <3>2, <3>3
  <2>2. ASSUME NEW i \in Entered PROVE i \in Entered'
    <3>0. PICK t \in Term : \E j \in 1 .. Len(entered[t]) : entered[t][j] = i
      BY <2>2 DEF Entered
    <3>1. PICK j \in 1 .. Len(entered[t]) : entered[t][j] = i
      BY <3>0
    <3>2. j \in 1 .. Len(entered'[t]) /\ entered'[t][j] = i
      BY <1>1, <1>3, <1>4, <3>1 DEF s
    <3> QED BY <2>2, <3>1, <3>2 DEF Entered
  <2>3. irq \in Entered'
    <3>1. Len(s) + 1 \in 1 .. Len(entered'[tn]) /\ entered'[tn][Len(s) + 1] = irq
      BY <1>1, <1>3, <1>4
    <3> QED BY <1>1, <3>1 DEF Entered
  <2> QED BY <2>1, <2>2, <2>3 DEF Entered
<1>6. \A i \in Entered : Line(i) > Line(irq)
  <2>1. imr.master = Lines \ {0, 1, 2}
    BY DEF Deliver, Booted
  <2>2. SUFFICES ASSUME NEW i \in Entered PROVE Line(i) > Line(irq)
    OBVIOUS
  <2>3. i \in Irqs
    BY DEF Entered
  <2>4. Line(i) \in isr.master /\ Line(i) \notin imr.master
    BY <2>1, <2>3, IrqLines DEF InServiceExact
  <2>5. Line(i) \in Blocking
    BY <2>4 DEF Blocking
  <2> QED BY <2>5 DEF Deliver
<1>7. irq \notin Entered
  BY <1>6, IrqLines
<1>8. TypeOK'
  <2>1. isr' \in [master : SUBSET Lines, slave : SUBSET Lines]
    <3>1. isr \in [master : SUBSET Lines, slave : SUBSET Lines] /\ Line(irq) \in Lines
      BY IrqLines DEF TypeOK
    <3>2. irq >= SLAVE_BOUNDARY => irq - SLAVE_BOUNDARY \in Lines
      BY IrqLines DEF SLAVE_BOUNDARY, Lines
    <3> QED BY <3>1, <3>2 DEF Deliver
  <2>2. entered' \in [Term -> Seq(Irqs)]
    BY <1>1, <1>2, <1>3
  <2> QED BY <1>2, <2>1, <2>2 DEF TypeOK
<1>9. InServiceExact'
  <2>1. /\ isr'.master = isr.master \cup {Line(irq)}
        /\ isr'.slave = isr.slave \cup
                          (IF irq >= SLAVE_BOUNDARY THEN {irq - SLAVE_BOUNDARY} ELSE {})
    BY DEF Deliver
  <2>2. isr'.master = {Line(i) : i \in Entered'}
    BY <1>5, <2>1 DEF InServiceExact
  <2>3. isr'.slave = {i - SLAVE_BOUNDARY : i \in Entered' \cap {IRQ8}}
    <3>1. CASE irq = 8
      BY <1>5, <2>1, <3>1, IrqLines DEF InServiceExact, IRQ8
    <3>2. CASE irq # 8
      <4>1. isr'.slave = isr.slave
        BY <2>1, <3>2, IrqLines
      <4>2. Entered' \cap {IRQ8} = Entered \cap {IRQ8}
        BY <1>5, <3>2 DEF IRQ8
      <4> QED BY <4>1, <4>2 DEF InServiceExact
    <3> QED BY <3>1, <3>2
  <2> QED BY <2>2, <2>3 DEF InServiceExact
<1>10. Nested'
  <2>1. ASSUME NEW t \in Term, NEW i \in 1 .. Len(entered'[t]),
               NEW j \in 1 .. Len(entered'[t]), i < j
        PROVE  Line(entered'[t][j]) < Line(entered'[t][i])
    <3>1. CASE t # tn
      BY <1>4, <2>1, <3>1 DEF Nested
    <3>2. CASE t = tn /\ j \in 1 .. Len(s)
      <4>1. i \in 1 .. Len(s) /\ entered'[t][i] = entered[t][i] /\ entered'[t][j] = entered[t][j]
        BY <1>3, <1>4, <2>1, <3>2 DEF s
      <4> QED BY <2>1, <3>2, <4>1 DEF Nested, s
    <3>3. CASE t = tn /\ j = Len(s) + 1
      <4>1. i \in 1 .. Len(s) /\ entered'[t][i] = s[i] /\ entered'[t][j] = irq
        BY <1>3, <1>4, <2>1, <3>3
      <4>2. s[i] \in Entered
        BY <3>3, <4>1, EnteredIs DEF s
      <4>3. Line(s[i]) > Line(irq)
        BY <1>6, <4>2
      <4>4. Line(irq) \in {0, 1, 2} /\ Line(s[i]) \in {0, 1, 2}
        BY <4>2, IrqLines DEF Entered
      <4> QED BY <4>1, <4>3, <4>4
    <3>4. j \in 1 .. Len(s) \/ j = Len(s) + 1 \/ t # tn
      BY <1>3, <1>4, <2>1
    <3> QED BY <3>1, <3>2, <3>3, <3>4
  <2>2. ASSUME NEW t \in Term, NEW u \in Term, NEW i \in 1 .. Len(entered'[t]),
               NEW j \in 1 .. Len(entered'[u]), entered'[t][i] = entered'[u][j]
        PROVE  t = u
    <3>1. ASSUME NEW v \in Term, NEW k \in 1 .. Len(entered'[v])
          PROVE  \/ k \in 1 .. Len(entered[v]) /\ entered'[v][k] = entered[v][k]
                 \/ v = tn /\ entered'[v][k] = irq
      BY <1>3, <1>4, <3>1 DEF s
    <3>2. ASSUME NEW v \in Term, NEW k \in 1 .. Len(entered[v]) PROVE entered[v][k] # irq
      BY <1>7, <3>2, EnteredIs
    <3> QED BY <2>2, <3>1, <3>2 DEF Nested
  <2> QED BY <2>1, <2>2 DEF Nested
<1>11. Booted'
  BY <1>2 DEF Booted, Deliver
<1> QED BY <1>8, <1>9, <1>10, <1>11

-----------------------------------------------------------------------------
(* The end of a handler.                                                    *)
LEMMA HandleStep ==
  ASSUME IInv, NEW t \in Term, NEW irq \in Irqs, Handle(t, irq)
  PROVE  IInv'
<1> USE DEF IInv, Inv
<1> DEFINE s == entered[t]
           r == SubSeq(s, 1, Len(s) - 1)
<1>1. s \in Seq(Irqs) /\ s # <<>> /\ s[Len(s)] = irq /\ entered \in [Term -> Seq(Irqs)]
  BY DEF TypeOK, Handle
<1>2. /\ entered' = [entered EXCEPT ![t] = r]
      /\ isr' = Ended(irq)
      /\ special_mask' = (special_mask \/ irq >= SLAVE_BOUNDARY)
      /\ terminal_num' \in {t, NextTerm(t)}
      /\ UNCHANGED <<irr, stage, mask, imr>>
  BY DEF Handle, SendEoi, sameMasks
<1>3. Len(s) \in Nat /\ Len(s) > 0
  BY <1>1, Popped
<1>4. r \in Seq(Irqs) /\ Len(r) = Len(s) - 1 /\ \A i \in 1 .. Len(s) - 1 : r[i] = s[i]
  BY <1>1, Popped
<1> HIDE DEF r, s
<1>5. \A v \in Term : entered'[v] = IF v = t THEN r ELSE entered[v]
  BY <1>1, <1>2
<1>6. \A v \in Term : \A i \in 1 .. Len(entered'[v]) :
        i \in 1 .. Len(entered[v]) /\ entered'[v][i] = entered[v][i]
  BY <1>3, <1>4, <1>5 DEF s
<1>7. Entered' = Entered \ {irq}
  <2>1. ASSUME NEW v \in Term, NEW i \in 1 .. Len(entered'[v]) PROVE entered'[v][i] # irq
    <3>1. i \in 1 .. Len(entered[v]) /\ entered'[v][i] = entered[v][i]
      BY <1>6
    <3>2. CASE v = t
      <4>1. i \in 1 .. Len(s) /\ Len(s) \in 1 .. Len(s) /\ i < Len(s)
        BY <1>3, <1>4, <1>5, <3>2
      <4>2. Line(s[Len(s)]) < Line(s[i]) /\ s[i] \in Irqs
        BY <4>1, EnteredIs DEF Nested, s
      <4> QED BY <1>1, <3>1, <3>2, <4>2, IrqLines DEF s
    <3>3. CASE v # t
      <4>1. Len(s) \in 1 .. Len(s)
        BY <1>3
      <4> QED BY <1>1, <3>1, <3>3, <4>1 DEF Nested, s
    <3> QED BY <3>2, <3>3
  <2>2. ASSUME NEW i \in Entered' PROVE i \in Entered \ {irq}
    <3>0. PICK v \in Term : \E j \in 1 .. Len(entered'[v]) : entered'[v][j] = i /\ i \in Irqs
      BY <2>2 DEF Entered
    <3>1. PICK j \in 1 .. Len(entered'[v]) : entered'[v][j] = i /\ i \in Irqs
      BY <3>0
    <3> QED BY <1>6, <2>1, <3>1 DEF Entered
  <2>3. ASSUME NEW i \in Entered, i # irq PROVE i \in Entered'
    <3>0. PICK v \in Term : \E j \in 1 .. Len(entered[v]) : entered[v][j] = i /\ i \in Irqs
      BY <2>3 DEF Entered
    <3>1. PICK j \in 1 .. Len(entered[v]) : entered[v][j] = i /\ i \in Irqs
      BY <3>0
    <3>2. v = t => j < Len(s)
      BY <1>1, <1>3, <2>3, <3>1 DEF s
    <3>3. j \in 1 .. Len(entered'[v]) /\ entered'[v][j] = i
      BY <1>3, <1>4, <1>5, <3>1, <3>2 DEF s
    <3> QED BY <3>1, <3>3 DEF Entered
  <2> QED BY <2>2, <2>3
<1>8. irq \in Entered
  <2>1. Len(s) \in 1 .. Len(entered[t])
    BY <1>3 DEF s
  <2> QED BY <1>1, <2>1, EnteredIs DEF s
<1>9. TypeOK'
  <2>1. isr' \in [master : SUBSET Lines, slave : SUBSET Lines]
    <3>1. isr \in [master : SUBSET Lines, slave : SUBSET Lines]
      BY DEF TypeOK
    <3> QED BY <1>2, <3>1 DEF Ended
  <2>2. entered' \in [Term -> Seq(Irqs)]
    BY <1>1, <1>2, <1>4
  <2>3. terminal_num' \in Term
    BY <1>2, TerminalsAssumption DEF Term, NextTerm
  <2>4. special_mask' \in BOOLEAN
    BY <1>2 DEF TypeOK
  <2> QED BY <1>2, <2>1, <2>2, <2>3, <2>4 DEF TypeOK
<1>10. InServiceExact'
  <2>0. {Line(i) : i \in Entered'} = {Line(i) : i \in Entered} \ {Line(irq)}
    <3> DEFINE before == Entered
               after == Entered'
    <3>1. before \subseteq Irqs /\ irq \in before /\ after = before \ {irq}
      BY <1>7, <1>8 DEF Entered
    <3> HIDE DEF before, after
    <3>2. \A i \in before : Line(i) = Line(irq) => i = irq
      BY <3>1, IrqLines
    <3>3. {Line(i) : i \in after} = {Line(i) : i \in before} \ {Line(irq)}
      BY <3>1, <3>2
    <3> QED BY <3>3 DEF before, after
  <2>1. CASE irq = 8
    <3>1. isr'.master = isr.master \ {2} /\ isr'.slave = isr.slave \ {irq - SLAVE_BOUNDARY}
      BY <1>2, <2>1, IrqLines DEF Ended, EOI_NUM
    <3>2. Line(irq) = 2
      BY <2>1, IrqLines
    <3>3. isr'.master = {Line(i) : i \in Entered'}
      BY <2>0, <3>1, <3>2 DEF InServiceExact
    <3>4. isr'.slave = {i - SLAVE_BOUNDARY : i \in Entered' \cap {IRQ8}}
      BY <1>7, <2>1, <3>1 DEF InServiceExact, IRQ8
    <3> QED BY <3>3, <3>4 DEF InServiceExact
  <2>2. CASE irq # 8
    <3>1. isr' = [isr EXCEPT !.master = @ \ {irq}] /\ Line(irq) = irq
      BY <1>2, <2>2, IrqLines DEF Ended, Line
    <3>2. isr'.master = isr.master \ {irq} /\ isr'.slave = isr.slave
      BY <3>1 DEF TypeOK
    <3>3. isr'.master = {Line(i) : i \in Entered'}
      BY <2>0, <3>1, <3>2 DEF InServiceExact
    <3>4. Entered' \cap {IRQ8} = Entered \cap {IRQ8}
      BY <1>7, <2>2 DEF IRQ8
    <3> QED BY <3>2, <3>3, <3>4 DEF InServiceExact
  <2> QED BY <2>1, <2>2
<1>11. Nested'
  BY <1>6 DEF Nested
<1>12. Booted'
  BY <1>2 DEF Booted
<1> QED BY <1>9, <1>10, <1>11, <1>12

LEMMA NextInv == IInv /\ [Next]_vars => IInv'
<1>1. SUFFICES ASSUME IInv, [Next]_vars PROVE IInv'
  OBVIOUS
<1>2. CASE Boot
  BY <1>1, <1>2, BootStep
<1>3. ASSUME NEW irq \in Irqs, Raise(irq) PROVE IInv'
  <2>1. /\ stage = "up" /\ irr' = irr \cup {irq}
        /\ UNCHANGED <<isr, special_mask, terminal_num, entered, stage, mask, imr>>
    BY <1>3 DEF Raise, sameMasks
  <2>2. TypeOK'
    BY <1>1, <2>1 DEF IInv, Inv, TypeOK
  <2>3. InServiceExact' /\ Nested'
    BY <1>1, <2>1 DEF IInv, Inv, InServiceExact, Entered, Nested
  <2>4. Booted'
    BY <1>1, <2>1 DEF IInv, Booted
  <2> QED BY <2>2, <2>3, <2>4 DEF IInv, Inv
<1>4. ASSUME NEW irq \in Irqs, Deliver(irq) PROVE IInv'
  BY <1>1, <1>4, DeliverStep
<1>5. ASSUME NEW irq \in Irqs, NEW t \in Term, Handle(t, irq) PROVE IInv'
  BY <1>1, <1>5, HandleStep
<1>6. CASE UNCHANGED vars
  BY <1>1, <1>6 DEF vars, IInv, Inv, TypeOK, InServiceExact, Entered, Nested, Booted
<1> QED BY <1>1, <1>2, <1>3, <1>4, <1>5, <1>6 DEF Next

-----------------------------------------------------------------------------
(* However ticks scatter the handlers over the stacks of the terminals, the *)
(* controllers have exactly their lines in service, and no handler runs     *)
(* inside one of its own or of a higher priority.                           *)
THEOREM PicInvariant == Spec => []Inv
<1>1. IInv => Inv
  BY DEF IInv
<1> QED BY <1>1, InitInv, NextInv, PTL DEF Spec

(* When interrupts are turned on, the master lets the PIT, the keyboard and *)
(* the cascade through and nothing else.                                    *)
THEOREM PicLinesOn == Spec => []LinesOn
<1>1. IInv => LinesOn
  BY DEF IInv, Booted, LinesOn, PIT_IRQ, KEYBOARD_IRQ
<1> QED BY <1>1, InitInv, NextInv, PTL DEF Spec

(* Each handler interrupts one of a lower priority, so a kernel stack never *)
(* holds more than three that are still before their cli: one of the RTC,   *)
(* one of the keyboard in it and a tick in that.                            *)
HandlersBounded == \A t \in Term : Len(entered[t]) <= 3

(* It is so for any number of terminals, whatever the firmware left masked. *)
THEOREM PicHandlersBounded == Spec => []HandlersBounded
<1>1. Inv => HandlersBounded
  <2>1. SUFFICES ASSUME Inv, NEW t \in Term PROVE Len(entered[t]) <= 3
    BY DEF HandlersBounded
  <2> DEFINE s == entered[t]
  <2>2. s \in Seq(Irqs)
    BY <2>1 DEF Inv, TypeOK
  <2>3. \A i, j \in 1 .. Len(s) : i < j => Line(s[j]) < Line(s[i])
    BY <2>1 DEF Inv, Nested
  <2> HIDE DEF s
  <2>4. \A i \in 1 .. Len(s) : Line(s[i]) \in {0, 1, 2}
    BY <2>2, ElementOfSeq, IrqLines
  <2>5. SUFFICES ASSUME ~(Len(s) <= 3) PROVE FALSE
    BY DEF s
  <2>6. {1, 2, 3, 4} \subseteq 1 .. Len(s)
    BY <2>2, <2>5, LenProperties
  <2> DEFINE l == [i \in {1, 2, 3, 4} |-> Line(s[i])]
  <2>7. l[1] \in {0, 1, 2} /\ l[2] \in {0, 1, 2} /\ l[3] \in {0, 1, 2} /\ l[4] \in {0, 1, 2}
    BY <2>4, <2>6
  <2>8. l[2] < l[1] /\ l[3] < l[2] /\ l[4] < l[3]
    BY <2>3, <2>6
  <2> HIDE DEF l
  <2> QED BY <2>7, <2>8
<1> QED BY <1>1, PicInvariant, PTL
=============================================================================
