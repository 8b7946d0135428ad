-------------------------- MODULE Keyboard_proofs ---------------------------
(***************************************************************************)
(* The keyboard driver, for any keyboard: no modifier flag sticks, and a   *)
(* key means what is written on it.  The console, for any screen and any   *)
(* numbers: what printf prints of a number reads back as that number, and  *)
(* putc stays in the video page.                                           *)
(***************************************************************************)
EXTENDS Keyboard, SequenceTheorems, WellFoundedInduction, TLAPS

(* What the history of the fingers and the flags keep.                      *)
Typed ==
  /\ held \subseteq Modifiers
  /\ ctrl_flag \in {0, 1} /\ alt_flag \in {0, 1}
  /\ shift_flag \in {0, 1} /\ caps_flag \in {0, 1}
  /\ event.scan \in {0} \cup OrdinaryKeys

KInv == Typed /\ FlagsHeld

(* What an interrupt does to a flag whose keys have these codes.            *)
(* The keys held after a scan code, as far as a flag's codes are concerned. *)
Moves(before, after, codes, scan) ==
  \/ after = before /\ \A c \in codes : scan # c
  \/ \E k \in Modifiers : after = before \cup {k} /\ scan = k.code
  \/ \E k \in before : after = before \ {k} /\ scan = Released(k.code)

LEMMA FlagStep ==
  ASSUME NEW codes \in SUBSET ModifierCodes, NEW flag \in {0, 1}, NEW scan,
         NEW before, NEW after,
         before \subseteq Modifiers,
         flag = 1 => \E k \in before : k.code \in codes,
         Moves(before, after, codes, scan)
  PROVE  /\ FlagAfter(flag, codes, scan) \in {0, 1}
         /\ FlagAfter(flag, codes, scan) = 1 => \E k \in after : k.code \in codes
<1>1. FlagAfter(flag, codes, scan) \in {0, 1}
  BY DEF FlagAfter
<1>2. SUFFICES ASSUME FlagAfter(flag, codes, scan) = 1
               PROVE  \E k \in after : k.code \in codes
  BY <1>1
<1>3. \A k \in Modifiers : k.code \in {29, 56, 42, 54}
  BY KeysAssumption DEF ModifierCodes, CTRL_P, ALT_P, SHIL_P, SHIR_P
<1>4. CASE after = before /\ \A c \in codes : scan # c
  BY <1>2, <1>4 DEF FlagAfter
<1>5. CASE \E k \in Modifiers : after = before \cup {k} /\ scan = k.code
  <2>1. PICK k \in Modifiers : after = before \cup {k} /\ scan = k.code
    BY <1>5
  <2>2. CASE k.code \in codes
    BY <2>1, <2>2
  <2>3. CASE k.code \notin codes
    BY <1>2, <2>1, <2>3 DEF FlagAfter
  <2> QED BY <2>2, <2>3
<1>6. CASE \E k \in before : after = before \ {k} /\ scan = Released(k.code)
  <2>1. PICK k \in before : after = before \ {k} /\ scan = Released(k.code)
    BY <1>6
  <2>2. scan \notin codes
    BY <1>3, <2>1 DEF Released, ModifierCodes, CTRL_P, ALT_P, SHIL_P, SHIR_P
  <2>3. flag = 1 /\ scan \notin {Released(c) : c \in codes}
    BY <1>2, <2>2 DEF FlagAfter
  <2>4. k.code \notin codes
    BY <2>1, <2>3
  <2> QED BY <2>1, <2>3, <2>4
<1> QED BY <1>4, <1>5, <1>6 DEF Moves

(* The scan codes of the keyboard, and what they do to the keys held.       *)
Fingers(scan) ==
  \/ held' = held /\ scan \notin ModifierCodes
  \/ \E k \in Modifiers : held' = held \cup {k} /\ scan = k.code
  \/ \E k \in held : held' = held \ {k} /\ scan = Released(k.code)

LEMMA MeansScan ==
  ASSUME NEW scan \in Nat, scan < GENL_R => scan \in OrdinaryKeys \cup ModifierCodes
  PROVE  Means(scan).scan \in {0} \cup OrdinaryKeys
<1>1. CASE Ignored(scan) \/ IsModifier(scan) \/ scan >= GENL_R
  <2>1. Means(scan) = Nothing
    BY <1>1 DEF Means
  <2> QED BY <2>1 DEF Nothing
<1>2. CASE ~(Ignored(scan) \/ IsModifier(scan) \/ scan >= GENL_R)
  <2>1. scan \in OrdinaryKeys
    BY <1>2 DEF IsModifier, GENL_R
  <2>2. Means(scan).scan = scan
    BY <1>2, Zenon DEF Means
  <2> QED BY <2>1, <2>2
<1> QED BY <1>1, <1>2

LEMMA InterruptStep ==
  ASSUME KInv, NEW scan \in Nat, Interrupt(scan), Fingers(scan),
         scan < GENL_R => scan \in OrdinaryKeys \cup ModifierCodes
  PROVE  KInv'
<1>1. Translate(scan)
  BY DEF Interrupt
<1>2. held' \subseteq Modifiers
  BY DEF Fingers, KInv, Typed
<1>3. /\ {CTRL_P} \in SUBSET ModifierCodes /\ {ALT_P} \in SUBSET ModifierCodes
      /\ {SHIL_P, SHIR_P} \in SUBSET ModifierCodes
  BY DEF ModifierCodes
<1>4. ASSUME NEW codes \in SUBSET ModifierCodes, NEW flag \in {0, 1},
             flag = 1 => \E k \in held : k.code \in codes
      PROVE  /\ FlagAfter(flag, codes, scan) \in {0, 1}
             /\ FlagAfter(flag, codes, scan) = 1 => \E k \in held' : k.code \in codes
  <2>1. held \subseteq Modifiers
    BY DEF KInv, Typed
  <2>2. \/ held' = held /\ \A c \in codes : scan # c
        \/ \E k \in Modifiers : held' = held \cup {k} /\ scan = k.code
        \/ \E k \in held : held' = held \ {k} /\ scan = Released(k.code)
    BY <1>4 DEF Fingers
  <2> DEFINE after == held'
  <2>3. Moves(held, after, codes, scan)
    BY <2>2 DEF Moves
  <2> HIDE DEF after
  <2>4. /\ FlagAfter(flag, codes, scan) \in {0, 1}
        /\ FlagAfter(flag, codes, scan) = 1 => \E k \in after : k.code \in codes
    BY <1>4, <2>1, <2>3, FlagStep
  <2> QED BY <2>4 DEF after
<1>5. ctrl_flag' \in {0, 1} /\ (ctrl_flag' = 1 => Down({CTRL_P})')
  BY <1>1, <1>3, <1>4 DEF Translate, KInv, Typed, FlagsHeld, Down
<1>6. alt_flag' \in {0, 1} /\ (alt_flag' = 1 => Down({ALT_P})')
  BY <1>1, <1>3, <1>4 DEF Translate, KInv, Typed, FlagsHeld, Down
<1>7. shift_flag' \in {0, 1} /\ (shift_flag' = 1 => Down({SHIL_P, SHIR_P})')
  BY <1>1, <1>3, <1>4 DEF Translate, KInv, Typed, FlagsHeld, Down
<1>8. caps_flag' \in {0, 1}
  BY <1>1 DEF Translate, KInv, Typed
<1>9. event'.scan \in {0} \cup OrdinaryKeys
  BY <1>1, MeansScan DEF Translate
<1> QED BY <1>2, <1>5, <1>6, <1>7, <1>8, <1>9 DEF KInv, Typed, FlagsHeld

LEMMA KeyTypes ==
  /\ \A k \in Modifiers : /\ k.code \in ModifierCodes
                          /\ k.code \in Nat /\ k.code < GENL_R
                          /\ Released(k.code) \in Nat /\ Released(k.code) >= GENL_R
  /\ \A code \in OrdinaryKeys : /\ code \in Nat /\ code \notin ModifierCodes
                                /\ Released(code) \in Nat /\ Released(code) >= GENL_R
  /\ \A c \in ModifierCodes : c \in Nat /\ c < GENL_R
  BY KeysAssumption DEF ModifierCodes, CTRL_P, ALT_P, SHIL_P, SHIR_P, GENL_R, Released

LEMMA NextKInv == KInv /\ [Next]_vars => KInv'
<1>1. SUFFICES ASSUME KInv, [Next]_vars PROVE KInv'
  OBVIOUS
<1>2. ASSUME UNCHANGED keyVars PROVE KInv'
  BY <1>1, <1>2 DEF keyVars, flags, KInv, Typed, FlagsHeld, Down
<1>3. ASSUME NEW k \in Modifiers, Press(k) PROVE KInv'
  <2>1. Fingers(k.code) /\ Interrupt(k.code)
    BY <1>3 DEF Press, Fingers
  <2> QED BY <1>1, <2>1, KeyTypes, InterruptStep
<1>4. ASSUME NEW k \in Modifiers, Release(k) PROVE KInv'
  <2>1. Fingers(Released(k.code)) /\ Interrupt(Released(k.code))
    BY <1>4 DEF Release, Fingers
  <2>2. Released(k.code) \in Nat /\ ~(Released(k.code) < GENL_R)
    BY KeyTypes DEF GENL_R
  <2> QED BY <1>1, <2>1, <2>2, InterruptStep
<1>5. ASSUME NEW code \in OrdinaryKeys, Type(code) PROVE KInv'
  <2>1. Fingers(code) /\ Interrupt(code)
    BY <1>5, KeyTypes DEF Type, Fingers
  <2> QED BY <1>1, <2>1, KeyTypes, InterruptStep
<1>6. ASSUME NEW code \in OrdinaryKeys, LetGo(code) PROVE KInv'
  <2>1. Released(code) \in Nat /\ ~(Released(code) < GENL_R)
    BY KeyTypes DEF GENL_R
  <2>2. Fingers(Released(code)) /\ Interrupt(Released(code))
    BY <1>6, <2>1, KeyTypes DEF LetGo, Fingers
  <2> QED BY <1>1, <2>1, <2>2, InterruptStep
<1>7. CASE Extended
  <2>1. 224 \in Nat /\ ~(224 < GENL_R)
    BY DEF GENL_R
  <2>2. Fingers(224) /\ Interrupt(224)
    BY <1>7, <2>1, KeyTypes DEF Extended, Fingers
  <2> QED BY <1>1, <2>1, <2>2, InterruptStep
<1>8. CASE UNCHANGED vars
  BY <1>2, <1>8 DEF vars, keyVars
<1> QED BY <1>1, <1>2, <1>3, <1>4, <1>5, <1>6, <1>7, <1>8 DEF Next

(* No modifier sticks, whatever keys the keyboard has and however they are  *)
(* pressed, repeated and released.                                          *)
THEOREM KeyboardInvariant == Spec => []Inv
<1>1. Init => KInv
  BY DEF Init, Nothing, KInv, Typed, FlagsHeld
<1>2. KInv /\ [Next]_vars => KInv'
  BY NextKInv
<1>3. KInv => Inv
  BY DEF KInv, Typed, Inv, TypeOK
<1> QED BY <1>1, <1>2, <1>3, PTL DEF Spec

-----------------------------------------------------------------------------
(* The values of the table are told apart by their kind.                    *)
LEMMA Symbols ==
  /\ \A a, b : Lower(a) = Lower(b) => a = b
  /\ \A m, n : TFKEY(m) = TFKEY(n) => m = n
  /\ \A a, b : Lower(a) # Upper(b)
  /\ \A n, a : TFKEY(n) # Lower(a) /\ TFKEY(n) # Upper(a)
  /\ \A n : TFKEY(n) # KEY_BACKSPACE /\ TFKEY(n) # KEY_RETURN
  /\ \A a : /\ Lower(a) # KEY_BACKSPACE /\ Lower(a) # KEY_RETURN
            /\ Upper(a) # KEY_BACKSPACE /\ Upper(a) # KEY_RETURN
  /\ KEY_BACKSPACE # KEY_RETURN
  /\ \A p \in {"shifted", "plain"} : \A n, a :
       /\ <<p, n>> # TFKEY(a) /\ <<p, n>> # Lower(a) /\ <<p, n>> # Upper(a)
       /\ <<p, n>> # KEY_BACKSPACE /\ <<p, n>> # KEY_RETURN
  BY DEF Lower, Upper, TFKEY, KEY_BACKSPACE, KEY_RETURN

(* The keys that are looked up and have a cell of their own.                *)
OwnCell == (2 .. 61) \ {15, 29, 42, 54, 55, 56, 58}

(* What the cell of a key holds, whatever the row.                          *)
LEMMA Cells ==
  ASSUME NEW row \in 0 .. 4, NEW col \in OwnCell
  PROVE  \/ col = 14 /\ Table(row, col) = KEY_BACKSPACE
         \/ col = 28 /\ Table(row, col) = KEY_RETURN
         \/ col \in 59 .. 61 /\ Table(row, col) = TFKEY(col - 59)
         \/ col \in 59 .. 61 /\ \E l \in {22, 20, 31} : Table(row, col) = Lower(l)
         \/ col = 2 /\ Table(row, col) = DBH
         \/ col = Key_L /\ row = 3 /\ Table(row, col) = CRL
         \/ col \in Letters /\ ~(row = 3 /\ col = Key_L) /\
              Table(row, col) = IF row \in {0, 1} THEN Upper(col) ELSE Lower(col)
         \/ col \notin Letters \cup {14, 28} /\ \E p \in {"shifted", "plain"} : Table(row, col) = <<p, col>>
<1>1. CASE col = 14
  BY <1>1 DEF Table
<1>2. CASE col = 28
  BY <1>2 DEF Table
<1>3. CASE col \in 59 .. 61 /\ row = 2
  BY <1>3 DEF Table
<1>4. CASE col \in 59 .. 61 /\ row # 2
  <2>1. /\ col # 14 /\ col # 28 /\ row # 2 /\ col # Key_L /\ col # 15
        /\ col \notin Letters
    BY <1>4 DEF Key_L, Letters
  <2>2. Table(row, col) = Lower(<<22, 20, 31>>[col - 58])
    BY <1>4, <2>1, Zenon DEF Table
  <2>3. <<22, 20, 31>>[col - 58] \in {22, 20, 31}
    BY <1>4
  <2> QED BY <1>4, <2>2, <2>3
<1>5. CASE col = 2 /\ row = 2
  BY <1>5 DEF Table
<1>6. CASE col = Key_L /\ row = 3
  BY <1>6 DEF Table, Key_L, Letters
<1>7. CASE col \in Letters /\ ~(row = 3 /\ col = Key_L)
  <2>1. /\ col # 14 /\ col # 28 /\ ~(col \in 59 .. 61) /\ ~(row = 2 /\ col = 2)
        /\ ~(row = 3 /\ col = Key_L) /\ col # 15
    BY <1>7 DEF Letters
  <2>2. Table(row, col) = IF row \in {0, 1} THEN Upper(col) ELSE Lower(col)
    BY <1>7, <2>1, Zenon DEF Table
  <2> QED BY <1>7, <2>2
<1>8. CASE col \notin {14, 28} \cup (59 .. 61) \cup Letters /\ ~(col = 2 /\ row = 2)
  <2>1. Table(row, col) = <<IF row = 0 THEN "shifted" ELSE "plain", col>>
    BY <1>8 DEF Table, Key_L, Letters, OwnCell
  <2> QED BY <1>8, <2>1
<1> QED BY <1>1, <1>2, <1>3, <1>4, <1>5, <1>6, <1>7, <1>8

(* The kind of key that a value is found to be.                             *)
LEMMA Kinds ==
  ASSUME NEW a
  PROVE  /\ KindOf(a) = "back" <=> a = KEY_BACKSPACE
         /\ KindOf(a) = "swap" => alt_flag = 1 /\ \E n \in 0 .. 2 : a = TFKEY(n)
         /\ KindOf(a) = "ctrlL" => ctrl_flag = 1 /\ a = CRL
         /\ KindOf(a) = "paste" => alt_flag = 1 /\ a = DBH
         /\ KindOf(a) = "enter" <=> a = KEY_RETURN
<1> DEFINE isTF == a \in {TFKEY(n) : n \in 0 .. 2}
<1>1. isTF <=> \E n \in 0 .. 2 : a = TFKEY(n)
  OBVIOUS
<1>2. /\ a = KEY_RETURN => ~isTF /\ a # KEY_BACKSPACE /\ a # CRL /\ a # DBH
      /\ a = KEY_BACKSPACE => ~isTF /\ a # CRL /\ a # DBH
      /\ isTF => a # CRL /\ a # DBH
      /\ a = CRL => a # DBH
  BY <1>1, Symbols DEF CRL, DBH, Key_W, Key_V
<1> HIDE DEF isTF
<1>3. CASE a = KEY_BACKSPACE
  <2>1. KindOf(a) = "back"
    BY <1>2, <1>3, Zenon DEF KindOf, Clears, isTF
  <2> QED BY <1>2, <1>3, <2>1
<1>4. CASE a # KEY_BACKSPACE /\ alt_flag = 1 /\ isTF
  <2>1. KindOf(a) = "swap"
    BY <1>2, <1>4, Zenon DEF KindOf, Clears, isTF
  <2> QED BY <1>1, <1>2, <1>4, <2>1
<1>5. CASE a # KEY_BACKSPACE /\ ~(alt_flag = 1 /\ isTF) /\ Clears(a)
  <2>1. KindOf(a) = "ctrlL"
    BY <1>2, <1>5, Zenon DEF KindOf, Clears, isTF
  <2> QED BY <1>2, <1>5, <2>1 DEF Clears
<1>6. CASE a # KEY_BACKSPACE /\ ~(alt_flag = 1 /\ isTF) /\ ~Clears(a)
           /\ alt_flag = 1 /\ a = DBH
  <2>1. KindOf(a) = "paste"
    BY <1>2, <1>6, Zenon DEF KindOf, Clears, isTF
  <2> QED BY <1>2, <1>6, <2>1
<1>7. CASE a # KEY_BACKSPACE /\ ~(alt_flag = 1 /\ isTF) /\ ~Clears(a)
           /\ ~(alt_flag = 1 /\ a = DBH)
  <2>1. a = KEY_RETURN => KindOf(a) = "enter"
    BY <1>2, <1>7, Zenon DEF KindOf, isTF
  <2>2. a # KEY_RETURN => KindOf(a) = "char"
    BY <1>2, <1>7, Zenon DEF KindOf, isTF
  <2> QED BY <1>7, <2>1, <2>2
<1> QED BY <1>3, <1>4, <1>5, <1>6, <1>7

(* The keys of the 101-key layout but SysRq.                                *)
TableKeys == (1 .. 83) \cup {87, 88}

(* KeysMeanWhatTheySay of an event e.                                       *)
Says(e) ==
  /\ e.kind = "swap" => Down({ALT_P}) /\ e.ascii = TFKEY(e.scan - 59)
  /\ e.kind \in {"ctrlL", "paste"} => Down({CTRL_P, ALT_P}) /\ e.scan \in {2} \cup Letters
  /\ e.scan = 28 <=> e.kind = "enter"
  /\ e.scan = 14 <=> e.kind = "back"
  /\ e.kind = "char" /\ e.scan \in Letters /\ ctrl_flag = 0 /\ alt_flag = 0 =>
       e.ascii = IF shift_flag # caps_flag THEN Upper(e.scan) ELSE Lower(e.scan)

LEMMA NothingSays == Says(Nothing)
  BY DEF Says, Nothing, Letters

LEMMA KeySays ==
  ASSUME KInv, NEW scan \in OwnCell
  PROVE  Says([kind |-> KindOf(Table(TableRow, scan)), scan |-> scan,
               ascii |-> Table(TableRow, scan)])
<1> DEFINE a == Table(TableRow, scan)
           kind == KindOf(a)
<1>1. TableRow \in 0 .. 4
  BY DEF TableRow
<1>2. /\ kind = "back" <=> a = KEY_BACKSPACE
      /\ kind = "swap" => alt_flag = 1 /\ \E n \in 0 .. 2 : a = TFKEY(n)
      /\ kind = "ctrlL" => ctrl_flag = 1 /\ a = CRL
      /\ kind = "paste" => alt_flag = 1 /\ a = DBH
      /\ kind = "enter" <=> a = KEY_RETURN
  BY Kinds
<1>3. \/ scan = 14 /\ a = KEY_BACKSPACE
      \/ scan = 28 /\ a = KEY_RETURN
      \/ scan \in 59 .. 61 /\ a = TFKEY(scan - 59)
      \/ scan \in 59 .. 61 /\ \E l \in {22, 20, 31} : a = Lower(l)
      \/ scan = 2 /\ a = DBH
      \/ scan = Key_L /\ TableRow = 3 /\ a = CRL
      \/ scan \in Letters /\ ~(TableRow = 3 /\ scan = Key_L) /\
           a = IF TableRow \in {0, 1} THEN Upper(scan) ELSE Lower(scan)
      \/ scan \notin Letters \cup {14, 28} /\ \E p \in {"shifted", "plain"} : a = <<p, scan>>
  BY <1>1, Cells
<1>4. ctrl_flag \in {0, 1} /\ alt_flag \in {0, 1} /\ shift_flag \in {0, 1} /\ caps_flag \in {0, 1}
  BY DEF KInv, Typed
<1>5. /\ ctrl_flag = 1 => Down({CTRL_P, ALT_P})
      /\ alt_flag = 1 => Down({CTRL_P, ALT_P}) /\ Down({ALT_P})
  BY DEF KInv, FlagsHeld, Down
<1>6. ctrl_flag = 0 /\ alt_flag = 0 => (TableRow \in {0, 1} <=> shift_flag # caps_flag)
  BY <1>4 DEF TableRow
<1> HIDE DEF a, kind
<1>7. kind = "swap" => a = TFKEY(scan - 59)
  BY <1>2, <1>3, Symbols DEF CRL, DBH
<1>8. kind \in {"ctrlL", "paste"} => scan \in {2} \cup Letters
  <2>1. SUFFICES ASSUME kind \in {"ctrlL", "paste"} PROVE scan \in {2} \cup Letters
    OBVIOUS
  <2>2. a = Lower(17) \/ a = Lower(47)
    BY <1>2, <2>1 DEF CRL, DBH, Key_W, Key_V
  <2>3. \A l \in {22, 20, 31} : a # Lower(l)
    BY <2>2, Symbols
  <2>4. /\ a # KEY_BACKSPACE /\ a # KEY_RETURN /\ \A n : a # TFKEY(n)
        /\ \A p \in {"shifted", "plain"} : a # <<p, scan>>
    BY <2>2, Symbols
  <2> QED BY <1>3, <2>3, <2>4 DEF Key_L, Letters
<1>9. a = KEY_RETURN <=> scan = 28
  BY <1>3, Symbols DEF CRL, DBH, Key_L, Letters
<1>10. a = KEY_BACKSPACE <=> scan = 14
  BY <1>3, Symbols DEF CRL, DBH, Key_L, Letters
<1>11. scan \in Letters /\ ctrl_flag = 0 /\ alt_flag = 0
         => a = IF shift_flag # caps_flag THEN Upper(scan) ELSE Lower(scan)
  <2>1. SUFFICES ASSUME scan \in Letters, ctrl_flag = 0, alt_flag = 0
                 PROVE  a = IF shift_flag # caps_flag THEN Upper(scan) ELSE Lower(scan)
    OBVIOUS
  <2>2. TableRow # 3
    BY <1>4, <2>1 DEF TableRow
  <2>3. a = IF TableRow \in {0, 1} THEN Upper(scan) ELSE Lower(scan)
    BY <1>3, <2>1, <2>2 DEF Letters
  <2> QED BY <1>6, <2>1, <2>3
<1> DEFINE e == [kind |-> kind, scan |-> scan, ascii |-> a]
<1>12. e.kind = kind /\ e.scan = scan /\ e.ascii = a
  OBVIOUS
<1> HIDE DEF e
<1>13. Says(e)
  BY <1>2, <1>5, <1>7, <1>8, <1>9, <1>10, <1>11, <1>12 DEF Says
<1> QED BY <1>13 DEF e, a, kind

LEMMA MeansSays ==
  ASSUME KInv, NEW scan \in Nat, scan < GENL_R => scan \in TableKeys
  PROVE  Says(Means(scan))
<1>1. CASE Ignored(scan) \/ IsModifier(scan) \/ scan >= GENL_R
  <2>1. Means(scan) = Nothing
    BY <1>1 DEF Means
  <2> QED BY <2>1, NothingSays
<1>2. CASE ~(Ignored(scan) \/ IsModifier(scan) \/ scan >= GENL_R)
  <2>1. scan \in OwnCell
    BY <1>2 DEF Ignored, IsModifier, ModifierCodes, CTRL_P, ALT_P, SHIL_P, SHIR_P, CAP,
                GENL_R, TableKeys, OwnCell
  <2>2. TableRow \in 0 .. 4
    BY DEF TableRow
  <2>3. scan \div Columns = 0 /\ scan % Columns = scan /\ InTable(TableRow, scan)
    BY <2>1, <2>2 DEF Columns, Rows, OwnCell, InTable
  <2>4. Ascii(scan) = Table(TableRow, scan)
    BY <2>2, <2>3 DEF Ascii
  <2>5. Means(scan) = [kind |-> KindOf(Ascii(scan)), scan |-> scan, ascii |-> Ascii(scan)]
    BY <1>2, <2>3, Zenon DEF Means
  <2> QED BY <2>1, <2>4, <2>5, KeySays
<1> QED BY <1>1, <1>2

(* The codes that change no flag.                                           *)
LEMMA OrdinaryKeepsFlags ==
  ASSUME KInv, NEW code \in OrdinaryKeys, Interrupt(code)
  PROVE  UNCHANGED flags
<1>1. code \in 1 .. 119 /\ code \notin {29, 56, 42, 54}
  BY KeysAssumption DEF ModifierCodes, CTRL_P, ALT_P, SHIL_P, SHIR_P, GENL_R
<1>2. code # Released(29) /\ code # Released(56) /\ code # Released(42) /\ code # Released(54)
      /\ code # Released(58)
  BY <1>1 DEF Released
<1> QED BY <1>1, <1>2 DEF Interrupt, Translate, FlagAfter, flags, CTRL_P, ALT_P, SHIL_P,
                          SHIR_P, CAP

LEMMA SaysStep ==
  ASSUME OrdinaryKeys \subseteq TableKeys, KInv, KeysMeanWhatTheySay, [Next]_vars
  PROVE  KeysMeanWhatTheySay'
<1>1. ASSUME UNCHANGED keyVars PROVE KeysMeanWhatTheySay'
  BY <1>1 DEF keyVars, flags, KeysMeanWhatTheySay, Down
<1>2. ASSUME event' = Nothing PROVE KeysMeanWhatTheySay'
  BY <1>2 DEF KeysMeanWhatTheySay, Nothing, Letters
<1>3. ASSUME NEW scan \in Nat, Interrupt(scan), scan >= GENL_R \/ scan \in ModifierCodes
      PROVE  event' = Nothing
  BY <1>3 DEF Interrupt, Translate, Means, IsModifier
<1>4. ASSUME NEW code \in OrdinaryKeys, Type(code) PROVE KeysMeanWhatTheySay'
  <2>1. UNCHANGED flags /\ held' = held /\ event' = Means(code)
    BY <1>4, OrdinaryKeepsFlags DEF Type, Interrupt, Translate
  <2>2. Says(Means(code))
    BY KeyTypes, MeansSays
  <2> QED BY <2>1, <2>2 DEF Says, KeysMeanWhatTheySay, Down, flags
<1>5. CASE \E k \in Modifiers : Press(k) \/ Release(k)
  BY <1>2, <1>3, <1>5, KeyTypes DEF Press, Release
<1>6. CASE \E code \in OrdinaryKeys : LetGo(code)
  BY <1>2, <1>3, <1>6, KeyTypes DEF LetGo
<1>7. CASE Extended
  <2>1. 224 \in Nat /\ 224 >= GENL_R
    BY DEF GENL_R
  <2> QED BY <1>2, <1>3, <1>7, <2>1 DEF Extended
<1>8. CASE UNCHANGED vars
  BY <1>1, <1>8 DEF vars, keyVars
<1> QED BY <1>1, <1>4, <1>5, <1>6, <1>7, <1>8 DEF Next

(* On a keyboard whose keys all have a cell in the table, a key that shares *)
(* its value with a command never stands for it, Enter and backspace mean   *)
(* themselves, and letters have the case of Shift and Caps Lock.            *)
THEOREM KeyMeanings ==
  ASSUME OrdinaryKeys \subseteq TableKeys
  PROVE  Spec => []KeysMeanWhatTheySay
<1> DEFINE I == KInv /\ KeysMeanWhatTheySay
<1>1. Init => I
  <2>1. Init => KInv
    BY DEF Init, Nothing, KInv, Typed, FlagsHeld
  <2>2. Init => KeysMeanWhatTheySay
    BY DEF Init, Nothing, KeysMeanWhatTheySay, Letters
  <2> QED BY <2>1, <2>2
<1>2. I /\ [Next]_vars => I'
  BY NextKInv, SaysStep
<1>3. I => KeysMeanWhatTheySay
  OBVIOUS
<1> HIDE DEF I
<1> QED BY <1>1, <1>2, <1>3, PTL DEF Spec

-----------------------------------------------------------------------------
(* The console.                                                             *)
LEMMA LeastElement ==
  ASSUME NEW T \in SUBSET Nat, T # {}
  PROVE  \E x \in T : \A y \in T : x <= y
<1> DEFINE R == OpToRel(<, Nat)
<1>1. IsWellFoundedOn(R, Nat)
  BY NatLessThanWellFounded
<1>2. \A x, y \in Nat : <<y, x>> \in R <=> y < x
  BY DEF OpToRel
<1> HIDE DEF R
<1>3. PICK x \in T : \A y \in T : ~(<<y, x>> \in R)
  BY <1>1, WFMin
<1>4. ASSUME NEW y \in T PROVE x <= y
  <2>1. ~(y < x)
    BY <1>2, <1>3
  <2> QED BY <2>1
<1> QED BY <1>4

-----------------------------------------------------------------------------
(* What printf puts out.  The recursion of PlacesOf is shown to define a    *)
(* function by a least number for which it does not.                        *)
Digits == {lookup[d + 1] : d \in 0 .. 15}
Printed == Digits \cup {"-", "c", "nl"}

LEMMA DigitsArePlain == "nl" \notin Digits /\ "0" \in Digits
  BY DEF Digits, lookup

(* The body of PlacesOf.                                                    *)
Place(f, n, radix) ==
  IF n = 0 THEN <<>> ELSE <<lookup[(n % radix) + 1]>> \o f[n \div radix]

LEMMA PlaceTyped ==
  ASSUME NEW radix \in {10, 16}, NEW n \in Nat, NEW f,
         n > 0 => f[n \div radix] \in Seq(Digits)
  PROVE  Place(f, n, radix) \in Seq(Digits)
<1>1. CASE n = 0
  BY <1>1, EmptySeq DEF Place
<1>2. CASE n > 0
  <2>1. n % radix \in 0 .. 15
    BY Z3
  <2>2. <<lookup[(n % radix) + 1]>> \in Seq(Digits)
    <3>1. lookup[(n % radix) + 1] \in Digits
      BY <2>1 DEF Digits
    <3> QED BY <3>1
  <2> QED BY <1>2, <2>2, ConcatProperties DEF Place
<1> QED BY <1>1, <1>2

LEMMA DivBelow ==
  ASSUME NEW radix \in {10, 16}, NEW n \in Nat, n > 0
  PROVE  n \div radix \in Nat /\ n \div radix < n
  BY Z3

Solves(g, N, radix) ==
  /\ g \in [0 .. N -> Seq(Digits)]
  /\ \A n \in 0 .. N : g[n] = Place(g, n, radix)

LEMMA Extends ==
  ASSUME NEW radix \in {10, 16}, NEW N \in Nat, NEW g, N > 0 => Solves(g, N - 1, radix)
  PROVE  \E h : Solves(h, N, radix)
<1> DEFINE h == [n \in 0 .. N |-> IF n = N THEN Place(g, N, radix) ELSE g[n]]
<1>1. ASSUME NEW n \in 0 .. N, n > 0
      PROVE  n \div radix \in 0 .. N - 1 /\ h[n \div radix] = g[n \div radix]
  <2>1. n \div radix \in Nat /\ n \div radix < n
    BY <1>1, DivBelow
  <2> QED BY <2>1
<1>2. Place(g, N, radix) \in Seq(Digits)
  <2>1. N > 0 => g[N \div radix] \in Seq(Digits)
    BY <1>1 DEF Solves
  <2> QED BY <2>1, PlaceTyped
<1>3. h \in [0 .. N -> Seq(Digits)]
  BY <1>2 DEF Solves
<1>4. ASSUME NEW n \in 0 .. N PROVE h[n] = Place(h, n, radix)
  <2>1. Place(g, n, radix) = Place(h, n, radix)
    BY <1>1 DEF Place
  <2>2. CASE n = N
    BY <2>1, <2>2
  <2>3. CASE n # N
    <3>1. n \in 0 .. N - 1 /\ N > 0
      BY <2>3
    <3>2. g[n] = Place(g, n, radix)
      BY <3>1 DEF Solves
    <3>3. h[n] = g[n]
      BY <2>3
    <3> QED BY <2>1, <3>2, <3>3
  <2> QED BY <2>2, <2>3
<1> HIDE DEF h
<1>5. Solves(h, N, radix)
  BY <1>3, <1>4 DEF Solves
<1> QED BY <1>5

LEMMA Solvable ==
  ASSUME NEW radix \in {10, 16}, NEW N \in Nat
  PROVE  \E g : Solves(g, N, radix)
<1> DEFINE T == {n \in Nat : ~ \E g : Solves(g, n, radix)}
<1>1. SUFFICES ASSUME T # {} PROVE FALSE
  OBVIOUS
<1>2. PICK x \in T : \A y \in T : x <= y
  <2>1. T \in SUBSET Nat
    OBVIOUS
  <2> HIDE DEF T
  <2> QED BY <1>1, <2>1, LeastElement
<1>3. \E g : x > 0 => Solves(g, x - 1, radix)
  <2>1. CASE x = 0
    BY <2>1
  <2>2. CASE x > 0
    <3>1. x - 1 \in Nat /\ ~(x <= x - 1)
      BY <2>2
    <3> QED BY <1>2, <3>1
  <2> QED BY <2>1, <2>2
<1>4. \E h : Solves(h, x, radix)
  BY <1>3, Extends
<1> QED BY <1>4

LEMMA PlacesEquation ==
  ASSUME NEW radix \in {10, 16}, NEW n \in 0 .. WordSize - 1
  PROVE  PlacesOf(radix)[n] = Place(PlacesOf(radix), n, radix)
<1> DEFINE N == WordSize - 1
           f == PlacesOf(radix)
<1>1. N \in Nat /\ n \in 0 .. N
  BY NumbersAssumption
<1>2. f = CHOOSE p : p = [k \in 0 .. N |-> Place(p, k, radix)]
  BY Zenon DEF PlacesOf, Place
<1> HIDE DEF f
<1>3. \E p : p = [k \in 0 .. N |-> Place(p, k, radix)]
  <2>1. PICK p : Solves(p, N, radix)
    BY <1>1, Solvable
  <2>2. p = [k \in 0 .. N |-> Place(p, k, radix)]
    BY <2>1 DEF Solves
  <2> QED BY <2>2
<1>4. f = [k \in 0 .. N |-> Place(f, k, radix)]
  BY <1>2, <1>3
<1> HIDE DEF N
<1>5. f[n] = Place(f, n, radix)
  BY <1>1, <1>4
<1> QED BY <1>5 DEF f

LEMMA PlacesTyped ==
  ASSUME NEW radix \in {10, 16}, NEW n \in 0 .. WordSize - 1
  PROVE  PlacesOf(radix)[n] \in Seq(Digits)
<1> DEFINE N == WordSize - 1
           f == PlacesOf(radix)
<1>1. N \in Nat /\ n \in 0 .. N
  BY NumbersAssumption
<1>2. \A k \in 0 .. N : f[k] = Place(f, k, radix)
  BY PlacesEquation
<1> HIDE DEF f, N
<1> DEFINE T == {k \in 0 .. N : f[k] \notin Seq(Digits)}
<1>3. SUFFICES ASSUME T # {} PROVE FALSE
  BY <1>1 DEF f
<1>4. PICK x \in T : \A y \in T : x <= y
  <2>1. T \in SUBSET Nat
    BY <1>1
  <2> HIDE DEF T
  <2> QED BY <1>3, <2>1, LeastElement
<1>5. x > 0 => f[x \div radix] \in Seq(Digits)
  <2>1. SUFFICES ASSUME x > 0 PROVE f[x \div radix] \in Seq(Digits)
    OBVIOUS
  <2>2. x \div radix \in Nat /\ x \div radix < x
    BY <1>1, <2>1, DivBelow
  <2>3. x \div radix \in 0 .. N /\ ~(x <= x \div radix)
    BY <1>1, <2>2
  <2> QED BY <1>4, <2>3
<1>6. f[x] = Place(f, x, radix)
  <2>1. x \in 0 .. N
    OBVIOUS
  <2> QED BY <1>2, <2>1
<1>7. f[x] \in Seq(Digits)
  <2>1. x \in Nat
    BY <1>1
  <2> HIDE DEF T
  <2>2. Place(f, x, radix) \in Seq(Digits)
    BY <1>5, <2>1, PlaceTyped
  <2> QED BY <1>6, <2>2
<1> QED BY <1>7

LEMMA ItoaTyped ==
  ASSUME NEW radix \in {10, 16}, NEW n \in 0 .. WordSize - 1
  PROVE  Itoa(n, radix) \in Seq(Digits)
<1>1. CASE n = 0
  BY <1>1, DigitsArePlain DEF Itoa
<1>2. CASE n # 0
  <2> DEFINE p == PlacesOf(radix)[n]
  <2>1. p \in Seq(Digits)
    BY PlacesTyped
  <2>2. Itoa(n, radix) = Reverse(p)
    BY <1>2 DEF Itoa
  <2> HIDE DEF p
  <2>3. Len(p) \in Nat /\ \A i \in 1 .. Len(p) : p[i] \in Digits
    BY <2>1, LenProperties, ElementOfSeq
  <2>4. \A i \in 1 .. Len(p) : p[(Len(p) - i) + 1] \in Digits
    BY <2>3
  <2>5. Reverse(p) \in [1 .. Len(p) -> Digits]
    BY <2>4 DEF Reverse
  <2> QED BY <2>2, <2>3, <2>5, SeqDef
<1> QED BY <1>1, <1>2

LEMMA ConvTyped ==
  ASSUME NEW conv \in Conversions, NEW value \in 0 .. WordSize - 1
  PROVE  Conv(conv, value) \in Seq(Digits \cup {"-"})
<1>1. \A radix \in {10, 16} : \A n \in 0 .. WordSize - 1 : Itoa(n, radix) \in Seq(Digits \cup {"-"})
  BY ItoaTyped, SeqMonotonic
<1>2. (WordSize - value) % WordSize \in 0 .. WordSize - 1
  BY NumbersAssumption, Z3
<1>3. CASE conv \in {"u", "x"}
  BY <1>1, <1>3 DEF Conv
<1>4. CASE conv = "d"
  <2>1. <<"-">> \in Seq(Digits \cup {"-"})
    OBVIOUS
  <2> QED BY <1>1, <1>2, <1>4, <2>1, ConcatProperties DEF Conv
<1>5. CASE conv = "#x"
  <2> DEFINE digits == Itoa(value, 16)
             n == HexDigits - Len(digits)
             zeros == [i \in 1 .. n |-> "0"]
  <2>1. digits \in Seq(Digits) /\ Len(digits) \in Nat
    BY ItoaTyped, LenProperties
  <2>2. zeros \in Seq(Digits)
    <3>1. n \in Int
      BY <2>1, NumbersAssumption
    <3> HIDE DEF n
    <3>2. CASE n >= 0
      BY <3>1, <3>2, DigitsArePlain, SeqDef
    <3>3. CASE n < 0
      <4>1. 1 .. n = 1 .. 0
        BY <3>1, <3>3
      <4>2. zeros \in [1 .. 0 -> Digits]
        BY <4>1
      <4> QED BY <4>2, SeqDef, ZenonT(60)
    <3> QED BY <3>1, <3>2, <3>3
  <2>3. Conv(conv, value) = zeros \o digits
    BY <1>5 DEF Conv
  <2> HIDE DEF zeros, digits
  <2>4. zeros \o digits \in Seq(Digits)
    BY <2>1, <2>2, ConcatProperties
  <2> QED BY <2>3, <2>4, SeqMonotonic
<1> QED BY <1>3, <1>4, <1>5 DEF Conversions

-----------------------------------------------------------------------------
(* What printf puts out reads back.  A recursion up from 0 defines a        *)
(* function, again by a least number for which it does not.                 *)
LEMMA Recursion ==
  ASSUME NEW start \in Nat, NEW N \in Nat, NEW step \in [1 .. N -> [Nat -> Nat]]
  PROVE  \E g \in [0 .. N -> Nat] :
           g[0] = start /\ \A i \in 1 .. N : g[i] = step[i][g[i - 1]]
<1> DEFINE Good(g, n) == /\ g \in [0 .. n -> Nat] /\ g[0] = start
                         /\ \A i \in 1 .. n : g[i] = step[i][g[i - 1]]
           T == {n \in 0 .. N : ~ \E g : Good(g, n)}
<1>1. SUFFICES ASSUME T # {} PROVE FALSE
  <2>1. N \in 0 .. N
    OBVIOUS
  <2> QED BY <2>1
<1>2. PICK x \in T : \A y \in T : x <= y
  <2>1. T \in SUBSET Nat
    OBVIOUS
  <2> HIDE DEF T
  <2> QED BY <1>1, <2>1, LeastElement
<1>3. x \in 0 .. N /\ ~ \E g : Good(g, x)
  OBVIOUS
<1>4. x # 0
  <2>1. Good([i \in 0 .. 0 |-> start], 0)
    OBVIOUS
  <2> QED BY <1>3, <2>1
<1>5. PICK g : Good(g, x - 1)
  <2>1. x - 1 \in 0 .. N /\ ~(x <= x - 1)
    BY <1>3, <1>4
  <2> HIDE DEF Good
  <2>2. x - 1 \notin T
    BY <1>2, <2>1
  <2> QED BY <2>1, <2>2
<1> DEFINE last == step[x][g[x - 1]]
           h == [i \in 0 .. x |-> IF i = x THEN last ELSE g[i]]
<1>6. last \in Nat
  <2>1. x \in 1 .. N /\ x - 1 \in 0 .. x - 1
    BY <1>3, <1>4
  <2>2. g[x - 1] \in Nat
    BY <1>5, <2>1
  <2> QED BY <2>1, <2>2
<1> HIDE DEF last
<1>7. h \in [0 .. x -> Nat] /\ h[0] = start
  <2>1. \A i \in 0 .. x : i = x \/ i \in 0 .. x - 1
    BY <1>3
  <2>2. g \in [0 .. x - 1 -> Nat] /\ g[0] = start
    BY <1>5
  <2>3. \A i \in 0 .. x : h[i] \in Nat
    BY <1>6, <2>1, <2>2
  <2>4. 0 \in 0 .. x
    BY <1>3
  <2> QED BY <1>4, <2>2, <2>3, <2>4
<1>8. ASSUME NEW i \in 1 .. x PROVE h[i] = step[i][h[i - 1]]
  <2>1. i - 1 \in 0 .. x - 1 /\ h[i - 1] = g[i - 1]
    BY <1>3, <1>8
  <2>2. CASE i = x
    BY <1>3, <2>1, <2>2 DEF last
  <2>3. CASE i # x
    <3>1. i \in 1 .. x - 1
      BY <1>3, <2>3
    <3>2. g[i] = step[i][g[i - 1]]
      BY <1>5, <3>1
    <3>3. h[i] = g[i]
      BY <2>3
    <3> QED BY <2>1, <3>2, <3>3
  <2> QED BY <2>2, <2>3
<1> HIDE DEF h
<1>9. Good(h, x)
  BY <1>7, <1>8
<1> QED BY <1>3, <1>9

LEMMA DigitsRead ==
  /\ \A d \in 0 .. 15 : DigitOf(lookup[d + 1]) = d
  /\ \A c \in Digits : DigitOf(c) \in 0 .. 15 /\ c # "-"
<1>1. \A d, e \in 0 .. 15 : lookup[d + 1] = lookup[e + 1] => d = e
  BY DEF lookup
<1>2. \A d \in 0 .. 15 : DigitOf(lookup[d + 1]) = d
  BY <1>1 DEF DigitOf
<1>3. \A d \in 0 .. 15 : lookup[d + 1] # "-"
  BY DEF lookup
<1> QED BY <1>2, <1>3 DEF Digits

(* The partial sums of Unsigned.                                            *)
Sums(g, text, radix) ==
  /\ g \in [0 .. Len(text) -> Nat] /\ g[0] = 0
  /\ \A i \in 1 .. Len(text) : g[i] = (g[i - 1] * radix) + DigitOf(text[i])

LEMMA UnsignedSums ==
  ASSUME NEW radix \in {10, 16}, NEW text \in Seq(Digits)
  PROVE  \E g : Sums(g, text, radix) /\ Unsigned(text, radix) = g[Len(text)]
<1> DEFINE N == Len(text)
           f == CHOOSE r : r = [i \in 0 .. N |->
                                  IF i = 0 THEN 0 ELSE (r[i - 1] * radix) + DigitOf(text[i])]
<1>1. N \in Nat /\ \A i \in 1 .. N : text[i] \in Digits
  BY LenProperties, ElementOfSeq
<1>2. Unsigned(text, radix) = f[N]
  BY Zenon DEF Unsigned
<1> HIDE DEF N
<1> DEFINE step == [i \in 1 .. N |-> [a \in Nat |-> (a * radix) + DigitOf(text[i])]]
<1>3. step \in [1 .. N -> [Nat -> Nat]]
  <2>1. \A a \in Nat : a * radix \in Nat
    OBVIOUS
  <2>2. ASSUME NEW i \in 1 .. N PROVE DigitOf(text[i]) \in Nat
    <3>1. DigitOf(text[i]) \in 0 .. 15
      BY <1>1, DigitsRead
    <3> QED BY <3>1
  <2>3. \A i \in 1 .. N : \A a \in Nat : (a * radix) + DigitOf(text[i]) \in Nat
    BY <2>1, <2>2
  <2> QED BY <2>3
<1>4. \A a \in Nat : \A i \in 1 .. N : step[i][a] = (a * radix) + DigitOf(text[i])
  BY <1>1
<1> HIDE DEF step
<1>5. PICK g \in [0 .. N -> Nat] : g[0] = 0 /\ \A i \in 1 .. N : g[i] = step[i][g[i - 1]]
  <2> DEFINE zero == 0
  <2>1. zero \in Nat /\ N \in Nat
    BY <1>1
  <2> HIDE DEF zero
  <2>2. \E g \in [0 .. N -> Nat] : g[0] = zero /\ \A i \in 1 .. N : g[i] = step[i][g[i - 1]]
    BY <1>3, <2>1, Recursion, ZenonT(60)
  <2> QED BY <2>2 DEF zero
<1>6. \A i \in 1 .. N : g[i] = (g[i - 1] * radix) + DigitOf(text[i])
  <2>1. \A i \in 1 .. N : g[i - 1] \in Nat
    BY <1>1
  <2> QED BY <1>4, <1>5, <2>1
<1>7. g = [i \in 0 .. N |-> IF i = 0 THEN 0 ELSE (g[i - 1] * radix) + DigitOf(text[i])]
  BY <1>1, <1>5, <1>6
<1>8. f = [i \in 0 .. N |-> IF i = 0 THEN 0 ELSE (f[i - 1] * radix) + DigitOf(text[i])]
  BY <1>7
<1> HIDE DEF f
<1>9. f[0] = 0 /\ \A i \in 1 .. N : f[i] = (f[i - 1] * radix) + DigitOf(text[i])
  BY <1>1, <1>8
<1> DEFINE T == {i \in 0 .. N : f[i] # g[i]}
<1>10. T = {}
  <2>1. SUFFICES ASSUME T # {} PROVE FALSE
    OBVIOUS
  <2>2. PICK x \in T : \A y \in T : x <= y
    <3>1. T \in SUBSET Nat
      BY <1>1
    <3> HIDE DEF T
    <3> QED BY <2>1, <3>1, LeastElement
  <2>3. x \in 1 .. N
    BY <1>1, <1>5, <1>9
  <2>4. x - 1 \in 0 .. N /\ ~(x <= x - 1)
    BY <1>1, <2>3
  <2>5. f[x - 1] = g[x - 1]
    BY <2>2, <2>4
  <2> QED BY <1>6, <1>9, <2>3, <2>5
<1>11. f[N] = g[N]
  <2>1. N \in 0 .. N
    BY <1>1
  <2> QED BY <1>10, <2>1
<1> QED BY <1>2, <1>5, <1>6, <1>11 DEF Sums, N

(* The digits of a text stand in a longer one, after m others.              *)
StandsIn(text, longer, m) ==
  /\ text \in Seq(Digits) /\ longer \in Seq(Digits) /\ m \in Nat
  /\ m + Len(text) <= Len(longer)
  /\ \A i \in 1 .. Len(text) : longer[m + i] = text[i]

LEMMA SumsAgree ==
  ASSUME NEW radix \in {10, 16}, NEW text, NEW longer, NEW m, StandsIn(text, longer, m),
         NEW g, Sums(g, text, radix), NEW h, Sums(h, longer, radix), h[m] = 0
  PROVE  \A i \in 0 .. Len(text) : h[m + i] = g[i]
<1> DEFINE N == Len(text)
           T == {i \in 0 .. N : h[m + i] # g[i]}
<1>1. N \in Nat /\ Len(longer) \in Nat /\ m \in Nat /\ m + N <= Len(longer)
  BY LenProperties DEF StandsIn
<1>2. SUFFICES ASSUME T # {} PROVE FALSE
  OBVIOUS
<1>3. PICK x \in T : \A y \in T : x <= y
  <2>1. T \in SUBSET Nat
    BY <1>1
  <2> HIDE DEF T
  <2> QED BY <1>2, <2>1, LeastElement
<1>4. x \in 0 .. N /\ h[m + x] # g[x]
  OBVIOUS
<1> HIDE DEF N
<1>5. x \in 1 .. N
  <2>1. m + 0 = m
    BY <1>1
  <2> QED BY <1>1, <1>4, <2>1 DEF Sums
<1>6. h[m + (x - 1)] = g[x - 1]
  <2>1. x - 1 \in 0 .. N /\ ~(x <= x - 1)
    BY <1>1, <1>5
  <2>2. x - 1 \notin T
    BY <1>3, <2>1
  <2> QED BY <2>1, <2>2
<1> HIDE DEF T
<1>7. m + x \in 1 .. Len(longer) /\ (m + x) - 1 = m + (x - 1)
  BY <1>1, <1>5
<1>8. h[m + x] = (h[m + (x - 1)] * radix) + DigitOf(longer[m + x])
  BY <1>7 DEF Sums
<1>9. g[x] = (g[x - 1] * radix) + DigitOf(text[x]) /\ longer[m + x] = text[x]
  BY <1>5 DEF Sums, StandsIn, N
<1> QED BY <1>4, <1>6, <1>8, <1>9

LEMMA UnsignedEmpty == \A radix \in {10, 16} : Unsigned(<<>>, radix) = 0
<1> SUFFICES ASSUME NEW radix \in {10, 16} PROVE Unsigned(<<>>, radix) = 0
  OBVIOUS
<1>1. <<>> \in Seq(Digits) /\ Len(<<>>) = 0
  OBVIOUS
<1>2. PICK g : Sums(g, <<>>, radix) /\ Unsigned(<<>>, radix) = g[Len(<<>>)]
  BY <1>1, UnsignedSums
<1> QED BY <1>1, <1>2 DEF Sums

(* One more digit.                                                          *)
LEMMA UnsignedAppend ==
  ASSUME NEW radix \in {10, 16}, NEW text \in Seq(Digits), NEW c \in Digits
  PROVE  /\ Unsigned(text, radix) \in Nat
         /\ Unsigned(Append(text, c), radix) = (Unsigned(text, radix) * radix) + DigitOf(c)
<1> DEFINE N == Len(text)
           longer == Append(text, c)
<1>1. /\ longer \in Seq(Digits) /\ Len(longer) = N + 1 /\ longer[N + 1] = c
      /\ \A i \in 1 .. N : longer[i] = text[i]
  BY AppendProperties
<1>2. N \in Nat
  BY LenProperties
<1> HIDE DEF longer
<1>3. PICK g : Sums(g, text, radix) /\ Unsigned(text, radix) = g[N]
  BY UnsignedSums
<1>4. PICK h : Sums(h, longer, radix) /\ Unsigned(longer, radix) = h[N + 1]
  BY <1>1, UnsignedSums
<1>5. \A i \in 0 .. N : h[0 + i] = g[i]
  <2>1. h[0] = 0
    BY <1>4 DEF Sums
  <2>2. StandsIn(text, longer, 0)
    BY <1>1, <1>2 DEF StandsIn
  <2> HIDE DEF N
  <2>3. \A i \in 0 .. Len(text) : h[0 + i] = g[i]
    BY <1>3, <1>4, <2>1, <2>2, SumsAgree
  <2> QED BY <2>3 DEF N
<1>6. h[N] = g[N] /\ g[N] \in Nat
  <2>1. N \in 0 .. N /\ 0 + N = N
    BY <1>2
  <2>2. g \in [0 .. N -> Nat]
    BY <1>3 DEF Sums
  <2> QED BY <1>5, <2>1, <2>2
<1> HIDE DEF N
<1>7. h[N + 1] = (h[N] * radix) + DigitOf(c)
  <2>1. N + 1 \in 1 .. Len(longer) /\ (N + 1) - 1 = N
    BY <1>1, <1>2
  <2>2. h[N + 1] = (h[(N + 1) - 1] * radix) + DigitOf(longer[N + 1])
    BY <1>4, <2>1 DEF Sums
  <2> QED BY <1>1, <2>1, <2>2
<1> QED BY <1>3, <1>4, <1>6, <1>7 DEF longer

(* The zeros before a hexadecimal number.                                   *)
LEMMA LeadingZeros ==
  ASSUME NEW radix \in {10, 16}, NEW zeros \in Seq(Digits), NEW text \in Seq(Digits),
         \A i \in 1 .. Len(zeros) : zeros[i] = "0"
  PROVE  Unsigned(zeros \o text, radix) = Unsigned(text, radix)
<1> DEFINE m == Len(zeros)
           N == Len(text)
           longer == zeros \o text
<1>1. /\ longer \in Seq(Digits) /\ Len(longer) = m + N
      /\ \A i \in 1 .. m + N : longer[i] = IF i <= m THEN zeros[i] ELSE text[i - m]
  BY ConcatProperties
<1>2. m \in Nat /\ N \in Nat
  BY LenProperties
<1> HIDE DEF longer
<1>3. PICK g : Sums(g, text, radix) /\ Unsigned(text, radix) = g[N]
  BY UnsignedSums
<1>4. PICK h : Sums(h, longer, radix) /\ Unsigned(longer, radix) = h[m + N]
  BY <1>1, UnsignedSums
<1> HIDE DEF m, N
<1>5. DigitOf("0") = 0
  <2>1. 0 \in 0 .. 15 /\ lookup[0 + 1] = "0"
    BY DEF lookup
  <2> QED BY <2>1, DigitsRead
<1>6. \A i \in 1 .. m : h[i] = (h[i - 1] * radix) + 0
  <2>1. \A i \in 1 .. m : i \in 1 .. Len(longer) /\ longer[i] = "0"
    BY <1>1, <1>2 DEF m
  <2> QED BY <1>4, <1>5, <2>1 DEF Sums
<1>7. h[m] = 0
  <2> DEFINE T == {i \in 0 .. m : h[i] # 0}
  <2>1. SUFFICES ASSUME T # {} PROVE FALSE
    <3>1. m \in 0 .. m
      BY <1>2
    <3> QED BY <3>1
  <2>2. PICK x \in T : \A y \in T : x <= y
    <3>1. T \in SUBSET Nat
      BY <1>2
    <3> HIDE DEF T
    <3> QED BY <2>1, <3>1, LeastElement
  <2>3. x \in 1 .. m
    BY <1>2, <1>4 DEF Sums
  <2>4. x - 1 \in 0 .. m /\ ~(x <= x - 1)
    BY <1>2, <2>3
  <2>5. h[x - 1] = 0
    BY <2>2, <2>4
  <2> QED BY <1>6, <2>3, <2>5
<1>8. \A i \in 0 .. N : h[m + i] = g[i]
  <2>1. m + Len(text) <= Len(longer)
    BY <1>1, <1>2 DEF N
  <2>2. \A i \in 1 .. Len(text) : longer[m + i] = text[i]
    <3>1. \A i \in 1 .. N : m + i \in 1 .. m + N /\ ~(m + i <= m) /\ (m + i) - m = i
      BY <1>2
    <3> QED BY <1>1, <3>1 DEF N
  <2>3. StandsIn(text, longer, m)
    BY <1>1, <1>2, <2>1, <2>2 DEF StandsIn
  <2>4. \A i \in 0 .. Len(text) : h[m + i] = g[i]
    BY <1>3, <1>4, <1>7, <2>3, SumsAgree
  <2> QED BY <2>4 DEF N
<1>9. N \in 0 .. N
  BY <1>2
<1> QED BY <1>3, <1>4, <1>8, <1>9 DEF longer

(* itoa: the places from the lowest up, turned round, are the number.       *)
LEMMA ReverseOf ==
  ASSUME NEW S, NEW s \in Seq(S), NEW e \in S
  PROVE  /\ Reverse(s) \in Seq(S) /\ Len(Reverse(s)) = Len(s)
         /\ Reverse(<<e>> \o s) = Append(Reverse(s), e)
<1> DEFINE n == Len(s)
           l == <<e>> \o s
           r == Reverse(s)
<1>1. n \in Nat /\ \A i \in 1 .. n : s[i] \in S
  BY LenProperties, ElementOfSeq
<1>2. r \in Seq(S) /\ Len(r) = n /\ \A i \in 1 .. n : r[i] = s[(n - i) + 1]
  <2>1. \A i \in 1 .. n : s[(n - i) + 1] \in S
    BY <1>1
  <2>2. r = [i \in 1 .. n |-> s[(n - i) + 1]]
    BY DEF Reverse
  <2> HIDE DEF n
  <2>3. r \in [1 .. n -> S]
    BY <2>1, <2>2
  <2>4. r \in Seq(S)
    BY <1>1, <2>3, SeqDef
  <2>5. Len(r) = n
    BY <1>1, <2>3, <2>4, LenProperties
  <2> QED BY <2>2, <2>4, <2>5
<1>3. l \in Seq(S) /\ Len(l) = n + 1 /\ l[1] = e /\ \A i \in 2 .. n + 1 : l[i] = s[i - 1]
  <2>1. <<e>> \in Seq(S) /\ Len(<<e>>) = 1 /\ <<e>>[1] = e
    OBVIOUS
  <2> DEFINE h == <<e>>
  <2> HIDE DEF h
  <2>2. /\ h \o s \in Seq(S) /\ Len(h \o s) = 1 + n
        /\ \A i \in 1 .. 1 + n : (h \o s)[i] = IF i <= 1 THEN h[i] ELSE s[i - 1]
    BY <2>1, ConcatProperties DEF h
  <2> QED BY <1>1, <2>1, <2>2 DEF h
<1> HIDE DEF l
<1>4. Reverse(l) = [i \in 1 .. n + 1 |-> l[((n + 1) - i) + 1]]
  BY <1>3 DEF Reverse
<1> HIDE DEF r
<1>5. /\ Append(r, e) \in [1 .. n + 1 -> S] /\ Append(r, e)[n + 1] = e
      /\ \A i \in 1 .. n : Append(r, e)[i] = r[i]
  <2>1. Append(r, e) \in Seq(S) /\ Len(Append(r, e)) = n + 1
    BY <1>2, AppendProperties
  <2>2. Append(r, e) \in [1 .. n + 1 -> S]
    BY <2>1, LenProperties
  <2> QED BY <1>2, <2>2, AppendProperties
<1> HIDE DEF n
<1>6. ASSUME NEW i \in 1 .. n + 1 PROVE l[((n + 1) - i) + 1] = Append(r, e)[i]
  <2>1. CASE i = n + 1
    BY <1>1, <1>3, <1>5, <2>1
  <2>2. CASE i # n + 1
    <3>1. i \in 1 .. n /\ ((n + 1) - i) + 1 \in 2 .. n + 1 /\ (((n + 1) - i) + 1) - 1 = (n - i) + 1
      BY <1>1, <2>2
    <3> QED BY <1>2, <1>3, <1>5, <3>1, ZenonT(60)
  <2> QED BY <2>1, <2>2
<1>7. Reverse(l) = Append(r, e)
  BY <1>4, <1>5, <1>6
<1> QED BY <1>2, <1>7 DEF l, r, n

LEMMA PlacesRead ==
  ASSUME NEW radix \in {10, 16}, NEW n \in 0 .. WordSize - 1
  PROVE  Unsigned(Reverse(PlacesOf(radix)[n]), radix) = n
<1> DEFINE N == WordSize - 1
           f == PlacesOf(radix)
           T == {k \in 0 .. N : Unsigned(Reverse(f[k]), radix) # k}
<1>1. N \in Nat /\ n \in 0 .. N
  BY NumbersAssumption
<1>2. \A k \in 0 .. N : f[k] = Place(f, k, radix) /\ f[k] \in Seq(Digits)
  BY PlacesEquation, PlacesTyped
<1>3. SUFFICES ASSUME T # {} PROVE FALSE
  BY <1>1
<1> HIDE DEF f, N
<1>4. PICK x \in T : \A y \in T : x <= y
  <2>1. T \in SUBSET Nat
    BY <1>1
  <2> HIDE DEF T
  <2> QED BY <1>3, <2>1, LeastElement
<1>5. x \in 0 .. N /\ Unsigned(Reverse(f[x]), radix) # x
  OBVIOUS
<1>6. x # 0
  <2>1. SUFFICES ASSUME x = 0 PROVE FALSE
    OBVIOUS
  <2>2. f[x] = <<>>
    BY <1>2, <1>5, <2>1 DEF Place
  <2>3. Reverse(<<>>) = <<>>
    BY DEF Reverse
  <2> QED BY <1>5, <2>1, <2>2, <2>3, UnsignedEmpty
<1> DEFINE k == x \div radix
           d == x % radix
<1>7. k \in 0 .. N /\ k < x
  BY <1>1, <1>5, <1>6, DivBelow
<1>8. d \in 0 .. 15 /\ x = (k * radix) + d
  <2>1. x \in Nat
    BY <1>1, <1>5
  <2>2. CASE radix = 10
    BY <2>1, <2>2, Z3
  <2>3. CASE radix = 16
    BY <2>1, <2>3, Z3
  <2> QED BY <2>2, <2>3
<1>9. f[x] = <<lookup[d + 1]>> \o f[k]
  BY <1>2, <1>5, <1>6 DEF Place
<1> HIDE DEF k, d
<1>10. Unsigned(Reverse(f[k]), radix) = k
  <2>1. ~(x <= k)
    BY <1>1, <1>5, <1>7
  <2>2. k \notin T
    BY <1>4, <2>1
  <2> QED BY <1>7, <2>2
<1>11. lookup[d + 1] \in Digits /\ DigitOf(lookup[d + 1]) = d
  BY <1>8, DigitsRead DEF Digits
<1>12. Reverse(f[k]) \in Seq(Digits) /\ Reverse(f[x]) = Append(Reverse(f[k]), lookup[d + 1])
  BY <1>2, <1>7, <1>9, <1>11, ReverseOf
<1>13. Unsigned(Reverse(f[x]), radix) = (k * radix) + d
  BY <1>10, <1>11, <1>12, UnsignedAppend
<1> QED BY <1>5, <1>8, <1>13

LEMMA ItoaReads ==
  ASSUME NEW radix \in {10, 16}, NEW n \in 0 .. WordSize - 1
  PROVE  /\ Unsigned(Itoa(n, radix), radix) = n
         /\ Itoa(n, radix) # <<>> /\ Head(Itoa(n, radix)) # "-"
<1> DEFINE digits == Itoa(n, radix)
<1>1. digits \in Seq(Digits)
  BY ItoaTyped
<1>2. Unsigned(digits, radix) = n /\ digits # <<>>
  <2>1. CASE n = 0
    <3>1. "0" \in Digits /\ DigitOf("0") = 0
      <4>1. 0 \in 0 .. 15 /\ lookup[0 + 1] = "0"
        BY DEF lookup
      <4> QED BY <4>1, DigitsRead, DigitsArePlain
    <3>2. digits = <<"0">> /\ <<"0">> = Append(<<>>, "0") /\ <<>> \in Seq(Digits)
      BY <2>1 DEF Itoa
    <3>3. Unsigned(Append(<<>>, "0"), radix) = (Unsigned(<<>>, radix) * radix) + DigitOf("0")
      BY <3>1, <3>2, UnsignedAppend
    <3> QED BY <2>1, <3>1, <3>2, <3>3, UnsignedEmpty
  <2>2. CASE n # 0
    <3>1. Unsigned(digits, radix) = n
      BY <2>2, PlacesRead DEF Itoa
    <3> QED BY <2>2, <3>1, UnsignedEmpty
  <2> QED BY <2>1, <2>2
<1>3. Head(digits) # "-"
  <2> HIDE DEF digits
  <2>1. Head(digits) \in Digits
    BY <1>1, <1>2, HeadTailProperties
  <2> QED BY <2>1, DigitsRead
<1> QED BY <1>2, <1>3

(* A word has no more hexadecimal digits than %#x has room for.             *)
LEMMA HexWordsGrow ==
  /\ HexWords \in [0 .. HexDigits -> Nat] /\ HexWords[0] = 1
  /\ \A k \in 1 .. HexDigits : HexWords[k] = 16 * HexWords[k - 1]
<1> DEFINE step == [i \in 1 .. HexDigits |-> [a \in Nat |-> 16 * a]]
<1>1. HexDigits \in Nat /\ step \in [1 .. HexDigits -> [Nat -> Nat]] /\ 1 \in Nat
  BY NumbersAssumption
<1>2. \A i \in 1 .. HexDigits : \A a \in Nat : step[i][a] = 16 * a
  OBVIOUS
<1> HIDE DEF step
<1>3. PICK g \in [0 .. HexDigits -> Nat] :
        g[0] = 1 /\ \A i \in 1 .. HexDigits : g[i] = step[i][g[i - 1]]
  BY <1>1, Recursion
<1>4. \A i \in 1 .. HexDigits : g[i] = 16 * g[i - 1]
  <2>1. \A i \in 1 .. HexDigits : g[i - 1] \in Nat
    BY <1>1
  <2> QED BY <1>2, <1>3, <2>1
<1>5. g = [k \in 0 .. HexDigits |-> IF k = 0 THEN 1 ELSE 16 * g[k - 1]]
  BY <1>1, <1>3, <1>4
<1>6. HexWords = [k \in 0 .. HexDigits |-> IF k = 0 THEN 1 ELSE 16 * HexWords[k - 1]]
  BY <1>5 DEF HexWords
<1>7. /\ HexWords[0] = 1
      /\ \A k \in 1 .. HexDigits : HexWords[k] = 16 * HexWords[k - 1]
  <2>1. \A k \in 0 .. HexDigits :
          HexWords[k] = IF k = 0 THEN 1 ELSE 16 * HexWords[k - 1]
    BY <1>6, Zenon
  <2> QED BY <1>1, <2>1
<1> DEFINE T == {k \in 0 .. HexDigits : HexWords[k] \notin Nat}
<1>8. T = {}
  <2>1. SUFFICES ASSUME T # {} PROVE FALSE
    OBVIOUS
  <2>2. PICK x \in T : \A y \in T : x <= y
    <3>1. T \in SUBSET Nat
      BY <1>1
    <3> HIDE DEF T
    <3> QED BY <2>1, <3>1, LeastElement
  <2>3. x \in 1 .. HexDigits
    BY <1>1, <1>7
  <2>4. x - 1 \in 0 .. HexDigits /\ ~(x <= x - 1)
    BY <1>1, <2>3
  <2>5. HexWords[x - 1] \in Nat
    BY <2>2, <2>4
  <2> QED BY <1>7, <2>3, <2>5
<1>9. \A k \in 0 .. HexDigits : HexWords[k] \in Nat
  BY <1>8
<1> QED BY <1>6, <1>7, <1>9

LEMMA HexLength ==
  ASSUME NEW n \in 0 .. WordSize - 1
  PROVE  Len(Itoa(n, 16)) \in 1 .. HexDigits
<1> DEFINE N == WordSize - 1
           f == PlacesOf(16)
           T == {k \in 0 .. N : \E i \in 0 .. HexDigits : k < HexWords[i] /\ Len(f[k]) > i}
<1>1. N \in Nat /\ n \in 0 .. N /\ HexDigits \in Nat \ {0} /\ N < HexWords[HexDigits]
  <2>1. HexWords[HexDigits] \in Nat
    BY NumbersAssumption, HexWordsGrow
  <2> QED BY <2>1, NumbersAssumption
<1>2. \A k \in 0 .. N : f[k] = Place(f, k, 16) /\ f[k] \in Seq(Digits)
  BY PlacesEquation, PlacesTyped
<1> HIDE DEF f, N
<1>3. T = {}
  <2>1. SUFFICES ASSUME T # {} PROVE FALSE
    OBVIOUS
  <2>2. PICK x \in T : \A y \in T : x <= y
    <3>1. T \in SUBSET Nat
      BY <1>1
    <3> HIDE DEF T
    <3> QED BY <2>1, <3>1, LeastElement
  <2>3. x \in 0 .. N
    OBVIOUS
  <2>4. PICK i \in 0 .. HexDigits : x < HexWords[i] /\ Len(f[x]) > i
    OBVIOUS
  <2>5. x # 0
    <3>1. SUFFICES ASSUME x = 0 PROVE FALSE
      OBVIOUS
    <3>2. f[x] = <<>>
      BY <1>2, <2>3, <3>1 DEF Place
    <3> QED BY <1>1, <2>4, <3>2
  <2>6. i # 0
    BY <1>1, <2>3, <2>4, <2>5, HexWordsGrow
  <2> DEFINE k == x \div 16
  <2>7. k \in 0 .. N /\ k < x /\ 16 * k <= x
    BY <1>1, <2>3, <2>5, Z3
  <2>8. f[x] = <<lookup[(x % 16) + 1]>> \o f[k]
    BY <1>2, <2>3, <2>5 DEF Place
  <2> HIDE DEF k, T
  <2>9. i - 1 \in 0 .. HexDigits /\ k < HexWords[i - 1]
    <3>1. i \in 1 .. HexDigits /\ i - 1 \in 0 .. HexDigits
      BY <1>1, <2>6
    <3>2. HexWords[i] = 16 * HexWords[i - 1] /\ HexWords[i - 1] \in Nat
      BY <3>1, HexWordsGrow
    <3> QED BY <1>1, <2>3, <2>4, <2>7, <3>1, <3>2
  <2>10. Len(f[x]) = 1 + Len(f[k]) /\ Len(f[k]) \in Nat
    <3> DEFINE e == lookup[(x % 16) + 1]
    <3>1. (x % 16) \in 0 .. 15
      BY <1>1, <2>3, Z3
    <3>2. e \in Digits /\ f[k] \in Seq(Digits)
      BY <1>2, <2>7, <3>1 DEF Digits
    <3> HIDE DEF e
    <3>3. <<e>> \in Seq(Digits) /\ Len(<<e>>) = 1
      BY <3>2
    <3>4. Len(<<e>> \o f[k]) = Len(<<e>>) + Len(f[k])
      BY <3>2, <3>3, ConcatProperties
    <3> QED BY <2>8, <3>2, <3>3, <3>4, LenProperties DEF e
  <2>11. k \notin T
    BY <1>1, <2>2, <2>3, <2>7
  <2>12. ~(Len(f[k]) > i - 1)
    BY <2>7, <2>9, <2>11 DEF T
  <2> QED BY <1>1, <2>4, <2>10, <2>12
<1>4. Len(f[n]) <= HexDigits
  <2>1. HexDigits \in 0 .. HexDigits /\ n < HexWords[HexDigits]
    <3>1. HexWords[HexDigits] \in Nat
      BY <1>1, HexWordsGrow
    <3> QED BY <1>1, <3>1
  <2>2. Len(f[n]) \in Nat
    BY <1>1, <1>2, LenProperties
  <2> QED BY <1>1, <1>3, <2>1, <2>2
<1>5. Len(Itoa(n, 16)) <= HexDigits
  <2>1. CASE n = 0
    BY <1>1, <2>1 DEF Itoa
  <2>2. CASE n # 0
    <3>1. \A e \in Digits : Len(Reverse(f[n])) = Len(f[n])
      BY <1>1, <1>2, ReverseOf
    <3>2. Len(Itoa(n, 16)) = Len(f[n])
      BY <2>2, <3>1, DigitsArePlain DEF Itoa, f
    <3> QED BY <1>4, <3>2
  <2> QED BY <2>1, <2>2
<1>6. Len(Itoa(n, 16)) \in Nat \ {0}
  <2>1. Itoa(n, 16) \in Seq(Digits) /\ Itoa(n, 16) # <<>>
    BY ItoaTyped, ItoaReads
  <2> QED BY <2>1, EmptySeq, LenProperties
<1> QED BY <1>1, <1>5, <1>6

LEMMA SignRead ==
  ASSUME NEW S, NEW s \in Seq(S), NEW e
  PROVE  Head(<<e>> \o s) = e /\ Tail(<<e>> \o s) = s
<1> DEFINE A == S \cup {e}
           h == <<e>>
           n == Len(s)
<1>1. s \in Seq(A) /\ n \in Nat
  BY SeqMonotonic, LenProperties
<1>2. h \in Seq(A) /\ Len(h) = 1 /\ h[1] = e
  OBVIOUS
<1> HIDE DEF A, h
<1>3. /\ h \o s \in Seq(A) /\ Len(h \o s) = n + 1
      /\ \A i \in 1 .. n + 1 : (h \o s)[i] = IF i <= 1 THEN h[i] ELSE s[i - 1]
  <2>1. /\ h \o s \in Seq(A) /\ Len(h \o s) = Len(h) + Len(s)
        /\ \A i \in 1 .. Len(h) + Len(s) :
             (h \o s)[i] = IF i <= Len(h) THEN h[i] ELSE s[i - Len(h)]
    BY <1>1, <1>2, ConcatProperties
  <2>2. Len(h) + Len(s) = n + 1
    BY <1>1, <1>2
  <2> QED BY <1>2, <2>1, <2>2
<1> DEFINE l == h \o s
<1> HIDE DEF l, n
<1>4. l \in Seq(A) /\ Len(l) = n + 1 /\ l[1] = e /\ \A i \in 1 .. n : l[i + 1] = s[i]
  BY <1>1, <1>2, <1>3 DEF l
<1>5. l # <<>>
  BY <1>1, <1>4, EmptySeq
<1>6. /\ Head(l) = e /\ Tail(l) \in Seq(A) /\ Len(Tail(l)) = n
      /\ \A i \in 1 .. n : Tail(l)[i] = s[i]
  BY <1>1, <1>4, <1>5, HeadTailProperties
<1>7. Tail(l) = s
  BY <1>1, <1>6, SeqEqual DEF n
<1> QED BY <1>6, <1>7 DEF l, h

LEMMA ConvReads ==
  ASSUME NEW conv \in Conversions, NEW value \in 0 .. WordSize - 1
  PROVE  /\ Reads(conv, Conv(conv, value)) = value
         /\ conv = "d" => (Head(Conv(conv, value)) = "-" <=> 2 * value >= WordSize)
         /\ conv = "#x" => Len(Conv(conv, value)) = HexDigits
<1>1. WordSize \in Nat /\ value \in Nat /\ value < WordSize
      /\ (value >= WordSize \div 2 <=> 2 * value >= WordSize)
  BY NumbersAssumption, Z3
<1>2. CASE conv \in {"u", "x"} \/ (conv = "d" /\ ~(value >= WordSize \div 2))
  <2>1. Conv(conv, value) = Itoa(value, Radix(conv)) /\ Radix(conv) \in {10, 16}
    BY <1>2 DEF Conv, Radix
  <2>2. Head(Conv(conv, value)) # "-" /\ Unsigned(Conv(conv, value), Radix(conv)) = value
    BY <2>1, ItoaReads
  <2> QED BY <1>1, <1>2, <2>2 DEF Reads
<1>3. CASE conv = "d" /\ value >= WordSize \div 2
  <2> DEFINE m == (WordSize - value) % WordSize
             digits == Itoa(m, 10)
  <2>1. m \in 0 .. WordSize - 1 /\ WordSize - m = value
    <3>1. value # 0
      BY <1>1, <1>3, NumbersAssumption, Z3
    <3>2. m = WordSize - value
      BY <1>1, <3>1, Z3
    <3> QED BY <1>1, <3>1, <3>2
  <2>2. digits \in Seq(Digits) /\ Unsigned(digits, 10) = m
    BY <2>1, ItoaTyped, ItoaReads
  <2>3. Conv(conv, value) = <<"-">> \o digits
    BY <1>3 DEF Conv
  <2> HIDE DEF m, digits
  <2>4. Head(Conv(conv, value)) = "-" /\ Tail(Conv(conv, value)) = digits
    BY <2>2, <2>3, SignRead
  <2>5. Reads(conv, Conv(conv, value)) = value
    BY <2>1, <2>2, <2>4 DEF Reads
  <2> QED BY <1>1, <1>3, <2>4, <2>5
<1>4. CASE conv = "#x"
  <2> DEFINE digits == Itoa(value, 16)
             n == HexDigits - Len(digits)
             zeros == [i \in 1 .. n |-> "0"]
  <2>1. /\ digits \in Seq(Digits) /\ Len(digits) \in Nat /\ digits # <<>>
        /\ Unsigned(digits, 16) = value /\ Head(digits) # "-"
    BY ItoaTyped, ItoaReads, LenProperties
  <2>2. n \in Nat /\ n + Len(digits) = HexDigits
    BY <2>1, HexLength, NumbersAssumption
  <2>3. Conv(conv, value) = zeros \o digits
    BY <1>4 DEF Conv
  <2> HIDE DEF digits, n
  <2>4. zeros \in Seq(Digits) /\ Len(zeros) = n /\ \A i \in 1 .. n : zeros[i] = "0"
    <3>1. zeros \in [1 .. n -> Digits]
      BY DigitsArePlain
    <3> HIDE DEF zeros
    <3>2. zeros \in Seq(Digits)
      BY <2>2, <3>1, SeqDef
    <3>3. Len(zeros) = n
      BY <2>2, <3>1, <3>2, LenProperties
    <3> QED BY <3>2, <3>3 DEF zeros
  <2> HIDE DEF zeros
  <2> DEFINE l == zeros \o digits
  <2>5. l \in Seq(Digits) /\ Len(l) = HexDigits
    BY <2>1, <2>2, <2>4, ConcatProperties
  <2>6. Unsigned(l, 16) = value
    BY <2>1, <2>4, LeadingZeros
  <2> HIDE DEF l
  <2>7. Head(l) # "-"
    <3>1. l # <<>>
      BY <2>5, NumbersAssumption, EmptySeq
    <3>2. Head(l) \in Digits
      BY <2>5, <3>1, HeadTailProperties
    <3> QED BY <3>2, DigitsRead
  <2>8. Conv(conv, value) = l /\ Radix(conv) = 16
    BY <1>4, <2>3 DEF l, Radix
  <2> QED BY <1>4, <2>5, <2>6, <2>7, <2>8 DEF Reads
<1> QED BY <1>2, <1>3, <1>4 DEF Conversions

(* The number in the line under way is one of the boot loader's, in the     *)
(* digits printf gave it.                                                   *)
NumberPrinted ==
  \/ number = NoNumber
  \/ \E n \in Numbers :
       number = [conv |-> n.conv, value |-> n.value, digits |-> Conv(n.conv, n.value)]

LEMMA PrintedReads == NumberPrinted => NumbersReadBack
<1> SUFFICES ASSUME NEW n \in Numbers,
                    number = [conv |-> n.conv, value |-> n.value, digits |-> Conv(n.conv, n.value)]
             PROVE  NumbersReadBack
  BY DEF NumberPrinted, NumbersReadBack
<1>1. n.conv \in Conversions /\ n.value \in 0 .. WordSize - 1
  BY NumbersAssumption
<1>2. /\ number.conv = n.conv /\ number.value = n.value
      /\ number.digits = Conv(n.conv, n.value)
  OBVIOUS
<1> QED BY <1>1, <1>2, ConvReads DEF NumbersReadBack

(* What printf prints of a number reads back as that number, in every base, *)
(* for every word and every number of it: %u, %x, %#x with all its digits,  *)
(* and %d with a sign just for the words whose top bit is set.              *)
THEOREM NumbersRead == Spec => []NumbersReadBack
<1>1. Init => NumberPrinted
  BY DEF Init, ConsoleInit, NumberPrinted
<1>2. NumberPrinted /\ [Next]_vars => NumberPrinted'
  <2> SUFFICES ASSUME NumberPrinted, [Next]_vars PROVE NumberPrinted'
    OBVIOUS
  <2>1. CASE BootLine
    BY <2>1 DEF BootLine, NumberPrinted
  <2>2. CASE EnablingInterrupts
    BY <2>2 DEF EnablingInterrupts, NumberPrinted
  <2>3. CASE UNCHANGED number
    BY <2>3 DEF NumberPrinted
  <2>4. BootLine \/ EnablingInterrupts \/ UNCHANGED number
    BY DEF Next, Boot, Putc, Press, Release, Type, LetGo, Extended, Interrupt, vars, consoleVars
  <2> QED BY <2>1, <2>2, <2>3, <2>4
<1> QED BY <1>1, <1>2, PrintedReads, PTL DEF Spec

-----------------------------------------------------------------------------
(* The position.                                                            *)
EndsApart(text) == \A i \in 1 .. Len(text) - 1 : text[i] # "nl" \/ text[i + 1] # "nl"

Position ==
  /\ screen_x \in 0 .. NUM_COLS - 1 /\ screen_y \in 0 .. NUM_ROWS
  /\ out \in Seq(Printed) /\ EndsApart(out)
  /\ lines \in 0 .. BootLines
  /\ screen_y = NUM_ROWS => screen_x = 0 /\ out # <<>> /\ Head(out) # "nl"

(* A line of the start, which ends it, or a line pasted, which does not.    *)
Starting ==
  /\ out = <<>> => screen_y = lines
  /\ out # <<>> => screen_y = lines - 1
  /\ \A i \in 1 .. Len(out) : out[i] = "nl" <=> i = Len(out)
Pasting ==
  /\ lines = BootLines
  /\ out # <<>> => out[Len(out)] # "nl"

CInv == Position /\ (Starting \/ Pasting)

LEMMA Geometry == NUM_COLS \in Nat \ {0} /\ NUM_ROWS \in Nat \ {0}
  BY ScreenAssumption

LEMMA NewLineDown ==
  ASSUME BootLines < NUM_ROWS, CInv, Putc, NewLine
  PROVE  CInv'
<1> DEFINE n == Len(out)
<1>1. /\ out # <<>> /\ out' = Tail(out) /\ lines' = lines
      /\ screen_y' = screen_y + 1 /\ screen_x' = 0
  BY DEF Putc, Quiet
<1>2. /\ out \in Seq(Printed) /\ n \in Nat /\ n > 0 /\ out[1] = "nl"
      /\ screen_y < NUM_ROWS
  <2>1. out \in Seq(Printed) /\ screen_y \in 0 .. NUM_ROWS /\ Head(out) = "nl"
    BY DEF CInv, Position, NewLine
  <2>2. screen_y # NUM_ROWS
    BY <2>1 DEF CInv, Position
  <2> QED BY <1>1, <2>1, <2>2, Geometry, EmptySeq
<1>3. /\ out' \in Seq(Printed) /\ Len(out') = n - 1
      /\ \A i \in 1 .. n - 1 : out'[i] = out[i + 1]
  BY <1>1, <1>2, HeadTailProperties
<1>4. EndsApart(out')
  BY <1>2, <1>3 DEF EndsApart, CInv, Position
<1>5. n > 1 => out' # <<>> /\ Head(out') # "nl"
  <2>1. SUFFICES ASSUME n > 1 PROVE out' # <<>> /\ Head(out') # "nl"
    OBVIOUS
  <2>2. out'[1] # "nl"
    BY <1>2, <1>3, <2>1 DEF EndsApart, CInv, Position
  <2> QED BY <1>2, <1>3, <2>1, <2>2, EmptySeq
<1>6. n = 1 => out' = <<>>
  BY <1>3
<1>7. CASE Starting
  <2>1. n = 1 /\ out' = <<>> /\ screen_y = lines - 1
    <3>1. 1 \in 1 .. Len(out) /\ out[1] = "nl"
      BY <1>2
    <3>2. 1 = Len(out)
      BY <1>7, <3>1 DEF Starting
    <3> QED BY <1>1, <1>6, <1>7, <3>2 DEF Starting
  <2>2. lines \in 0 .. BootLines
    BY DEF CInv, Position
  <2>3. screen_y' = lines' /\ screen_y' < NUM_ROWS
    BY <1>1, <2>1, <2>2, BootAssumption, Geometry
  <2>4. Starting'
    BY <1>3, <2>1, <2>3 DEF Starting
  <2>5. Position'
    BY <1>1, <1>2, <1>3, <1>4, <2>2, <2>3, Geometry DEF Position, CInv
  <2> QED BY <2>4, <2>5 DEF CInv
<1>8. CASE Pasting
  <2>1. n > 1
    BY <1>1, <1>2, <1>8 DEF Pasting
  <2>2. out'[Len(out')] # "nl"
    BY <1>1, <1>2, <1>3, <1>8, <2>1 DEF Pasting
  <2>3. Pasting'
    BY <1>1, <1>8, <2>2 DEF Pasting
  <2>4. Position'
    BY <1>1, <1>2, <1>3, <1>4, <1>5, <2>1, Geometry DEF Position, CInv
  <2> QED BY <2>3, <2>4 DEF CInv
<1> QED BY <1>7, <1>8 DEF CInv

LEMMA CharacterOn ==
  ASSUME BootLines < NUM_ROWS, CInv, Putc, ~NewLine
  PROVE  CInv'
<1> DEFINE n == Len(out)
<1>1. /\ out # <<>> /\ out' = Tail(out) /\ lines' = lines
      /\ screen_y' = screen_y % NUM_ROWS /\ screen_x' = (screen_x + 1) % NUM_COLS
  BY DEF Putc, Quiet, Row
<1>2. /\ out \in Seq(Printed) /\ n \in Nat /\ n > 0 /\ out[1] # "nl"
      /\ screen_y \in 0 .. NUM_ROWS /\ screen_x \in 0 .. NUM_COLS - 1
  <2>1. out \in Seq(Printed) /\ Head(out) # "nl"
    BY DEF CInv, Position, NewLine
  <2> QED BY <1>1, <2>1, EmptySeq DEF CInv, Position
<1>3. /\ out' \in Seq(Printed) /\ Len(out') = n - 1
      /\ \A i \in 1 .. n - 1 : out'[i] = out[i + 1]
  BY <1>1, <1>2, HeadTailProperties
<1>4. screen_y' \in 0 .. NUM_ROWS - 1 /\ screen_x' \in 0 .. NUM_COLS - 1
  BY <1>1, <1>2, Geometry, Z3
<1>5. Position'
  <2>1. EndsApart(out')
    BY <1>2, <1>3 DEF EndsApart, CInv, Position
  <2> QED BY <1>1, <1>3, <1>4, <2>1, Geometry DEF Position, CInv
<1>6. CASE Starting
  <2>1. n > 1 /\ screen_y = lines - 1 /\ lines \in 0 .. BootLines
    BY <1>1, <1>2, <1>6 DEF Starting, CInv, Position
  <2>2. screen_y \in 0 .. NUM_ROWS - 1
    BY <1>2, <2>1, BootAssumption, Geometry
  <2>3. screen_y' = screen_y
    BY <1>1, <2>2, Geometry, Z3
  <2>4. out' # <<>>
    BY <1>3, <2>1, EmptySeq
  <2>5. \A i \in 1 .. Len(out') : out'[i] = "nl" <=> i = Len(out')
    BY <1>2, <1>3, <1>6 DEF Starting
  <2> QED BY <1>1, <1>5, <2>1, <2>3, <2>4, <2>5 DEF CInv, Starting
<1>7. CASE Pasting
  <2>1. out' # <<>> => out'[Len(out')] # "nl"
    BY <1>1, <1>2, <1>3, <1>7, EmptySeq DEF Pasting
  <2> QED BY <1>1, <1>5, <1>7, <2>1 DEF CInv, Pasting
<1> QED BY <1>6, <1>7 DEF CInv

LEMMA BootPrints ==
  ASSUME BootLines < NUM_ROWS, CInv, Boot
  PROVE  CInv'
<1>1. ASSUME NEW text \in Seq(Digits \cup {"-"}), lines < BootLines,
             out' = <<"c">> \o text \o <<"nl">>, out = <<>>, lines' = lines + 1,
             UNCHANGED <<screen_x, screen_y>>
      PROVE  CInv'
  <2> DEFINE a == <<"c">>
             z == <<"nl">>
             n == Len(text)
  <2>1. text \in Seq(Printed) /\ n \in Nat /\ \A i \in 1 .. n : text[i] # "nl"
    <3>1. \A i \in 1 .. n : text[i] \in Digits \cup {"-"}
      BY ElementOfSeq
    <3>2. text \in Seq(Printed)
      BY SeqMonotonic DEF Printed
    <3> QED BY <3>1, <3>2, DigitsArePlain, LenProperties
  <2>2. a \in Seq(Printed) /\ Len(a) = 1 /\ a[1] = "c" /\ z \in Seq(Printed) /\ Len(z) = 1 /\ z[1] = "nl"
    BY DEF Printed
  <2> HIDE DEF a, z
  <2> DEFINE b == a \o text
  <2>3. /\ b \in Seq(Printed) /\ Len(b) = n + 1
        /\ \A i \in 1 .. n + 1 : b[i] = IF i <= 1 THEN a[i] ELSE text[i - 1]
    <3>1. /\ b \in Seq(Printed) /\ Len(b) = Len(a) + Len(text)
          /\ \A i \in 1 .. Len(a) + Len(text) :
               b[i] = IF i <= Len(a) THEN a[i] ELSE text[i - Len(a)]
      BY <2>1, <2>2, ConcatProperties
    <3>2. Len(a) + Len(text) = n + 1
      BY <2>1, <2>2
    <3> QED BY <2>2, <3>1, <3>2
  <2>4. \A i \in 1 .. n + 1 : b[i] # "nl"
    BY <2>1, <2>2, <2>3
  <2> HIDE DEF b
  <2>5. /\ out' \in Seq(Printed) /\ Len(out') = n + 2
        /\ \A i \in 1 .. n + 2 : out'[i] = IF i <= n + 1 THEN b[i] ELSE z[i - (n + 1)]
    <3>1. out' = b \o z
      BY <1>1 DEF a, b, z
    <3>2. /\ b \o z \in Seq(Printed) /\ Len(b \o z) = Len(b) + Len(z)
          /\ \A i \in 1 .. Len(b) + Len(z) :
               (b \o z)[i] = IF i <= Len(b) THEN b[i] ELSE z[i - Len(b)]
      BY <2>2, <2>3, ConcatProperties
    <3>3. Len(b) + Len(z) = n + 2
      BY <2>1, <2>2, <2>3
    <3> QED BY <2>3, <3>1, <3>2, <3>3
  <2>6. \A i \in 1 .. n + 2 : out'[i] = "nl" <=> i = n + 2
    <3>1. ASSUME NEW i \in 1 .. n + 1 PROVE out'[i] # "nl" /\ i # n + 2
      BY <2>1, <2>4, <2>5, <3>1
    <3>2. out'[n + 2] = "nl"
      <4>1. n + 2 \in 1 .. n + 2 /\ ~(n + 2 <= n + 1) /\ (n + 2) - (n + 1) = 1
        BY <2>1
      <4> QED BY <2>2, <2>5, <4>1
    <3>3. \A i \in 1 .. n + 2 : i = n + 2 \/ i \in 1 .. n + 1
      BY <2>1
    <3> QED BY <3>1, <3>2, <3>3
  <2>7. screen_y = lines /\ screen_y < NUM_ROWS /\ lines \in 0 .. BootLines
    <3>1. lines \in 0 .. BootLines /\ screen_y \in 0 .. NUM_ROWS
      BY DEF CInv, Position
    <3>2. ~Pasting
      BY <1>1, BootAssumption DEF Pasting
    <3> QED BY <1>1, <3>1, <3>2, BootAssumption, Geometry DEF CInv, Starting
  <2>8. out' # <<>>
    BY <2>1, <2>5, EmptySeq
  <2>9. Starting'
    BY <1>1, <2>5, <2>6, <2>7, <2>8 DEF Starting
  <2>10. EndsApart(out')
    BY <2>1, <2>5, <2>6 DEF EndsApart
  <2>11. Position'
    BY <1>1, <2>5, <2>7, <2>10, BootAssumption, Geometry DEF Position, CInv
  <2> QED BY <2>9, <2>11 DEF CInv
<1>2. CASE BootLine
  <2>1. PICK k \in Numbers : out' = <<"c">> \o Conv(k.conv, k.value) \o <<"nl">>
    BY <1>2 DEF BootLine, Printf
  <2>2. Conv(k.conv, k.value) \in Seq(Digits \cup {"-"})
    BY NumbersAssumption, ConvTyped
  <2>3. /\ out = <<>> /\ lines < BootLines /\ lines' = lines + 1
        /\ UNCHANGED <<screen_x, screen_y>>
    BY <1>2, BootAssumption DEF BootLine, Printf, Quiet, CInv, Position
  <2> QED BY <1>1, <2>1, <2>2, <2>3
<1>3. CASE EnablingInterrupts
  <2>1. out' = <<"c">> \o <<>> \o <<"nl">>
    BY <1>3 DEF EnablingInterrupts, Printf
  <2>2. <<>> \in Seq(Digits \cup {"-"})
    OBVIOUS
  <2>3. /\ out = <<>> /\ lines < BootLines /\ lines' = lines + 1
        /\ UNCHANGED <<screen_x, screen_y>>
    BY <1>3, BootAssumption DEF EnablingInterrupts, Printf, Quiet, CInv, Position
  <2> QED BY <1>1, <2>1, <2>2, <2>3
<1> QED BY <1>2, <1>3 DEF Boot

LEMMA PastePrints ==
  ASSUME CInv, NEW scan, Interrupt(scan)
  PROVE  CInv'
<1>1. CASE UNCHANGED <<screen_x, screen_y, out>>
  BY <1>1 DEF Interrupt, CInv, Position, Starting, Pasting, EndsApart
<1>2. ASSUME NEW text \in Texts, Printf(text \o <<"c">>) PROVE CInv'
  <2> DEFINE n == Len(text)
             bar == <<"c">>
  <2>1. text \in Seq({"c", "nl"}) /\ \A i \in 1 .. n - 1 : text[i] = "c" \/ text[i + 1] = "c"
    BY TextsAssumption
  <2>2. text \in Seq(Printed) /\ n \in Nat
    BY <2>1, SeqMonotonic, LenProperties DEF Printed
  <2>3. bar \in Seq(Printed) /\ Len(bar) = 1 /\ bar[1] = "c" /\ out' = text \o bar
    BY <1>2 DEF Printf, Printed
  <2> HIDE DEF bar
  <2>4. /\ out' \in Seq(Printed) /\ Len(out') = n + 1
        /\ \A i \in 1 .. n + 1 : out'[i] = IF i <= n THEN text[i] ELSE bar[i - n]
    <3>1. /\ text \o bar \in Seq(Printed) /\ Len(text \o bar) = Len(text) + Len(bar)
          /\ \A i \in 1 .. Len(text) + Len(bar) :
               (text \o bar)[i] = IF i <= Len(text) THEN text[i] ELSE bar[i - Len(text)]
      BY <2>2, <2>3, ConcatProperties
    <3> QED BY <2>2, <2>3, <3>1
  <2>5. out'[n + 1] = "c" /\ \A i \in 1 .. n : out'[i] = text[i]
    BY <2>2, <2>3, <2>4
  <2>6. EndsApart(out')
    <3>1. ASSUME NEW i \in 1 .. Len(out') - 1 PROVE out'[i] # "nl" \/ out'[i + 1] # "nl"
      <4>1. i \in 1 .. n
        BY <2>2, <2>4
      <4>2. CASE i = n
        BY <2>5, <4>2
      <4>3. CASE i # n
        BY <2>1, <2>2, <2>5, <4>1, <4>3
      <4> QED BY <4>2, <4>3
    <3> QED BY <3>1 DEF EndsApart
  <2>7. Pasting'
    BY <2>4, <2>5 DEF Pasting, Interrupt, Booted
  <2>8. Position'
    BY <1>2, <2>4, <2>6 DEF Position, CInv, Printf, Interrupt, Quiet
  <2> QED BY <2>7, <2>8 DEF CInv
<1> QED BY <1>1, <1>2 DEF Interrupt

LEMMA PositionStep ==
  ASSUME BootLines < NUM_ROWS, CInv, [Next]_vars
  PROVE  CInv'
<1>1. CASE Putc
  BY <1>1, NewLineDown, CharacterOn
<1>2. CASE Boot
  BY <1>2, BootPrints
<1>3. CASE \E scan : Interrupt(scan)
  BY <1>3, PastePrints
<1>4. CASE UNCHANGED vars
  BY <1>4 DEF vars, consoleVars, CInv, Position, Starting, Pasting, EndsApart
<1> QED BY <1>1, <1>2, <1>3, <1>4 DEF Next, Press, Release, Type, LetGo, Extended

(* The offset of a cell.                                                    *)
LEMMA CellBelow ==
  ASSUME NEW c \in Nat, NEW r \in Nat, NEW y \in Nat, NEW x \in Nat, x < c, y < r
  PROVE  c * y + x < c * r
<1>1. c * y + c <= c * r
  BY Z3
<1> QED BY <1>1

(* If the start prints fewer lines than the screen has rows, whatever their *)
(* numbers, putc never writes outside the video page, however often lines   *)
(* are pasted.                                                              *)
THEOREM PageKept ==
  ASSUME BootLines < NUM_ROWS
  PROVE  Spec => []InPage
<1>1. Init => CInv
  <2>1. <<>> \in Seq(Printed) /\ Len(<<>>) = 0
    OBVIOUS
  <2> QED BY <2>1, Geometry, BootAssumption
          DEF Init, ConsoleInit, CInv, Position, Starting, EndsApart
<1>2. CInv /\ [Next]_vars => CInv'
  BY PositionStep
<1>3. CInv => InPage
  <2>1. SUFFICES ASSUME CInv PROVE Cell < PageCells
    BY DEF InPage
  <2>2. CASE screen_y = NUM_ROWS
    <3>1. Cell = NUM_COLS * NUM_ROWS
      BY <2>1, <2>2, Geometry DEF Cell, CInv, Position
    <3> QED BY <3>1, ScreenAssumption
  <2>3. CASE screen_y # NUM_ROWS
    <3>1. /\ screen_y \in Nat /\ screen_y < NUM_ROWS
          /\ screen_x \in Nat /\ screen_x < NUM_COLS
      BY <2>1, <2>3, Geometry DEF CInv, Position
    <3>2. NUM_COLS * screen_y + screen_x < NUM_COLS * NUM_ROWS
      BY <3>1, Geometry, CellBelow
    <3>3. PageCells > NUM_COLS * NUM_ROWS /\ PageCells \in Nat
      BY ScreenAssumption
    <3>4. NUM_COLS * NUM_ROWS \in Nat /\ Cell \in Nat
      BY <3>1, Geometry DEF Cell
    <3> QED BY <3>2, <3>3, <3>4 DEF Cell
  <2> QED BY <2>2, <2>3
<1> QED BY <1>1, <1>2, <1>3, PTL DEF Spec
=============================================================================
