------------------------------ MODULE Keyboard ------------------------------
(***************************************************************************)
(* Keyboard: translate() of keyboard.c, which turns the scan codes of the  *)
(* keyboard interrupts into the kinds of key that LineInput starts from,   *)
(* and the paste of the displayed line (Alt-V), which prints on Console.   *)
(*                                                                         *)
(* The user's fingers are part of the state, so that the four flags can be *)
(* compared with what is held down.  Handlers run with interrupts off.     *)
(***************************************************************************)
EXTENDS Console, FiniteSets

CONSTANTS OrdinaryKeys,   \* scan codes of the keys that are no modifiers
          Modifiers,      \* the modifier keys: [code, ext], ext if after E0
          Texts           \* what a line to paste may hold

CTRL_P == 29
ALT_P == 56
SHIL_P == 42
SHIR_P == 54
CAP == 58
GENL_R == 120     \* releases and E0 are from here on
Released(code) == code + 128

ModifierCodes == {CTRL_P, ALT_P, SHIL_P, SHIR_P}
ASSUME KeysAssumption ==
  /\ OrdinaryKeys \subseteq (1 .. GENL_R - 1) \ ModifierCodes
  /\ Modifiers \subseteq [code : ModifierCodes, ext : BOOLEAN]

(* A line has no two ends of line in a row: EnterPress of LineInput.        *)
ASSUME TextsAssumption ==
  \A text \in Texts : /\ text \in Seq({"c", "nl"})
                      /\ \A i \in 1 .. Len(text) - 1 : text[i] = "c" \/ text[i + 1] = "c"

VARIABLES
  ctrl_flag, alt_flag, shift_flag, caps_flag,
  held,       \* the modifier keys held down
  event       \* what the last interrupt was found to mean

flags == <<ctrl_flag, alt_flag, shift_flag, caps_flag>>
keyVars == <<flags, held, event>>
vars == <<consoleVars, keyVars>>

Nothing == [kind |-> "nothing", scan |-> 0, ascii |-> <<>>]

Init ==
  /\ ConsoleInit
  /\ ctrl_flag = 0 /\ alt_flag = 0 /\ shift_flag = 0 /\ caps_flag = 0
  /\ held = {}
  /\ event = Nothing

-----------------------------------------------------------------------------
(* The keys translate() takes no notice of.                                 *)
Ignored(scan) ==
  \/ scan \in {1, 15, 55, CAP} \cup (62 .. 83) \cup {87, 88} \cup (90 .. 108)
  \/ scan \in 59 .. 61 /\ alt_flag = 0

(* The row of scantable_small.                                              *)
TableRow ==
  CASE shift_flag = 1 /\ caps_flag = 0 -> 0
    [] shift_flag = 0 /\ caps_flag = 1 /\ ctrl_flag = 0 /\ alt_flag = 0 -> 1
    [] OTHER -> IF alt_flag = 1 THEN 2 ELSE IF ctrl_flag = 1 THEN 3 ELSE 4

(* The table has 5 rows of 69: a scan code from 69 on is looked up in the   *)
(* next row, and in the last row past the end of the table.                 *)
Columns == 69
Rows == 5
InTable(row, scan) == row * Columns + scan < Rows * Columns

Letters == (16 .. 25) \cup (30 .. 38) \cup (44 .. 50)
Key_L == 38
Key_V == 47
Key_W == 17

(* What a cell holds: a letter, the symbol of another key, or one of the    *)
(* values translate() looks for.  CRL is the code of 'w', DBH that of 'v',  *)
(* and KEY_TAB that of TF1KEY.                                              *)
Lower(key) == <<"lower", key>>
Upper(key) == <<"upper", key>>
CRL == Lower(Key_W)
DBH == Lower(Key_V)
TFKEY(n) == <<"TF", n>>
KEY_BACKSPACE == <<"bs">>
KEY_RETURN == <<"nl">>
Table(row, col) ==
  CASE col = 14 -> KEY_BACKSPACE
    [] col = 28 -> KEY_RETURN
    [] row = 2 /\ col \in 59 .. 61 -> TFKEY(col - 59)
    [] row # 2 /\ col \in 59 .. 61 -> Lower(<<22, 20, 31>>[col - 58])  \* u, t, s
    [] row = 2 /\ col = 2 -> DBH
    [] row = 3 /\ col = Key_L -> CRL
    [] col = 15 -> TFKEY(0)                                           \* KEY_TAB
    [] col \in Letters /\ ~(row = 3 /\ col = Key_L) ->
         IF row \in {0, 1} THEN Upper(col) ELSE Lower(col)
    [] OTHER -> <<IF row = 0 THEN "shifted" ELSE "plain", col>>

Ascii(scan) == Table(TableRow + (scan \div Columns), scan % Columns)

ClearsUnheld(ascii) == ascii = CRL
Clears(ascii) == ctrl_flag = 1 /\ ascii = CRL

(* The first of translate()'s tests that holds.                             *)
KindOf(ascii) ==
  CASE ascii = KEY_BACKSPACE -> "back"
    [] alt_flag = 1 /\ ascii \in {TFKEY(n) : n \in 0 .. 2} -> "swap"
    [] Clears(ascii) -> "ctrlL"
    [] alt_flag = 1 /\ ascii = DBH -> "paste"
    [] ascii = KEY_RETURN -> "enter"
    [] OTHER -> "char"

IsModifier(scan) == scan \in ModifierCodes
Means(scan) ==
  IF Ignored(scan) \/ IsModifier(scan) \/ scan >= GENL_R THEN Nothing
  ELSE IF InTable(TableRow, scan)
       THEN [kind |-> KindOf(Ascii(scan)), scan |-> scan, ascii |-> Ascii(scan)]
       ELSE [kind |-> "unknown", scan |-> scan, ascii |-> <<>>]

FlagAfterNoRelease(flag, presses, scan) ==
  IF scan \in presses THEN 1 ELSE flag
FlagAfter(flag, presses, scan) ==
  IF scan \in presses THEN 1
  ELSE IF scan \in {Released(p) : p \in presses} THEN 0 ELSE flag

Translate(scan) ==
  /\ ctrl_flag' = FlagAfter(ctrl_flag, {CTRL_P}, scan)
  /\ alt_flag' = FlagAfter(alt_flag, {ALT_P}, scan)
  /\ shift_flag' = FlagAfter(shift_flag, {SHIL_P, SHIR_P}, scan)
  /\ caps_flag' = IF scan = Released(CAP) THEN 1 - caps_flag ELSE caps_flag
  /\ event' = Means(scan)

(* A keyboard interrupt.  The paste prints the line and a bar; what printf  *)
(* writes stays when translate() is done.                                   *)
Interrupt(scan) ==
  /\ Booted
  /\ Translate(scan)
  /\ IF Means(scan).kind = "paste"
     THEN \E text \in Texts : Printf(text \o <<"c">>)
     ELSE UNCHANGED <<screen_x, screen_y, out>>
  /\ UNCHANGED <<lines, number>>

-----------------------------------------------------------------------------
(* The keyboard: a key held down repeats its code, a key of the extended    *)
(* part sends E0 first.                                                     *)
Press(k) == Interrupt(k.code) /\ held' = held \cup {k}
Release(k) == k \in held /\ Interrupt(Released(k.code)) /\ held' = held \ {k}
Type(code) == Interrupt(code) /\ UNCHANGED held
LetGo(code) == Interrupt(Released(code)) /\ UNCHANGED held
Extended == Interrupt(224) /\ UNCHANGED held

Next ==
  \/ (Boot \/ Putc) /\ UNCHANGED keyVars
  \/ \E k \in Modifiers : Press(k) \/ Release(k)
  \/ \E code \in OrdinaryKeys : Type(code) \/ LetGo(code)
  \/ Extended

Spec == Init /\ [][Next]_vars

-----------------------------------------------------------------------------
TypeOK ==
  /\ {ctrl_flag, alt_flag, shift_flag, caps_flag} \subseteq {0, 1}
  /\ held \subseteq Modifiers
  /\ event.scan \in {0} \cup OrdinaryKeys

(* No modifier sticks: a flag that is set has such a key held down, whatever *)
(* the order in which the left and the right one are pressed and released.  *)
Down(codes) == \E k \in held : k.code \in codes
FlagsHeld ==
  /\ ctrl_flag = 1 => Down({CTRL_P})
  /\ alt_flag = 1 => Down({ALT_P})
  /\ shift_flag = 1 => Down({SHIL_P, SHIR_P})

Inv == TypeOK /\ FlagsHeld

(* The codes that share a value with a command never stand for it: a        *)
(* terminal is chosen only by its own F key with Alt held down, Enter and   *)
(* backspace mean themselves with whatever modifiers are held, the screen   *)
(* is cleared only with Ctrl, and a letter has the case that Shift and Caps *)
(* Lock give it.                                                            *)
KeysMeanWhatTheySay ==
  /\ event.kind = "swap" =>
       Down({ALT_P}) /\ event.ascii = TFKEY(event.scan - 59)
  /\ event.kind \in {"ctrlL", "paste"} =>
       Down({CTRL_P, ALT_P}) /\ event.scan \in {2} \cup Letters
  /\ event.scan = 28 <=> event.kind = "enter"
  /\ event.scan = 14 <=> event.kind = "back"
  /\ event.kind = "char" /\ event.scan \in Letters /\ ctrl_flag = 0 /\ alt_flag = 0 =>
       event.ascii = IF shift_flag # caps_flag THEN Upper(event.scan)
                     ELSE Lower(event.scan)

-----------------------------------------------------------------------------
(* What the comments say and the code does not do.                          *)

(* keyboard.c:172 "special Ctrl+L command": Ctrl-W clears the screen too.   *)
ClearsOnCtrlL == event.kind = "ctrlL" => event.scan = Key_L

(* keyboard.c:336 "if alt + F1,2,3 pressed": Shift-Alt-F1 types a 'u'.      *)
AltFSwaps ==
  event.scan \in 59 .. 61 => event.kind = "swap"

(* scantable_small has a cell for every key that is looked up in a row: not *)
(* for SysRq (Alt-PrtSc), which is Alt's Tab one row on and so TF1KEY, nor  *)
(* for the key left of Z on other than US keyboards.                        *)
LookedUp == event.kind # "nothing" => event.scan < Columns
=============================================================================
