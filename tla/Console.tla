------------------------------ MODULE Console ------------------------------
(***************************************************************************)
(* Console: printf and the screen position it keeps (lib.c).  The kernel   *)
(* prints only while it starts (entry, kernel.c) and when the keyboard     *)
(* handler pastes a line (module Keyboard); the terminals have cursors of  *)
(* their own.  Nothing else runs until a printf is done: interrupts are    *)
(* off, so a character is a step and the rest waits in out.                *)
(***************************************************************************)
EXTENDS Integers, Sequences, SequencesExt

CONSTANTS NUM_COLS,    \* 80
          NUM_ROWS,    \* 25
          PageCells,   \* the cells of the video page: 2048, 2000 of them seen
          WordSize,    \* 2^32
          HexDigits,   \* the digits of %#x: 8
          BootLines,   \* the lines entry prints: the boot loader decides
          Numbers      \* what is printed of them: [conv, value]

Conversions == {"u", "d", "x", "#x"}

ASSUME ScreenAssumption == /\ NUM_COLS \in Nat \ {0} /\ NUM_ROWS \in Nat \ {0}
                           /\ PageCells \in Nat /\ PageCells > NUM_ROWS * NUM_COLS
ASSUME BootAssumption == BootLines \in Nat

(* A word has an even number of values, and no more than its hexadecimal    *)
(* digits can tell apart.                                                   *)
HexWords[k \in 0 .. HexDigits] == IF k = 0 THEN 1 ELSE 16 * HexWords[k - 1]
ASSUME NumbersAssumption ==
  /\ WordSize \in Nat \ {0} /\ WordSize % 2 = 0
  /\ HexDigits \in Nat \ {0} /\ WordSize <= HexWords[HexDigits]
  /\ Numbers \subseteq [conv : Conversions, value : 0 .. WordSize - 1]

VARIABLES
  screen_x, screen_y,
  out,        \* what the printf under way has still to put out
  lines,      \* the lines entry has begun
  number      \* history: the number in the line under way, and its digits

consoleVars == <<screen_x, screen_y, out, lines, number>>

(* A character is a digit, "-", "nl" for '\n' or '\r', or "c" for others.   *)
NoNumber == [conv |-> "none"]

ConsoleInit ==
  /\ screen_x = 0 /\ screen_y = 0
  /\ out = <<>>
  /\ lines = 0
  /\ number = NoNumber

Quiet == out = <<>>
Booted == Quiet /\ lines = BootLines

-----------------------------------------------------------------------------
(* itoa: the digits from the lowest place up, and then strrev.              *)
lookup == <<"0", "1", "2", "3", "4", "5", "6", "7", "8", "9",
            "A", "B", "C", "D", "E", "F">>
PlacesOf(radix) ==
  LET places[n \in 0 .. WordSize - 1] ==
        IF n = 0 THEN <<>> ELSE <<lookup[(n % radix) + 1]>> \o places[n \div radix]
  IN places
ItoaUnreversed(value, radix) ==
  IF value = 0 THEN <<"0">> ELSE PlacesOf(radix)[value]
Itoa(value, radix) ==
  IF value = 0 THEN <<"0">> ELSE Reverse(PlacesOf(radix)[value])

(* The conversions of printf.  %d takes the word as a signed number.        *)
Conv(conv, value) ==
  CASE conv = "u" -> Itoa(value, 10)
    [] conv = "x" -> Itoa(value, 16)
    [] conv = "#x" -> LET digits == Itoa(value, 16)
                      IN [i \in 1 .. HexDigits - Len(digits) |-> "0"] \o digits
    [] conv = "d" -> IF value >= WordSize \div 2
                     THEN <<"-">> \o Itoa((WordSize - value) % WordSize, 10)
                     ELSE Itoa(value, 10)

-----------------------------------------------------------------------------
(* putc.  A newline goes down without a look at the last row; after a       *)
(* character the row is taken modulo NUM_ROWS, and the end of a row leads   *)
(* back to its own start.                                                   *)
NewLine == Head(out) = "nl"
Cell == NUM_COLS * screen_y + screen_x

RowAfter == screen_y
Row == screen_y % NUM_ROWS

Putc ==
  /\ ~Quiet
  /\ out' = Tail(out)
  /\ IF NewLine
     THEN screen_y' = screen_y + 1 /\ screen_x' = 0
     ELSE screen_y' = Row /\ screen_x' = (screen_x + 1) % NUM_COLS
  /\ UNCHANGED <<lines, number>>

Printf(text) ==
  /\ Quiet
  /\ out' = text
  /\ UNCHANGED <<screen_x, screen_y>>

(* entry's lines: what the boot loader tells, and at last that interrupts   *)
(* are enabled.  The clear() after it leaves screen_x and screen_y alone.   *)
BootLine ==
  /\ lines < BootLines - 1
  /\ \E n \in Numbers :
       LET digits == Conv(n.conv, n.value)
       IN /\ Printf(<<"c">> \o digits \o <<"nl">>)
          /\ number' = [conv |-> n.conv, value |-> n.value, digits |-> digits]
  /\ lines' = lines + 1

EnablingInterrupts ==
  /\ lines = BootLines - 1
  /\ Printf(<<"c", "nl">>)
  /\ number' = NoNumber
  /\ lines' = lines + 1

Boot == BootLine \/ EnablingInterrupts

-----------------------------------------------------------------------------
(* putc writes nowhere but in the video page, although it bounds the row    *)
(* only after a character.  It takes a start of fewer than NUM_ROWS lines   *)
(* and texts without two newlines in a row (EndsApart of LineInput).        *)
InPage == ~Quiet /\ ~NewLine => Cell < PageCells

(* What a conversion prints reads back as the number it was given: the      *)
(* highest place first, nothing lost, %#x with all its digits, %d signed.   *)
DigitOf(c) == CHOOSE d \in 0 .. 15 : lookup[d + 1] = c
Radix(conv) == IF conv \in {"u", "d"} THEN 10 ELSE 16
Unsigned(text, radix) ==
  LET read[i \in 0 .. Len(text)] ==
        IF i = 0 THEN 0 ELSE (read[i - 1] * radix) + DigitOf(text[i])
  IN read[Len(text)]
Reads(conv, text) ==
  IF Head(text) = "-" THEN WordSize - Unsigned(Tail(text), 10)
  ELSE Unsigned(text, Radix(conv))
NumbersReadBack ==
  number # NoNumber =>
    /\ Reads(number.conv, number.digits) = number.value
    /\ number.conv = "d" =>
         (Head(number.digits) = "-" <=> 2 * number.value >= WordSize)
    /\ number.conv = "#x" => Len(number.digits) = HexDigits

(* What lib.c does not do: keep a line that is longer than a row.           *)
RowKept == [][Putc /\ ~NewLine /\ out' # <<>> /\ Head(out') # "nl"
                => NUM_COLS * screen_y' + screen_x' > Cell]_consoleVars
=============================================================================
