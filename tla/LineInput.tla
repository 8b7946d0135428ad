----------------------------- MODULE LineInput -----------------------------
(***************************************************************************)
(* Typed lines: the keyboard interrupt (keyboard.c), the line buffers of   *)
(* the terminals, terminal_read (terminal.c) and the switch of the display *)
(* (Alt-F1..F3).  All terminals are on; the PIT tick serves them in turn.  *)
(*                                                                         *)
(* One enter_flag serves all terminals, the buffer in use is that of the   *)
(* displayed terminal, and the reader is that of the scheduled one.  The   *)
(* keyboard handler runs with interrupts off, except from the sti() at the *)
(* end of swap_terminal to its own end.                                    *)
(*                                                                         *)
(* translate() is abstracted to the kind of key it finds: an ordinary      *)
(* character, return, backspace, Ctrl-L, Alt-F1..F3, or anything else      *)
(* (releases, modifiers), for which it gives NULL.                         *)
(***************************************************************************)
EXTENDS Integers, Sequences, FiniteSets

CONSTANTS NumTerminals,  \* NUM_TERMINALS: 3
          BufSize,       \* SCREEN_BUF_SIZE: 128
          Keys,          \* the kinds of key typed
          Reads,         \* the values of nbytes passed to read, up to BufSize
          MaxNesting     \* bound: handlers of one terminal cut by others

ASSUME TerminalsAssumption == NumTerminals \in Nat \ {0}
ASSUME BufferAssumption == BufSize \in Nat \ {0, 1}
ASSUME ReadsAssumption == Reads \subseteq 0 .. BufSize
ASSUME NestingAssumption == MaxNesting \in Nat

Term == 0 .. NumTerminals - 1

(* What a buffer cell may hold: "nul" is '\0', "nl" is '\n', "cr" is '\r',  *)
(* "bs" is '\b', "a" stands for any other character.                        *)
Char == {"nul", "a", "nl", "cr", "bs"}
Eol == {"nl", "cr"}

KeyKinds == {"char", "enter", "back", "other", "ctrlL", "swap"}
ASSUME KeysAssumption == Keys \subseteq KeyKinds

VARIABLES
  screen_buf,            \* terminal_t.screen_buf
  screen_buf_top,        \* terminal_t.screen_buf_top
  enter_flag,
  terminal_flags,        \* the terminals whose terminal_*_flag is 1
  terminal_num_display,
  terminal_num,
  reader,                \* where each terminal's program is in terminal_read
  handlers,              \* the swap handlers cut on each terminal, last first:
                         \* the next terminal_*_flag each has to reset
  user_buf               \* what the last read to return delivered

vars == <<screen_buf, screen_buf_top, enter_flag, terminal_flags,
          terminal_num_display, terminal_num, reader, handlers, user_buf>>

bufVars == <<screen_buf, screen_buf_top>>

Init ==
  /\ screen_buf = [t \in Term |-> [i \in 0 .. BufSize - 1 |-> "nul"]]
  /\ screen_buf_top = [t \in Term |-> 0]
  /\ enter_flag = 0
  /\ terminal_flags = {}
  /\ terminal_num_display = 0
  /\ terminal_num = 0
  /\ reader = [t \in Term |-> "idle"]
  /\ handlers = [t \in Term |-> <<>>]
  /\ user_buf = <<>>

-----------------------------------------------------------------------------
(* The buffer operations, all on the displayed terminal.                    *)
Top == screen_buf_top[terminal_num_display]
Cell(i) == screen_buf[terminal_num_display][i]

(* Mutants are plausible slips, put in place of the definition after them.  *)
ClearBufKeepsText ==
  /\ screen_buf_top' = [screen_buf_top EXCEPT ![terminal_num_display] = 0]
  /\ UNCHANGED screen_buf

ClearBuf ==
  /\ screen_buf' = [screen_buf EXCEPT ![terminal_num_display] =
                      [i \in 0 .. BufSize - 1 |-> "nul"]]
  /\ screen_buf_top' = [screen_buf_top EXCEPT ![terminal_num_display] = 0]

(* The last cell is kept for the end of the line.                           *)
Add2Buf(c) ==
  IF Top < BufSize - 1
  THEN /\ screen_buf' = [screen_buf EXCEPT ![terminal_num_display][Top] = c]
       /\ screen_buf_top' = [screen_buf_top EXCEPT ![terminal_num_display] = @ + 1]
  ELSE UNCHANGED bufVars

EnterPressAgain(c) == Add2Buf(c)

(* While an Enter is pending every key event comes here.                    *)
EnterPress(c) ==
  IF Top = 0 \/ Cell(Top - 1) \notin Eol THEN Add2Buf(c) ELSE UNCHANGED bufVars

DeleteChar ==
  IF Top > 0
  THEN /\ screen_buf' = [screen_buf EXCEPT ![terminal_num_display][Top - 1] = "nul"]
       /\ screen_buf_top' = [screen_buf_top EXCEPT ![terminal_num_display] = @ - 1]
  ELSE UNCHANGED bufVars

(* The value translate() returns.                                           *)
Ascii(k) == CASE k = "char" -> "a" [] k = "enter" -> "nl" [] k = "back" -> "bs"
              [] OTHER -> "nul"

-----------------------------------------------------------------------------
(* A key event.  A key that is no Alt-F key, with no swap under way.        *)
TypeKey(k) ==
  /\ k \in Keys \ {"ctrlL", "swap"} /\ terminal_flags = {}
  /\ enter_flag' = IF k = "enter" THEN 1 ELSE enter_flag
  /\ \/ enter_flag' = 1 /\ EnterPress(Ascii(k))
     \/ enter_flag' = 0 /\ k = "char" /\ Add2Buf("a")
     \/ enter_flag' = 0 /\ k = "back" /\ DeleteChar
     \/ enter_flag' = 0 /\ k = "other" /\ UNCHANGED bufVars
  /\ UNCHANGED <<terminal_flags, terminal_num_display, terminal_num, reader,
                 handlers, user_buf>>

(* Ctrl-L clears the buffer; an Enter that is pending stays pending.        *)
CtrlL ==
  /\ "ctrlL" \in Keys
  /\ ClearBuf
  /\ terminal_flags' = {}
  /\ UNCHANGED <<enter_flag, terminal_num_display, terminal_num, reader,
                 handlers, user_buf>>

(* A key event while terminal_*_flag of index is the first one set: the     *)
(* handler swaps to index and, if it is displayed already, only clears the  *)
(* flags.  A return still sets enter_flag, any other key is dropped.        *)
SwapNeeded(index) == index # terminal_num_display
FirstFlag(flags) == CHOOSE t \in flags : \A u \in flags : t <= u

SwapKey(flags, enter) ==
  /\ flags # {}
  /\ enter_flag' = enter
  /\ IF SwapNeeded(FirstFlag(flags))
     THEN /\ Len(handlers[terminal_num]) < MaxNesting
          /\ terminal_num_display' = FirstFlag(flags)
          /\ terminal_flags' = flags
          /\ handlers' = [handlers EXCEPT ![terminal_num] = <<0>> \o @]
     ELSE /\ terminal_flags' = {}
          /\ UNCHANGED <<terminal_num_display, handlers>>
  /\ UNCHANGED <<bufVars, terminal_num, reader, user_buf>>

AltF(t) ==
  /\ "swap" \in Keys
  /\ SwapKey(terminal_flags \cup {t}, enter_flag)

(* Another key while the flags of a swap under way are still set.           *)
KeyInSwap(k) ==
  /\ k \in Keys \ {"ctrlL", "swap"}
  /\ SwapKey(terminal_flags, IF k = "enter" THEN 1 ELSE enter_flag)

ResetFlagMissesLast ==
  /\ handlers[terminal_num] # <<>>
  /\ terminal_flags' = terminal_flags \ {NumTerminals - 2}
  /\ handlers' = [handlers EXCEPT ![terminal_num] = Tail(@)]
  /\ UNCHANGED <<bufVars, enter_flag, terminal_num_display, terminal_num, reader,
                 user_buf>>

(* The rest of a handler that has swapped, interrupts on: it resets the     *)
(* flags one after the other.                                               *)
ResetFlag ==
  /\ handlers[terminal_num] # <<>>
  /\ LET flag == Head(handlers[terminal_num])
     IN /\ terminal_flags' = terminal_flags \ {flag}
        /\ handlers' = [handlers EXCEPT ![terminal_num] =
                           IF flag = NumTerminals - 1 THEN Tail(@)
                           ELSE <<flag + 1>> \o Tail(@)]
  /\ UNCHANGED <<bufVars, enter_flag, terminal_num_display, terminal_num, reader,
                 user_buf>>

Key == (\E k \in Keys : TypeKey(k) \/ KeyInSwap(k)) \/ CtrlL \/ \E t \in Term : AltF(t)

-----------------------------------------------------------------------------
(* terminal_read of the terminal being served.                              *)
OnCpu(t, where) ==
  terminal_num = t /\ reader[t] = where /\ handlers[t] = <<>>

MarkEndScheduled ==
  screen_buf' = [screen_buf EXCEPT ![terminal_num][BufSize - 1] = "cr"]

(* The end mark goes into the buffer of whatever terminal is displayed.     *)
MarkEnd ==
  screen_buf' = [screen_buf EXCEPT ![terminal_num_display][BufSize - 1] = "cr"]

ReadBegin(t) ==
  /\ OnCpu(t, "idle")
  /\ MarkEnd
  /\ reader' = [reader EXCEPT ![t] = "wait"]
  /\ UNCHANGED <<screen_buf_top, enter_flag, terminal_flags,
                 terminal_num_display, terminal_num, handlers, user_buf>>

(* A NULL buffer or a negative size: -1, but the mark has been made.        *)
ReadFail(t) ==
  /\ OnCpu(t, "idle")
  /\ MarkEnd
  /\ UNCHANGED <<screen_buf_top, enter_flag, terminal_flags,
                 terminal_num_display, terminal_num, reader, handlers, user_buf>>

ReadWakeAnyTerminal(t) ==
  /\ OnCpu(t, "wait")
  /\ enter_flag = 1
  /\ reader' = [reader EXCEPT ![t] = "take"]
  /\ UNCHANGED <<bufVars, enter_flag, terminal_flags, terminal_num_display,
                 terminal_num, handlers, user_buf>>
ReadWakeLineEnded(t) ==
  /\ OnCpu(t, "wait")
  /\ terminal_num = terminal_num_display /\ Top > 0 /\ Cell(Top - 1) \in Eol
  /\ reader' = [reader EXCEPT ![t] = "take"]
  /\ UNCHANGED <<bufVars, enter_flag, terminal_flags, terminal_num_display,
                 terminal_num, handlers, user_buf>>

(* The busy wait ends; interrupts stay on until the cli() that follows.     *)
ReadWake(t) ==
  /\ OnCpu(t, "wait")
  /\ enter_flag = 1 /\ terminal_num = terminal_num_display
  /\ reader' = [reader EXCEPT ![t] = "take"]
  /\ UNCHANGED <<bufVars, enter_flag, terminal_flags, terminal_num_display,
                 terminal_num, handlers, user_buf>>

(* The length of what read copies, up to the first end of line.             *)
Ends(n) == {i \in 0 .. n - 1 : Cell(i) \in Eol}
CopyLength(n) ==
  IF Ends(n) = {} THEN n ELSE 1 + CHOOSE i \in Ends(n) : \A j \in Ends(n) : i <= j

ReadTake(t) ==
  /\ OnCpu(t, "take")
  /\ enter_flag' = 0
  /\ \E n \in Reads :
       user_buf' = [i \in 1 .. CopyLength(n) |-> Cell(i - 1)]
  /\ ClearBuf
  /\ reader' = [reader EXCEPT ![t] = "idle"]
  /\ UNCHANGED <<terminal_flags, terminal_num_display, terminal_num, handlers>>

(* The PIT tick.                                                            *)
Tick ==
  /\ terminal_num' = (terminal_num + 1) % NumTerminals
  /\ UNCHANGED <<bufVars, enter_flag, terminal_flags, terminal_num_display,
                 reader, handlers, user_buf>>

Read(t) == ReadBegin(t) \/ ReadFail(t) \/ ReadWake(t) \/ ReadTake(t)

Next == Key \/ ResetFlag \/ Tick \/ \E t \in Term : Read(t)

Spec == Init /\ [][Next]_vars

(* What a terminal that has the processor goes on with: the handler cut     *)
(* last on its stack, else its program's read.                              *)
Progress(t) == (terminal_num = t /\ ResetFlag) \/ ReadWake(t) \/ ReadTake(t)

(* Ticks keep coming, and each time slice of 20 ms is long enough for the   *)
(* terminal being served to finish a handler or go on in its read.          *)
Fairness ==
  /\ WF_vars(Tick)
  /\ \A t \in Term : SF_vars(Progress(t))

FairSpec == Spec /\ Fairness

-----------------------------------------------------------------------------
(* Types, and the shape of a line buffer: what lies past its top is empty   *)
(* but for the end mark, so no reader ever sees the remains of an old line. *)
TypeOK ==
  /\ screen_buf \in [Term -> [0 .. BufSize - 1 -> Char]]
  /\ screen_buf_top \in [Term -> 0 .. BufSize - 1]
  /\ enter_flag \in {0, 1}
  /\ terminal_flags \subseteq Term
  /\ terminal_num_display \in Term /\ terminal_num \in Term
  /\ reader \in [Term -> {"idle", "wait", "take"}]
  /\ handlers \in [Term -> Seq(Term)] /\ \A t \in Term : Len(handlers[t]) <= MaxNesting
  /\ user_buf \in Seq(Char) /\ Len(user_buf) <= BufSize

BufferShape ==
  \A t \in Term : \A i \in screen_buf_top[t] .. BufSize - 1 :
    screen_buf[t][i] = "nul" \/ (i = BufSize - 1 /\ screen_buf[t][i] = "cr")

(* No line holds two ends of line in a row, which the paste of the line      *)
(* relies on (Console).                                                     *)
EndsApart ==
  \A t \in Term : \A i \in 1 .. screen_buf_top[t] - 1 :
    screen_buf[t][i - 1] \in Eol => screen_buf[t][i] \notin Eol

(* Every flag of a swap that is set still has a handler that will reset it, *)
(* however handlers and ticks cut each other: no flag is left behind to     *)
(* turn later keys into swaps.                                              *)
FlagsServed ==
  \A f \in terminal_flags :
    \E t \in Term : \E i \in 1 .. Len(handlers[t]) : handlers[t][i] <= f

Inv == TypeOK /\ BufferShape /\ EndsApart /\ FlagsServed

(* What is typed goes to the terminal on display: no key, read or tick      *)
(* touches the line of a terminal that is hidden before and after.          *)
HiddenLinesKept ==
  [][\A t \in Term : t # terminal_num_display /\ t # terminal_num_display'
       => screen_buf[t]' = screen_buf[t] /\ screen_buf_top[t]' = screen_buf_top[t]]_vars

(* An Enter wakes the reader: a program waiting on the terminal displayed   *)
(* gets its line once Enter is pending, unless the user turns away.         *)
EnterServed ==
  \A t \in Term :
    (enter_flag = 1 /\ reader[t] = "wait" /\ terminal_num_display = t)
      ~> (reader[t] = "idle" \/ terminal_num_display # t \/ enter_flag = 0)

(* A handler that has turned interrupts on is finished, so that the keys    *)
(* are not swallowed for ever.                                              *)
SwapsFinish == terminal_flags # {} ~> terminal_flags = {}

-----------------------------------------------------------------------------
(* What the comments say and the code does not do.                          *)

(* terminal.c:67 "count of the letter in buffer (including enter)": a line  *)
(* read with room for a whole buffer ends with an end of line.              *)
LineComplete == Len(user_buf) = BufSize => user_buf[BufSize] \in Eol

(* terminal.c:64 "accept keyboard data until enter is pressed": a read that *)
(* delivers has an Enter pending for its own terminal.                      *)
ReadsOwnLine ==
  [][\A t \in Term : reader[t] = "take" /\ reader'[t] = "idle"
       => terminal_num_display = t /\ enter_flag = 1]_vars

(* keyboard.c:191 "add normal key to buffer": a character typed when there  *)
(* is room and no Enter is pending gets into the buffer.                    *)
NormalKeyAdded ==
  [][KeyInSwap("char") => enter_flag = 1 \/ Top = BufSize - 1 \/
       screen_buf_top'[terminal_num_display] = Top + 1]_vars
=============================================================================
