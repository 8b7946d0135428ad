------------------------------ MODULE Screens ------------------------------
(***************************************************************************)
(* The screens of the terminals: terminal_write and scroll_up              *)
(* (terminal.c), the echo of keys (keyboard.c), the mapping of the video   *)
(* pages (paging.c) and the switch of the display.                         *)
(*                                                                         *)
(* Each terminal has a page of virtual memory, its vidmem_addr.  The page  *)
(* of the displayed terminal is mapped to the physical video memory, the   *)
(* others to buffers of their own.  A program's output goes to the         *)
(* scheduled terminal, the echo of a key to the displayed one; scroll_up   *)
(* works on the scheduled one, whoever calls it.                           *)
(*                                                                         *)
(* All terminals are on.  A cell holds the terminal that wrote it, or is   *)
(* blank (a space or '\0').  The blinking cursor of the VGA card is left   *)
(* out: nothing reads it.  A page fault in the kernel stops the model.     *)
(***************************************************************************)
EXTENDS Integers, Sequences, FiniteSets, SequencesExt

CONSTANTS NumTerminals,  \* NUM_TERMINALS: 3
          NUM_COLS,      \* 80
          NUM_ROWS,      \* 25
          PageCells,     \* cells of a page: 4096 / 2; more than the screen
          BufSize,       \* SCREEN_BUF_SIZE: 128
          Texts,         \* what programs write: sequences over {"a", "nl"}
          Keys,          \* the kinds of key typed
          MaxEvents      \* bound: key events and system calls, drawings

KeyKinds == {"char", "enter", "back", "other", "ctrlL"}

ASSUME TerminalsAssumption == NumTerminals \in Nat \ {0}
ASSUME GeometryAssumption ==
  /\ NUM_COLS \in Nat \ {0} /\ NUM_ROWS \in Nat \ {0, 1} /\ NUM_ROWS < 256
  /\ PageCells \in Nat /\ PageCells > NUM_COLS * NUM_ROWS
ASSUME InputsAssumption ==
  /\ BufSize \in Nat \ {0} /\ MaxEvents \in Nat /\ Keys \subseteq KeyKinds
  /\ Texts \subseteq Seq({"a", "nl"})

Term == 0 .. NumTerminals - 1
Blank == -1

ScreenCells == 0 .. NUM_COLS * NUM_ROWS - 1
Offsets == 0 .. PageCells - 1

(* Physical pages: buffer t of terminal t, and the video memory.            *)
Video == NumTerminals
Frames == Term \cup {Video}

(* Mutants are plausible slips, put in place of the definition after them.  *)
OneAddress(t) == 0
VidmemAddr(t) == t * PageCells

VARIABLES
  mem,                   \* the physical pages
  page_table,            \* Page_Table_Entry_For_Video
  cursor,                \* terminal_t.cursor_x and cursor_y
  fault,                 \* the kernel wrote to a page that is not mapped
  screen_buf,            \* the typed line, of which each character is a return or not
  enter_flag,
  terminal_num_display,
  terminal_num,
  updating,              \* terminals in terminal_write, past its sti()
  screen_start,          \* what vidmap gave the terminal's program, or None
  events                 \* counts up to MaxEvents

lineVars == <<screen_buf, enter_flag>>
machineVars == <<mem, page_table, cursor, fault>>
vars == <<machineVars, lineVars, terminal_num_display, terminal_num, updating,
          screen_start, events>>

None == -1

-----------------------------------------------------------------------------
(* terminal_init: terminal 0 is displayed, every screen is blank.           *)
VideoPages(tid) == [t \in Term |-> IF t = tid THEN Video ELSE t]

Init ==
  /\ mem = [f \in Frames |-> [i \in Offsets |-> Blank]]
  /\ page_table = VideoPages(0)
  /\ cursor = [t \in Term |-> [x |-> 0, y |-> 0]]
  /\ fault = FALSE
  /\ screen_buf = [t \in Term |-> <<>>]
  /\ enter_flag = 0
  /\ terminal_num_display = 0 /\ terminal_num = 0
  /\ updating = {}
  /\ screen_start = [t \in Term |-> None]
  /\ events = 0

-----------------------------------------------------------------------------
(* The functions of terminal.c take a machine state to the next one.        *)
Machine == [mem |-> mem, page |-> page_table, cursor |-> cursor, fault |-> fault]

Becomes(s) ==
  /\ mem' = s.mem /\ page_table' = s.page
  /\ cursor' = s.cursor /\ fault' = s.fault

Down(c) == [x |-> 0, y |-> (c.y + 1) % 256]

PutAt(s, addr, c) ==
  LET page == addr \div PageCells
  IN  IF page \in Term
      THEN [s EXCEPT !.mem[s.page[page]][addr % PageCells] = c]
      ELSE [s EXCEPT !.fault = TRUE]

(* The cell at the cursor of terminal t.                                    *)
Put(s, t, c) ==
  PutAt(s, VidmemAddr(t) + NUM_COLS * s.cursor[t].y + s.cursor[t].x, c)

Scrolled(page) ==
  [i \in Offsets |->
     IF i + NUM_COLS \in ScreenCells THEN page[i + NUM_COLS]
     ELSE IF i \in ScreenCells THEN Blank ELSE page[i]]

(* The scheduled terminal is scrolled, and its cursor moved.                *)
ScrollUp(s) ==
  [s EXCEPT !.mem[s.page[terminal_num]] = Scrolled(@),
            !.cursor[terminal_num] = [x |-> 0, y |-> NUM_ROWS - 1]]

(* update_cursor scrolls for a cursor below the screen, but does not change *)
(* the terminal's own cursor unless that is the scheduled one.              *)
UpdateCursor(s, t) == IF s.cursor[t].y >= NUM_ROWS THEN ScrollUp(s) ELSE s

(* One turn of terminal_write's loop.  cursor_x is below NUM_COLS at its    *)
(* start, as TypeOK states, so the wrap at the top of the loop is dead code.*)
AfterLetter(s, t) ==
  LET put == Put(s, t, t)
  IN  IF s.cursor[t].x + 1 >= NUM_COLS
      THEN [put EXCEPT !.cursor[t] = Down(@)]
      ELSE [put EXCEPT !.cursor[t].x = @ + 1]

AfterNewline(s, t) ==
  LET down == [s EXCEPT !.cursor[t] = Down(@)]
  IN  IF down.cursor[t].y = NUM_ROWS THEN ScrollUp(down) ELSE down

(* A mutant: the row after the last is taken for the last.                  *)
ClampOneLate(s, t) ==
  IF s.cursor[t].y > NUM_ROWS THEN [s EXCEPT !.cursor[t].y = NUM_ROWS - 1] ELSE s

(* The last row is kept when a letter fills it: the call of scroll_up there *)
(* is commented out.                                                        *)
Clamp(s, t) ==
  IF s.cursor[t].y >= NUM_ROWS THEN [s EXCEPT !.cursor[t].y = NUM_ROWS - 1] ELSE s

WriteLetter(s, c) ==
  IF s.fault THEN s
  ELSE Clamp(IF c = "nl" THEN AfterNewline(s, terminal_num)
                         ELSE AfterLetter(s, terminal_num), terminal_num)

AfterText(s, text) ==
  LET after[n \in 0 .. Len(text)] ==
        IF n = 0 THEN s ELSE WriteLetter(after[n - 1], text[n])
  IN after[Len(text)]

-----------------------------------------------------------------------------
(* A program's steps, on the scheduled terminal.                            *)
CanRun == ~fault /\ terminal_num \notin updating
Counted == events < MaxEvents /\ events' = events + 1

(* The loop runs with interrupts off.                                       *)
TerminalWrite(text) ==
  /\ CanRun /\ Counted
  /\ Becomes(AfterText(Machine, text))
  /\ updating' = updating \cup {terminal_num}
  /\ UNCHANGED <<lineVars, terminal_num_display, terminal_num, screen_start>>

(* After sti(): the displayed terminal is compared only now.                *)
WriteUpdates ==
  /\ ~fault /\ terminal_num \in updating
  /\ Becomes(IF terminal_num = terminal_num_display
             THEN UpdateCursor(Machine, terminal_num) ELSE Machine)
  /\ updating' = updating \ {terminal_num}
  /\ UNCHANGED <<lineVars, terminal_num_display, terminal_num, screen_start, events>>

(* The end of a terminal_read: LineInput has the whole of it.               *)
ReadTakes ==
  /\ CanRun /\ Counted
  /\ enter_flag = 1 /\ terminal_num = terminal_num_display
  /\ enter_flag' = 0
  /\ screen_buf' = [screen_buf EXCEPT ![terminal_num_display] = <<>>]
  /\ UNCHANGED <<machineVars, terminal_num_display, terminal_num, updating, screen_start>>

(* vidmap with an address in the user's page.                               *)
Vidmap ==
  /\ CanRun /\ Counted
  /\ screen_start' = [screen_start EXCEPT ![terminal_num] = VidmemAddr(terminal_num)]
  /\ UNCHANGED <<machineVars, lineVars, terminal_num_display, terminal_num,
                 updating>>

(* The program writes a cell of the screen it mapped.                       *)
Draw(i) ==
  /\ CanRun /\ Counted /\ screen_start[terminal_num] # None
  /\ Becomes(PutAt(Machine, screen_start[terminal_num] + i, terminal_num))
  /\ UNCHANGED <<lineVars, terminal_num_display, terminal_num, updating, screen_start>>

PitTick ==
  /\ ~fault
  /\ terminal_num' = (terminal_num + 1) % NumTerminals
  /\ UNCHANGED <<machineVars, lineVars, terminal_num_display, updating,
                 screen_start, events>>

-----------------------------------------------------------------------------
(* The echo of a key, on the displayed terminal.                            *)
PutcAddr(s, c) ==
  LET d == terminal_num_display
  IN  Put(IF s.cursor[d].y >= NUM_ROWS THEN ScrollUp(s) ELSE s, d, c)

Line == screen_buf[terminal_num_display]
HasRoom == Len(Line) < BufSize - 1

RightPastRow(c) == IF c.x < NUM_COLS THEN [c EXCEPT !.x = @ + 1] ELSE Down(c)
Right(c) == IF c.x < NUM_COLS - 1 THEN [c EXCEPT !.x = @ + 1] ELSE Down(c)

EchoAdded(s, c) ==
  LET d == terminal_num_display
      put == IF c = "nl" THEN s
             ELSE PutcAddr(s, IF c = "nul" THEN Blank ELSE d)
  IN  IF HasRoom THEN UpdateCursor([put EXCEPT !.cursor[d] = Right(@)], d) ELSE s

(* The buffer as add2buf leaves it.                                         *)
Add2Buf(c) ==
  screen_buf' = IF HasRoom
                THEN [screen_buf EXCEPT ![terminal_num_display] = Append(@, c = "nl")]
                ELSE screen_buf

(* enter_press: nothing if the line already ends in a return.  It scrolls   *)
(* the video memory itself.                                                 *)
EchoEnter(s, c) ==
  LET d == terminal_num_display
      down == [EchoAdded(s, c) EXCEPT !.cursor[d] = Down(@)]
  IN  IF down.cursor[d].y >= NUM_ROWS
      THEN [down EXCEPT !.mem[Video] = Scrolled(@), !.cursor[d].y = NUM_ROWS - 1]
      ELSE down

EnterPress(c) ==
  IF Line # <<>> /\ Last(Line)
  THEN UNCHANGED <<machineVars, screen_buf>>
  ELSE Becomes(EchoEnter(Machine, c)) /\ Add2Buf(c)

(* delete_char_from_buf; cursor_y is a uint8_t.                             *)
Left(c) ==
  IF c.x > 0 THEN [c EXCEPT !.x = @ - 1]
  ELSE [x |-> NUM_COLS - 1, y |-> (c.y + 255) % 256]

EchoDeleted(s) ==
  LET d == terminal_num_display
  IN  IF Line # <<>> THEN UpdateCursor([s EXCEPT !.cursor[d] = Left(@)], d) ELSE s

(* delete_char_from_screen blanks the cell even if the line is empty.       *)
Delete ==
  /\ Becomes(PutcAddr(EchoDeleted(Machine), Blank))
  /\ screen_buf' = IF Line = <<>> THEN screen_buf
                   ELSE [screen_buf EXCEPT ![terminal_num_display] = Front(@)]

Ascii(k) == CASE k = "char" -> "a" [] k = "enter" -> "nl"
              [] k = "back" -> "bs" [] OTHER -> "nul"

(* A key event that is neither Ctrl-L nor a switch; while enter_flag is set *)
(* every one of them goes to enter_press.                                   *)
TypeKey(k) ==
  /\ ~fault /\ Counted /\ k \in Keys \ {"ctrlL"}
  /\ enter_flag' = IF k = "enter" THEN 1 ELSE enter_flag
  /\ \/ enter_flag' = 1 /\ EnterPress(Ascii(k))
     \/ enter_flag' = 0 /\ k = "char" /\ Becomes(EchoAdded(Machine, "a")) /\ Add2Buf("a")
     \/ enter_flag' = 0 /\ k = "back" /\ Delete
     \/ enter_flag' = 0 /\ k = "other" /\ UNCHANGED <<machineVars, screen_buf>>
  /\ UNCHANGED <<terminal_num_display, terminal_num, updating, screen_start>>

(* Ctrl-L: clearbuf, clear, and init_cursor, which resets every cursor.     *)
CtrlL ==
  /\ ~fault /\ Counted /\ "ctrlL" \in Keys
  /\ mem' = [mem EXCEPT ![Video] =
               [i \in Offsets |-> IF i \in ScreenCells THEN Blank ELSE @[i]]]
  /\ cursor' = [t \in Term |-> [x |-> 0, y |-> 0]]
  /\ screen_buf' = [screen_buf EXCEPT ![terminal_num_display] = <<>>]
  /\ UNCHANGED <<page_table, fault, enter_flag, terminal_num_display,
                 terminal_num, updating, screen_start>>

(* memcpy of SIZE_OF_VIDMEM: the cells of the screen, not the whole page.   *)
CopyScreen(to, from) == [i \in Offsets |-> IF i \in ScreenCells THEN from[i] ELSE to[i]]

(* swap_terminal maps the pages anew, then moves the two screens.           *)
SwappedUnsaved(s, old, index) ==
  [s EXCEPT !.page = VideoPages(index),
            !.mem[Video] = CopyScreen(@, s.mem[s.page[index]])]

SwappedOneWay(s, old, index) ==
  [s EXCEPT !.page = VideoPages(index),
            !.mem[VideoPages(index)[old]] = CopyScreen(@, s.mem[Video])]

Swapped(s, old, index) ==
  [s EXCEPT !.page = VideoPages(index),
            !.mem[VideoPages(index)[old]] = CopyScreen(@, s.mem[Video]),
            !.mem[Video] = CopyScreen(@, s.mem[s.page[index]])]

SwapTerminal(index) ==
  /\ ~fault /\ index # terminal_num_display
  /\ Becomes(UpdateCursor(Swapped(Machine, terminal_num_display, index), index))
  /\ terminal_num_display' = index
  /\ UNCHANGED <<lineVars, terminal_num, updating, screen_start, events>>

-----------------------------------------------------------------------------
Next ==
  \/ \E text \in Texts : TerminalWrite(text)
  \/ WriteUpdates
  \/ ReadTakes
  \/ Vidmap
  \/ \E i \in ScreenCells : Draw(i)
  \/ PitTick
  \/ \E k \in Keys : TypeKey(k)
  \/ CtrlL
  \/ \E index \in Term : SwapTerminal(index)

Spec == Init /\ [][Next]_vars

-----------------------------------------------------------------------------
Positions == [x : 0 .. NUM_COLS - 1, y : 0 .. 255]

(* Types.  The cursor is never past the end of a row, where terminal_write, *)
(* putc_addr and update_cursor have code for it.                            *)
TypeOK ==
  /\ mem \in [Frames -> [Offsets -> Term \cup {Blank}]]
  /\ page_table \in [Term -> Frames]
  /\ cursor \in [Term -> Positions]
  /\ fault \in BOOLEAN
  /\ \A t \in Term : screen_buf[t] \in Seq(BOOLEAN) /\ Len(screen_buf[t]) < BufSize
  /\ enter_flag \in {0, 1}
  /\ terminal_num_display \in Term /\ terminal_num \in Term
  /\ updating \subseteq Term
  /\ screen_start \in [Term -> {None} \cup {VidmemAddr(t) : t \in Term}]
  /\ events \in 0 .. MaxEvents

(* What terminal t shows, or would show if it were displayed.               *)
Screen(t) == [i \in ScreenCells |-> mem[page_table[t]][i]]

CursorsOnScreen == \A t \in Term : cursor[t].y < NUM_ROWS

(* The displayed terminal's page is the video memory and every other has    *)
(* its own buffer: what a program writes while its terminal is hidden never *)
(* shows, and no two terminals share a page (set_up_virtual_to_video).      *)
PagesApart ==
  /\ page_table[terminal_num_display] = Video
  /\ \A t \in Term \ {terminal_num_display} : page_table[t] = t

Inv == TypeOK /\ PagesApart

(* A switch of the display leaves every terminal's screen as it was, the    *)
(* one shown before and the one shown now (swap_terminal).                  *)
SwapKeepsScreens ==
  [][CursorsOnScreen /\ terminal_num_display' # terminal_num_display
       => \A t \in Term : Screen(t)' = Screen(t)]_vars

(* Output, echo and scrolling change only the screen of the displayed or of *)
(* the scheduled terminal, as long as no cursor is off its screen.          *)
OthersKept ==
  [][CursorsOnScreen
       => \A t \in Term \ {terminal_num, terminal_num_display} :
            Screen(t)' = Screen(t)]_vars

(* No text comes on the screen of another terminal than its writer's, as    *)
(* long as no cursor is off its screen.                                     *)
OwnText == \A t \in Term : \A i \in ScreenCells : Screen(t)[i] \in {t, Blank}
TextStaysOwn == [][CursorsOnScreen /\ OwnText => OwnText']_vars

(* A cursor leaves its screen only at the echo of a key that comes while    *)
(* another terminal than the displayed one is scheduled, whose cursor       *)
(* scroll_up then moves: no output, return, switch or clear takes it there. *)
CursorsKept ==
  [][CursorsOnScreen /\ ~ CursorsOnScreen'
       => terminal_num # terminal_num_display
          /\ enter_flag = 0 /\ \E k \in {"char", "back"} : TypeKey(k)]_vars

-----------------------------------------------------------------------------
(* What the comments and the bug log say, and the code does not do.         *)

Key == (\E k \in Keys : TypeKey(k)) \/ CtrlL

(* "overflow from one keyboard buffer showing on another terminal ...       *)
(* changed putc_addr to more correctly handle overflow and                  *)
(* terminal_num_display specificity": a key changes no hidden screen.       *)
EchoOnDisplayOnly ==
  [][Key => \A t \in Term \ {terminal_num_display} : Screen(t)' = Screen(t)]_vars

(* "if the next letter to print is at the end of the screen, scroll the     *)
(* screen up to print the letter": when a write from the last row leaves    *)
(* the cursor at the start of the last row, that row is empty, as after     *)
(* scroll_up.                                                               *)
LastRow == {i \in ScreenCells : i >= NUM_COLS * (NUM_ROWS - 1)}
FillsLastRow(t) ==
  /\ cursor[t].y = NUM_ROWS - 1 /\ cursor'[t] # cursor[t]
  /\ cursor'[t] = [x |-> 0, y |-> NUM_ROWS - 1]

WriteScrolls ==
  [][(\E text \in Texts : TerminalWrite(text))
       => \A t \in Term :
            FillsLastRow(t) => \A i \in LastRow : Screen(t)'[i] = Blank]_vars

(* "it only resets the cursor of the num_display_terminal's x and y         *)
(* positions": Ctrl-L leaves the cursors of the hidden terminals.           *)
ClearKeepsCursors ==
  [][CtrlL => \A t \in Term \ {terminal_num_display} : cursor'[t] = cursor[t]]_vars

(* "This should take care of line wrapping and scrolling": the echo never   *)
(* writes outside the video pages.                                          *)
NoFault == ~fault

(* "the address returned is always the same".                               *)
SameAddress ==
  \A t, u \in Term :
    screen_start[t] # None /\ screen_start[u] # None => screen_start[t] = screen_start[u]
=============================================================================
