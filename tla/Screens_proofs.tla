--------------------------- MODULE Screens_proofs ---------------------------
(***************************************************************************)
(* The screens, for any number of terminals, any size of the screen and    *)
(* any texts: the pages stay apart, a switch of the display keeps every    *)
(* screen, as long as no cursor is off its screen nothing comes on a       *)
(* screen but from its own terminal, and only an echo while another        *)
(* terminal is scheduled takes a cursor off.                               *)
(***************************************************************************)
EXTENDS Screens, SequenceTheorems, WellFoundedInduction, TLAPS

LEMMA LeastElement ==
  ASSUME NEW T \in SUBSET Nat, T # {}
  PROVE  \E x \in T : \A y \in T : x <= y
<1> DEFINE R == OpToRel(<, Nat)
<1>1. IsWellFoundedOn(R, Nat)
  BY NatLessThanWellFounded
<1>2. \A x, y \in Nat : <<y, x>> \in R <=> y < x
  BY DEF OpToRel
<1> HIDE DEF R
<1>3. PICK x \in T : \A y \in T : ~(<<y, x>> \in R)
  BY <1>1, WFMin
<1>4. ASSUME NEW y \in T PROVE x <= y
  <2>1. ~(y < x)
    BY <1>2, <1>3
  <2> QED BY <2>1
<1> QED BY <1>4

-----------------------------------------------------------------------------
(* Machines, and what a function of terminal.c makes of one.                *)
Content == Term \cup {Blank}
Page == [Offsets -> Content]
Machines == [mem : [Frames -> Page], page : [Term -> Frames],
             cursor : [Term -> Positions], fault : BOOLEAN]

MapsTo(s, r) == r \in Machines /\ r.page = s.page

Apart(s) == \A t, u \in Term : t # u => s.page[t] # s.page[u]
On(s, t) == s.cursor[t].y < NUM_ROWS

(* Only the scheduled terminal's cursor moves.                              *)
Steady(s, r) == \A u \in Term \ {terminal_num} : r.cursor[u] = s.cursor[u]

Shown(s, t, i) == s.mem[s.page[t]][i]
Own(s) == \A t \in Term : \A i \in ScreenCells : Shown(s, t, i) \in {t, Blank}

(* No screen changes but those of the terminals in T, and texts stay on     *)
(* their writer's.                                                          *)
Touches(s, r, T) ==
  /\ \A t \in Term \ T : \A i \in ScreenCells : Shown(r, t, i) = Shown(s, t, i)
  /\ Own(s) => Own(r)

LEMMA Geometry ==
  /\ NumTerminals \in Nat /\ NumTerminals > 0
  /\ NUM_COLS \in Nat /\ NUM_COLS > 0 /\ NUM_ROWS \in Nat /\ NUM_ROWS > 1 /\ NUM_ROWS < 256
  /\ PageCells \in Nat /\ PageCells > 0 /\ PageCells > NUM_COLS * NUM_ROWS
  /\ NUM_COLS * NUM_ROWS \in Nat
<1>1. NUM_COLS \in Nat /\ NUM_ROWS \in Nat
  BY GeometryAssumption
<1>2. NUM_COLS * NUM_ROWS \in Nat
  BY <1>1
<1> QED BY <1>2, GeometryAssumption, TerminalsAssumption

LEMMA CellsAreOffsets == ScreenCells \subseteq Offsets
  BY Geometry DEF ScreenCells, Offsets

LEMMA SameTouches ==
  ASSUME NEW s, NEW r, NEW T, r.page = s.page, r.mem = s.mem
  PROVE  Touches(s, r, T)
  BY DEF Touches, Own, Shown

LEMMA TouchesTrans ==
  ASSUME NEW s, NEW q, NEW r, NEW T, Touches(s, q, T), Touches(q, r, T)
  PROVE  Touches(s, r, T)
  BY DEF Touches

(* Cursors.                                                                 *)
LEMMA CursorTypes ==
  ASSUME NEW c \in Positions
  PROVE  /\ Down(c) \in Positions /\ Right(c) \in Positions /\ Left(c) \in Positions
         /\ c.x \in Nat /\ c.x < NUM_COLS /\ c.y \in Nat /\ c.y < 256
         /\ c.x + 1 < NUM_COLS => [c EXCEPT !.x = @ + 1] \in Positions
         /\ [c EXCEPT !.y = NUM_ROWS - 1] \in Positions
         /\ [x |-> 0, y |-> NUM_ROWS - 1] \in Positions
         /\ [x |-> 0, y |-> 0] \in Positions
<1>1. c.x \in 0 .. NUM_COLS - 1 /\ c.y \in 0 .. 255 /\ c = [x |-> c.x, y |-> c.y]
  BY DEF Positions
<1>2. (c.y + 1) % 256 \in 0 .. 255 /\ (c.y + 255) % 256 \in 0 .. 255
  BY <1>1
<1>3. Down(c) \in Positions
  BY <1>2, Geometry DEF Down, Positions
<1>4. [x |-> NUM_COLS - 1, y |-> (c.y + 255) % 256] \in Positions
  BY <1>2, Geometry DEF Positions
<1>5. c.x > 0 => [c EXCEPT !.x = @ - 1] \in Positions
  BY <1>1, Geometry DEF Positions
<1>6. c.x + 1 < NUM_COLS => [c EXCEPT !.x = @ + 1] \in Positions
  BY <1>1, Geometry DEF Positions
<1>7. [c EXCEPT !.y = NUM_ROWS - 1] \in Positions
  BY <1>1, Geometry DEF Positions
<1>8. [x |-> 0, y |-> NUM_ROWS - 1] \in Positions /\ [x |-> 0, y |-> 0] \in Positions
  BY Geometry DEF Positions
<1>9. Left(c) \in Positions
  BY <1>1, <1>4, <1>5 DEF Left
<1>10. Right(c) \in Positions
  BY <1>1, <1>3, <1>6, Geometry DEF Right
<1>11. c.x \in Nat /\ c.x < NUM_COLS /\ c.y \in Nat /\ c.y < 256
  BY <1>1, Geometry
<1> QED BY <1>3, <1>6, <1>7, <1>8, <1>9, <1>10, <1>11

-----------------------------------------------------------------------------
(* Division by the size of a page.                                          *)
LEMMA PageOf ==
  ASSUME NEW b \in Nat, b > 0, NEW p \in Nat, NEW r \in Nat, r < b
  PROVE  (p * b + r) \div b = p /\ (p * b + r) % b = r
<1> DEFINE a == p * b + r
           q == a \div b
           m == a % b
<1>1. a \in Nat /\ q \in Int /\ m \in Nat /\ m < b /\ a = b * q + m
  <2>1. p * b \in Nat
    BY Z3
  <2>2. a \in Nat
    BY <2>1
  <2> HIDE DEF a
  <2> QED BY <2>2, Z3
<1>2. b * (p - q) = m - r
  <2>1. p * b + r = b * q + m
    BY <1>1
  <2> HIDE DEF a, q, m
  <2> QED BY <1>1, <2>1, Z3
<1> HIDE DEF q, m, a
<1>3. ~(p - q >= 1)
  <2>1. SUFFICES ASSUME p - q >= 1 PROVE FALSE
    OBVIOUS
  <2>2. b * (p - q) >= b
    BY <1>1, <2>1, Z3
  <2> QED BY <1>1, <1>2, <2>2
<1>4. ~(q - p >= 1)
  <2>1. SUFFICES ASSUME q - p >= 1 PROVE FALSE
    OBVIOUS
  <2>2. b * (p - q) <= -b
    BY <1>1, <2>1, Z3
  <2> QED BY <1>1, <1>2, <2>2
<1>5. p = q
  BY <1>1, <1>3, <1>4
<1>6. m = r
  BY <1>1, <1>2, <1>5
<1> QED BY <1>5, <1>6 DEF q, m, a

LEMMA CellBelow ==
  ASSUME NEW c \in Nat, NEW r \in Nat, NEW y \in Nat, NEW x \in Nat, x < c, y < r
  PROVE  c * y + x \in Nat /\ c * y + x < c * r
<1>1. c * y \in Nat /\ c * r \in Nat /\ c * y + c <= c * r
  BY Z3
<1> QED BY <1>1

-----------------------------------------------------------------------------
(* Writing a cell.                                                          *)
LEMMA PutAtMaps ==
  ASSUME NEW s \in Machines, NEW addr \in Nat, NEW c \in Content
  PROVE  /\ MapsTo(s, PutAt(s, addr, c))
         /\ PutAt(s, addr, c).cursor = s.cursor
<1> DEFINE p == addr \div PageCells
           i == addr % PageCells
           f == s.page[p]
<1>1. i \in Offsets
  BY Geometry, Z3 DEF Offsets
<1>2. CASE p \in Term
  <2>1. f \in Frames /\ s.mem[f] \in Page /\ s.mem \in [Frames -> Page]
    BY <1>2 DEF Machines
  <2>2. [s.mem[f] EXCEPT ![i] = c] \in Page
    BY <1>1, <2>1 DEF Page
  <2> DEFINE m == [s.mem EXCEPT ![f] = [s.mem[f] EXCEPT ![i] = c]]
  <2>3. m \in [Frames -> Page]
    BY <2>1, <2>2
  <2>4. PutAt(s, addr, c) = [s EXCEPT !.mem = m]
    BY <1>2 DEF PutAt, Machines
  <2> HIDE DEF m
  <2> QED BY <2>3, <2>4 DEF Machines, MapsTo
<1>3. CASE p \notin Term
  <2>1. PutAt(s, addr, c) = [s EXCEPT !.fault = TRUE]
    BY <1>3 DEF PutAt
  <2> QED BY <2>1 DEF Machines, MapsTo
<1> QED BY <1>2, <1>3

(* In the page of a terminal.                                               *)
LEMMA PutAtPage ==
  ASSUME NEW s \in Machines, NEW t \in Term, NEW i \in Offsets, NEW c \in Content
  PROVE  PutAt(s, VidmemAddr(t) + i, c) =
           [s EXCEPT !.mem = [s.mem EXCEPT ![s.page[t]] = [s.mem[s.page[t]] EXCEPT ![i] = c]]]
<1> DEFINE addr == VidmemAddr(t) + i
<1>1. addr = t * PageCells + i
  BY DEF VidmemAddr
<1>2. i \in Nat /\ i < PageCells /\ t \in Nat
  BY Geometry DEF Offsets, Term
<1>3. addr \div PageCells = t /\ addr % PageCells = i
  BY <1>1, <1>2, Geometry, PageOf
<1> HIDE DEF addr
<1>4. PutAt(s, addr, c) =
        [s EXCEPT !.mem = [s.mem EXCEPT ![s.page[t]] = [s.mem[s.page[t]] EXCEPT ![i] = c]]]
  BY <1>3 DEF PutAt, Machines
<1> QED BY <1>4 DEF addr

LEMMA PutAtTouches ==
  ASSUME NEW s \in Machines, Apart(s), NEW t \in Term, NEW i \in Offsets, NEW c \in {t, Blank},
         NEW T, t \in T
  PROVE  /\ Touches(s, PutAt(s, VidmemAddr(t) + i, c), T)
         /\ PutAt(s, VidmemAddr(t) + i, c).fault = s.fault
<1> DEFINE r == PutAt(s, VidmemAddr(t) + i, c)
           f == s.page[t]
           m == [s.mem EXCEPT ![f] = [s.mem[f] EXCEPT ![i] = c]]
<1>1. r = [s EXCEPT !.mem = m]
  BY PutAtPage DEF Content
<1>2. r.mem = m /\ r.page = s.page /\ r.fault = s.fault
  BY <1>1 DEF Machines
<1>3. /\ s.mem \in [Frames -> Page] /\ f \in Frames /\ s.mem[f] \in Page
      /\ \A u \in Term : s.page[u] \in Frames
  BY DEF Machines
<1>4. \A u \in Term \ {t} : m[s.page[u]] = s.mem[s.page[u]]
  BY <1>3 DEF Apart
<1>5. \A j \in Offsets : m[f][j] = IF j = i THEN c ELSE s.mem[f][j]
  BY <1>3 DEF Page
<1> HIDE DEF r, m
<1>6. \A u \in Term \ T : \A j \in ScreenCells : Shown(r, u, j) = Shown(s, u, j)
  BY <1>2, <1>4 DEF Shown
<1>7. ASSUME Own(s) PROVE Own(r)
  <2>1. ASSUME NEW u \in Term, NEW j \in ScreenCells PROVE Shown(r, u, j) \in {u, Blank}
    <3>1. Shown(s, u, j) \in {u, Blank}
      BY <1>7 DEF Own
    <3>2. CASE u = t
      BY <1>2, <1>5, <3>1, <3>2, CellsAreOffsets DEF Shown
    <3>3. CASE u # t
      BY <1>2, <1>4, <3>1, <3>3 DEF Shown
    <3> QED BY <3>2, <3>3
  <2> QED BY <2>1 DEF Own
<1> QED BY <1>2, <1>6, <1>7 DEF r, Touches

(* At the cursor.                                                           *)
LEMMA PutMaps ==
  ASSUME NEW s \in Machines, NEW t \in Term, NEW c \in Content
  PROVE  MapsTo(s, Put(s, t, c)) /\ Put(s, t, c).cursor = s.cursor
<1>1. s.cursor[t] \in Positions
  BY DEF Machines
<1>2. s.cursor[t].x \in Nat /\ s.cursor[t].y \in Nat
  BY <1>1, CursorTypes
<1>3. VidmemAddr(t) + NUM_COLS * s.cursor[t].y + s.cursor[t].x \in Nat
  <2>1. t * PageCells \in Nat /\ NUM_COLS * s.cursor[t].y \in Nat
    BY <1>2, Geometry, Z3 DEF Term
  <2> QED BY <1>2, <2>1 DEF VidmemAddr
<1> QED BY <1>3, PutAtMaps DEF Put

LEMMA PutTouches ==
  ASSUME NEW s \in Machines, Apart(s), NEW t \in Term, NEW c \in {t, Blank},
         NEW T, t \in T, On(s, t)
  PROVE  Touches(s, Put(s, t, c), T) /\ Put(s, t, c).fault = s.fault
<1> DEFINE i == NUM_COLS * s.cursor[t].y + s.cursor[t].x
<1>1. s.cursor[t] \in Positions
  BY DEF Machines
<1>2. /\ s.cursor[t].x \in Nat /\ s.cursor[t].x < NUM_COLS
      /\ s.cursor[t].y \in Nat /\ s.cursor[t].y < NUM_ROWS
  BY <1>1, CursorTypes DEF On
<1>3. i \in Nat /\ i < NUM_COLS * NUM_ROWS /\ NUM_COLS * s.cursor[t].y \in Nat
  BY <1>2, Geometry, CellBelow, Z3
<1>4. i \in Offsets
  BY <1>3, Geometry DEF Offsets
<1>5. VidmemAddr(t) + NUM_COLS * s.cursor[t].y + s.cursor[t].x = VidmemAddr(t) + i
  <2>1. t * PageCells \in Nat
    BY Geometry, Z3 DEF Term
  <2> QED BY <1>2, <1>3, <2>1 DEF VidmemAddr
<1>6. Put(s, t, c) = PutAt(s, VidmemAddr(t) + i, c)
  BY <1>5 DEF Put
<1> HIDE DEF i
<1> QED BY <1>4, <1>6, PutAtTouches

-----------------------------------------------------------------------------
(* Changes of the cursor alone.                                             *)
LEMMA CursorMoves ==
  ASSUME NEW s \in Machines, NEW t \in Term, NEW c \in Positions
  PROVE  LET r == [s EXCEPT !.cursor = [s.cursor EXCEPT ![t] = c]]
         IN  /\ MapsTo(s, r) /\ r.fault = s.fault /\ r.mem = s.mem
             /\ r.cursor = [s.cursor EXCEPT ![t] = c] /\ r.cursor[t] = c
             /\ \A T : Touches(s, r, T)
<1> DEFINE r == [s EXCEPT !.cursor = [s.cursor EXCEPT ![t] = c]]
<1>1. /\ MapsTo(s, r) /\ r.fault = s.fault /\ r.mem = s.mem /\ r.page = s.page
      /\ r.cursor = [s.cursor EXCEPT ![t] = c] /\ r.cursor[t] = c
  BY DEF Machines, MapsTo
<1> HIDE DEF r
<1>2. \A T : Touches(s, r, T)
  BY <1>1, SameTouches
<1> QED BY <1>1, <1>2 DEF r

(* Scrolling.                                                               *)
LEMMA ScrolledPage ==
  ASSUME NEW page \in Page
  PROVE  /\ Scrolled(page) \in Page
         /\ \A S : (\A i \in ScreenCells : page[i] \in S \cup {Blank})
                   => \A i \in ScreenCells : Scrolled(page)[i] \in S \cup {Blank}
<1>1. \A i \in Offsets : Scrolled(page)[i] =
        IF i + NUM_COLS \in ScreenCells THEN page[i + NUM_COLS]
        ELSE IF i \in ScreenCells THEN Blank ELSE page[i]
  BY DEF Scrolled
<1>2. Scrolled(page) \in Page
  <2>1. \A i \in Offsets : Scrolled(page)[i] \in Content
    BY <1>1, CellsAreOffsets DEF Page, Content
  <2> QED BY <2>1 DEF Page, Scrolled
<1>3. ASSUME NEW S, \A i \in ScreenCells : page[i] \in S \cup {Blank}, NEW i \in ScreenCells
      PROVE  Scrolled(page)[i] \in S \cup {Blank}
  BY <1>1, <1>3, CellsAreOffsets
<1> QED BY <1>2, <1>3

(* What happens to the memory when the page of one terminal is scrolled.    *)
LEMMA MemoryScrolled ==
  ASSUME NEW s \in Machines, NEW t \in Term, NEW r, r.page = s.page,
         r.mem = [s.mem EXCEPT ![s.page[t]] = Scrolled(s.mem[s.page[t]])]
  PROVE  /\ r.mem \in [Frames -> Page]
         /\ Apart(s) => \A T : t \in T => Touches(s, r, T)
<1> DEFINE f == s.page[t]
<1>1. /\ s.mem \in [Frames -> Page] /\ f \in Frames /\ s.mem[f] \in Page
      /\ \A u \in Term : s.page[u] \in Frames
  BY DEF Machines
<1>2. Scrolled(s.mem[f]) \in Page
  BY <1>1, ScrolledPage
<1>3. r.mem \in [Frames -> Page] /\ r.mem[f] = Scrolled(s.mem[f])
  BY <1>1, <1>2
<1>4. ASSUME Apart(s), NEW T, t \in T PROVE Touches(s, r, T)
  <2>1. \A u \in Term \ {t} : r.mem[r.page[u]] = s.mem[s.page[u]]
    BY <1>1, <1>4 DEF Apart
  <2>2. \A u \in Term \ T : \A i \in ScreenCells : Shown(r, u, i) = Shown(s, u, i)
    BY <1>4, <2>1 DEF Shown
  <2>3. ASSUME Own(s), NEW u \in Term, NEW i \in ScreenCells
        PROVE  Shown(r, u, i) \in {u, Blank}
    <3>1. CASE u # t
      BY <2>1, <2>3, <3>1 DEF Shown, Own
    <3>2. CASE u = t
      <4>1. \A j \in ScreenCells : s.mem[f][j] \in {t} \cup {Blank}
        BY <2>3 DEF Shown, Own
      <4>2. Scrolled(s.mem[f])[i] \in {t} \cup {Blank}
        BY <1>1, <4>1, ScrolledPage
      <4> QED BY <1>3, <3>2, <4>2 DEF Shown
    <3> QED BY <3>1, <3>2
  <2> QED BY <2>2, <2>3 DEF Touches, Own
<1> QED BY <1>3, <1>4

LEMMA ScrollUpDoes ==
  ASSUME NEW s \in Machines, terminal_num \in Term
  PROVE  /\ MapsTo(s, ScrollUp(s)) /\ ScrollUp(s).fault = s.fault
         /\ ScrollUp(s).cursor = [s.cursor EXCEPT ![terminal_num] = [x |-> 0, y |-> NUM_ROWS - 1]]
         /\ Apart(s) => \A T : terminal_num \in T => Touches(s, ScrollUp(s), T)
<1> DEFINE r == ScrollUp(s)
           t == terminal_num
           m == [s.mem EXCEPT ![s.page[t]] = Scrolled(s.mem[s.page[t]])]
           c == [s.cursor EXCEPT ![t] = [x |-> 0, y |-> NUM_ROWS - 1]]
<1>1. r = [[s EXCEPT !.mem = m] EXCEPT !.cursor = c]
  BY DEF ScrollUp, Machines
<1>2. r.mem = m /\ r.page = s.page /\ r.cursor = c /\ r.fault = s.fault
  BY <1>1 DEF Machines
<1>3. c \in [Term -> Positions]
  <2>1. [x |-> 0, y |-> NUM_ROWS - 1] \in Positions
    BY Geometry DEF Positions
  <2> QED BY <2>1 DEF Machines
<1> HIDE DEF r
<1>4. /\ m \in [Frames -> Page]
      /\ Apart(s) => \A T : t \in T => Touches(s, r, T)
  <2>1. t \in Term /\ r.page = s.page
    BY <1>2
  <2>2. r.mem = [s.mem EXCEPT ![s.page[t]] = Scrolled(s.mem[s.page[t]])]
    BY <1>2
  <2> HIDE DEF t, m
  <2>3. r.mem \in [Frames -> Page] /\ (Apart(s) => \A T : t \in T => Touches(s, r, T))
    BY <2>1, <2>2, MemoryScrolled
  <2> QED BY <1>2, <2>3
<1> HIDE DEF m, c
<1>5. r \in Machines
  <2>1. [s EXCEPT !.mem = m] \in Machines
    BY <1>4 DEF Machines
  <2> QED BY <1>1, <1>3, <2>1 DEF Machines
<1> QED BY <1>2, <1>4, <1>5 DEF r, MapsTo, c

LEMMA UpdateCursorDoes ==
  ASSUME NEW s \in Machines, terminal_num \in Term, NEW t \in Term
  PROVE  /\ MapsTo(s, UpdateCursor(s, t)) /\ UpdateCursor(s, t).fault = s.fault
         /\ On(s, t) => UpdateCursor(s, t) = s
         /\ Apart(s) => \A T : terminal_num \in T => Touches(s, UpdateCursor(s, t), T)
<1>1. CASE On(s, t)
  <2>1. UpdateCursor(s, t) = s
    <3>1. s.cursor[t] \in Positions
      BY DEF Machines
    <3>2. ~(s.cursor[t].y >= NUM_ROWS)
      BY <1>1, <3>1, Geometry DEF On, Positions
    <3> QED BY <3>2 DEF UpdateCursor
  <2> QED BY <2>1, SameTouches DEF MapsTo
<1>2. CASE ~On(s, t)
  <2>1. s.cursor[t] \in Positions
    BY DEF Machines
  <2>2. s.cursor[t].y >= NUM_ROWS
    BY <1>2, <2>1, Geometry DEF On, Positions
  <2>3. UpdateCursor(s, t) = ScrollUp(s)
    BY <2>2 DEF UpdateCursor
  <2> QED BY <1>2, <2>3, ScrollUpDoes
<1> QED BY <1>1, <1>2

-----------------------------------------------------------------------------
(* terminal_write.                                                          *)
LEMMA LetterDoes ==
  ASSUME NEW s \in Machines, terminal_num \in Term
  PROVE  LET r == AfterLetter(s, terminal_num)
         IN  /\ MapsTo(s, r) /\ Steady(s, r)
             /\ Apart(s) /\ On(s, terminal_num) => Touches(s, r, {terminal_num})
<1> DEFINE t == terminal_num
           put == Put(s, t, t)
           r == AfterLetter(s, t)
<1>1. t \in Content
  BY DEF Content
<1>2. put \in Machines /\ put.page = s.page /\ put.cursor = s.cursor
  BY <1>1, PutMaps DEF MapsTo
<1>3. Apart(s) /\ On(s, t) => Touches(s, put, {t})
  BY PutTouches
<1> HIDE DEF put
<1>4. \E c \in Positions : r = [put EXCEPT !.cursor = [put.cursor EXCEPT ![t] = c]]
  <2>1. put.cursor[t] \in Positions /\ s.cursor[t] = put.cursor[t]
    BY <1>2 DEF Machines
  <2>2. /\ s.cursor[t].x \in Nat /\ Down(put.cursor[t]) \in Positions
        /\ s.cursor[t].x + 1 < NUM_COLS => [put.cursor[t] EXCEPT !.x = @ + 1] \in Positions
    BY <2>1, CursorTypes
  <2>3. CASE s.cursor[t].x + 1 >= NUM_COLS
    <3>1. r = [put EXCEPT !.cursor = [put.cursor EXCEPT ![t] = Down(put.cursor[t])]]
      BY <2>3 DEF AfterLetter, put
    <3> QED BY <2>2, <3>1
  <2>4. CASE ~(s.cursor[t].x + 1 >= NUM_COLS)
    <3>1. r = [put EXCEPT !.cursor = [put.cursor EXCEPT ![t] = [put.cursor[t] EXCEPT !.x = @ + 1]]]
      BY <2>4 DEF AfterLetter, put
    <3> QED BY <2>2, <2>4, <3>1, Geometry
  <2> QED BY <2>3, <2>4
<1>5. PICK c \in Positions : r = [put EXCEPT !.cursor = [put.cursor EXCEPT ![t] = c]]
  BY <1>4
<1> HIDE DEF r
<1>9. Steady(s, r)
  <2>1. r.cursor = [s.cursor EXCEPT ![t] = c]
    BY <1>2, <1>5, CursorMoves
  <2> QED BY <2>1 DEF Steady, Machines
<1>6. MapsTo(put, r) /\ Touches(put, r, {t})
  BY <1>2, <1>5, CursorMoves
<1>7. MapsTo(s, r)
  BY <1>2, <1>6 DEF MapsTo
<1>8. Apart(s) /\ On(s, t) => Touches(s, r, {t})
  BY <1>3, <1>6, TouchesTrans
<1> QED BY <1>7, <1>8, <1>9 DEF r

LEMMA NewlineDoes ==
  ASSUME NEW s \in Machines, terminal_num \in Term
  PROVE  LET r == AfterNewline(s, terminal_num)
         IN  /\ MapsTo(s, r) /\ Steady(s, r)
             /\ Apart(s) => Touches(s, r, {terminal_num})
<1> DEFINE t == terminal_num
           c == Down(s.cursor[t])
           down == [s EXCEPT !.cursor = [s.cursor EXCEPT ![t] = c]]
           r == AfterNewline(s, t)
<1>1. c \in Positions
  BY CursorTypes DEF Machines
<1>2. MapsTo(s, down) /\ Touches(s, down, {t}) /\ down.cursor = [s.cursor EXCEPT ![t] = c]
  BY <1>1, CursorMoves
<1>3. r = IF down.cursor[t].y = NUM_ROWS THEN ScrollUp(down) ELSE down
  BY DEF AfterNewline
<1> HIDE DEF down, r
<1>4. MapsTo(down, r) /\ (Apart(down) => Touches(down, r, {t}))
  BY <1>2, <1>3, ScrollUpDoes, SameTouches DEF MapsTo
<1>5. Apart(s) => Apart(down)
  BY <1>2 DEF Apart, MapsTo
<1>6. Steady(s, r)
  <2>1. \A u \in Term \ {t} : down.cursor[u] = s.cursor[u]
    BY <1>2 DEF Machines
  <2>2. ScrollUp(down).cursor = [down.cursor EXCEPT ![t] = [x |-> 0, y |-> NUM_ROWS - 1]]
        /\ down.cursor \in [Term -> Positions]
    BY <1>2, ScrollUpDoes DEF MapsTo, Machines
  <2> QED BY <1>3, <2>1, <2>2 DEF Steady
<1> QED BY <1>2, <1>4, <1>5, <1>6, TouchesTrans DEF MapsTo, r

LEMMA WriteLetterDoes ==
  ASSUME NEW s \in Machines, terminal_num \in Term, NEW c
  PROVE  /\ MapsTo(s, WriteLetter(s, c)) /\ Steady(s, WriteLetter(s, c))
         /\ Apart(s) /\ On(s, terminal_num) =>
              /\ Touches(s, WriteLetter(s, c), {terminal_num})
              /\ On(WriteLetter(s, c), terminal_num)
<1> DEFINE t == terminal_num
           q == IF c = "nl" THEN AfterNewline(s, t) ELSE AfterLetter(s, t)
<1>1. CASE s.fault
  <2>1. WriteLetter(s, c) = s
    BY <1>1 DEF WriteLetter
  <2> QED BY <2>1, SameTouches DEF MapsTo, Steady
<1>2. CASE ~s.fault
  <2>1. MapsTo(s, q) /\ Steady(s, q) /\ (Apart(s) /\ On(s, t) => Touches(s, q, {t}))
    BY LetterDoes, NewlineDoes
  <2>2. WriteLetter(s, c) = Clamp(q, t)
    BY <1>2 DEF WriteLetter
  <2> HIDE DEF q
  <2>3. q \in Machines /\ q.page = s.page /\ q.cursor[t] \in Positions
    BY <2>1 DEF MapsTo, Machines
  <2>4. /\ MapsTo(q, Clamp(q, t)) /\ Touches(q, Clamp(q, t), {t}) /\ On(Clamp(q, t), t)
        /\ Steady(q, Clamp(q, t))
    <3>1. CASE q.cursor[t].y >= NUM_ROWS
      <4> DEFINE d == [q.cursor[t] EXCEPT !.y = NUM_ROWS - 1]
      <4>1. d \in Positions
        BY <2>3, CursorTypes
      <4>2. Clamp(q, t) = [q EXCEPT !.cursor = [q.cursor EXCEPT ![t] = d]]
        BY <3>1 DEF Clamp
      <4>3. d.y < NUM_ROWS
        BY <2>3, Geometry DEF Positions
      <4> HIDE DEF d
      <4>4. Steady(q, Clamp(q, t))
        <5>1. Clamp(q, t).cursor = [q.cursor EXCEPT ![t] = d]
          BY <2>3, <4>1, <4>2, CursorMoves
        <5> QED BY <2>3, <5>1 DEF Steady, Machines
      <4> QED BY <2>3, <4>1, <4>2, <4>3, <4>4, CursorMoves DEF On
    <3>2. CASE ~(q.cursor[t].y >= NUM_ROWS)
      <4>1. Clamp(q, t) = q
        BY <3>2 DEF Clamp
      <4>2. q.cursor[t].y < NUM_ROWS
        BY <2>3, <3>2, Geometry DEF Positions
      <4> QED BY <2>3, <4>1, <4>2, SameTouches DEF On, MapsTo, Steady
    <3> QED BY <3>1, <3>2
  <2>5. Steady(s, Clamp(q, t))
    BY <2>1, <2>4 DEF Steady
  <2> QED BY <2>1, <2>2, <2>4, <2>5, TouchesTrans DEF MapsTo
<1> QED BY <1>1, <1>2

(* The body of AfterText: some function satisfies it, by a least length for *)
(* which none does.                                                         *)
Turn(f, n, s, text) == IF n = 0 THEN s ELSE WriteLetter(f[n - 1], text[n])

LEMMA TurnsDefine ==
  ASSUME NEW s, NEW text, NEW N \in Nat
  PROVE  \E g : g = [n \in 0 .. N |-> Turn(g, n, s, text)]
<1> DEFINE P(k) == \E g : g = [n \in 0 .. k |-> Turn(g, n, s, text)]
           T == {k \in Nat : ~P(k)}
<1>1. ASSUME NEW k \in Nat, k > 0 => P(k - 1) PROVE P(k)
  <2>1. PICK g : k > 0 => g = [n \in 0 .. k - 1 |-> Turn(g, n, s, text)]
    BY <1>1
  <2> DEFINE h == [n \in 0 .. k |-> IF n = k THEN Turn(g, k, s, text) ELSE g[n]]
  <2>2. ASSUME NEW n \in 0 .. k PROVE h[n] = Turn(h, n, s, text)
    <3>1. Turn(h, n, s, text) = Turn(g, n, s, text)
      <4>1. CASE n = 0
        BY <4>1 DEF Turn
      <4>2. CASE n # 0
        <5>1. n - 1 \in 0 .. k /\ n - 1 # k
          BY <4>2
        <5>2. h[n - 1] = g[n - 1]
          BY <5>1
        <5> HIDE DEF h
        <5> QED BY <4>2, <5>2, Zenon DEF Turn
      <4> QED BY <4>1, <4>2
    <3>2. CASE n = k
      BY <3>1, <3>2
    <3>3. CASE n # k
      <4>1. n \in 0 .. k - 1 /\ k > 0
        BY <3>3
      <4>2. g[n] = Turn(g, n, s, text)
        BY <2>1, <4>1
      <4>3. h[n] = g[n]
        BY <3>3
      <4> QED BY <3>1, <4>2, <4>3
    <3> QED BY <3>2, <3>3
  <2>3. h = [n \in 0 .. k |-> h[n]]
    OBVIOUS
  <2> HIDE DEF h
  <2>4. h = [n \in 0 .. k |-> Turn(h, n, s, text)]
    BY <2>2, <2>3
  <2> QED BY <2>4
<1>2. SUFFICES ASSUME T # {} PROVE FALSE
  OBVIOUS
<1> HIDE DEF P
<1>3. PICK x \in T : \A y \in T : x <= y
  <2>1. T \in SUBSET Nat
    OBVIOUS
  <2> HIDE DEF T
  <2> QED BY <1>2, <2>1, LeastElement
<1>4. x \in Nat /\ ~P(x)
  OBVIOUS
<1>5. x > 0 => P(x - 1)
  <2>1. SUFFICES ASSUME x > 0 PROVE P(x - 1)
    OBVIOUS
  <2>2. x - 1 \in Nat /\ ~(x <= x - 1)
    BY <1>4, <2>1
  <2> QED BY <1>3, <2>2
<1> QED BY <1>1, <1>4, <1>5

LEMMA TextDoes ==
  ASSUME NEW s \in Machines, terminal_num \in Term, NEW text \in Seq({"a", "nl"})
  PROVE  /\ MapsTo(s, AfterText(s, text)) /\ Steady(s, AfterText(s, text))
         /\ Apart(s) /\ On(s, terminal_num) =>
              /\ Touches(s, AfterText(s, text), {terminal_num})
              /\ On(AfterText(s, text), terminal_num)
<1> DEFINE N == Len(text)
           f == CHOOSE g : g = [n \in 0 .. N |-> Turn(g, n, s, text)]
           Good(r) == /\ MapsTo(s, r) /\ Steady(s, r)
                      /\ Apart(s) /\ On(s, terminal_num) =>
                           Touches(s, r, {terminal_num}) /\ On(r, terminal_num)
           T == {n \in 0 .. N : ~Good(f[n])}
<1>1. N \in Nat
  BY LenProperties
<1>2. AfterText(s, text) = f[N]
  BY Zenon DEF AfterText, Turn
<1>3. f = [n \in 0 .. N |-> Turn(f, n, s, text)]
  BY <1>1, TurnsDefine
<1> HIDE DEF f
<1>4. Good(f[0])
  <2>1. f[0] = s
    BY <1>1, <1>3 DEF Turn
  <2> QED BY <2>1, SameTouches DEF MapsTo, Steady
<1>5. ASSUME NEW n \in 1 .. N, Good(f[n - 1]) PROVE Good(f[n])
  <2> DEFINE q == f[n - 1]
             r == f[n]
  <2>1. r = WriteLetter(q, text[n])
    <3>1. n \in 0 .. N /\ n # 0
      BY <1>1
    <3> QED BY <1>3, <3>1 DEF Turn
  <2>2. q \in Machines /\ q.page = s.page /\ Steady(s, q)
    BY <1>5 DEF MapsTo
  <2> HIDE DEF q, r, N
  <2>3. /\ MapsTo(q, r) /\ Steady(q, r)
        /\ Apart(q) /\ On(q, terminal_num) =>
             Touches(q, r, {terminal_num}) /\ On(r, terminal_num)
    BY <2>1, <2>2, WriteLetterDoes
  <2>4. MapsTo(s, r) /\ Steady(s, r)
    BY <2>2, <2>3 DEF MapsTo, Steady
  <2>5. ASSUME Apart(s), On(s, terminal_num)
        PROVE  Touches(s, r, {terminal_num}) /\ On(r, terminal_num)
    <3>1. Touches(s, q, {terminal_num}) /\ On(q, terminal_num)
      BY <1>5, <2>5 DEF q
    <3>2. Apart(q)
      BY <2>2, <2>5 DEF Apart
    <3> QED BY <2>3, <3>1, <3>2, TouchesTrans
  <2> QED BY <2>4, <2>5 DEF r
<1>6. T = {}
  <2>1. SUFFICES ASSUME T # {} PROVE FALSE
    OBVIOUS
  <2>2. T \in SUBSET Nat
    BY <1>1
  <2>3. PICK x \in T : \A y \in T : x <= y
    <3> HIDE DEF T
    <3> QED BY <2>1, <2>2, LeastElement
  <2> HIDE DEF Good
  <2>4. x \in 0 .. N /\ ~Good(f[x])
    OBVIOUS
  <2>5. x \in 1 .. N /\ x - 1 \in 0 .. N
    <3>1. x # 0
      BY <1>4, <2>4
    <3> QED BY <1>1, <2>4, <3>1
  <2>6. Good(f[x - 1])
    <3>1. ~(x <= x - 1)
      BY <1>1, <2>5
    <3> QED BY <2>3, <2>5, <3>1
  <2> QED BY <1>5, <2>4, <2>5, <2>6
<1>7. Good(f[N])
  <2>1. N \in 0 .. N
    BY <1>1
  <2> HIDE DEF Good
  <2> QED BY <1>6, <2>1
<1> QED BY <1>2, <1>7

-----------------------------------------------------------------------------
(* The echo.                                                                *)

(* A cursor in row 255 is past the pages of all terminals, as it is in the  *)
(* code: 80 * 255 cells, and three pages of 2048.                           *)
FarOff == NUM_COLS * 255 >= NumTerminals * PageCells

Two == {terminal_num, terminal_num_display}

LEMMA PutFarOff ==
  ASSUME FarOff, NEW s \in Machines, NEW t \in Term, s.cursor[t].y = 255, NEW c, NEW T
  PROVE  Touches(s, Put(s, t, c), T)
<1> DEFINE x == s.cursor[t].x
           k == NUM_COLS * 255
           b == t * PageCells
           addr == VidmemAddr(t) + NUM_COLS * s.cursor[t].y + s.cursor[t].x
           q == addr \div PageCells
           nb == NumTerminals * PageCells
<1>1. x \in Nat /\ k \in Nat /\ b \in Nat /\ nb \in Nat /\ k >= nb
  <2>1. s.cursor[t] \in Positions
    BY DEF Machines
  <2>2. x \in Nat
    BY <2>1, CursorTypes
  <2>3. k \in Nat
    BY Geometry, Z3
  <2>4. t \in Nat
    BY Geometry DEF Term
  <2>5. b \in Nat /\ nb \in Nat
    BY <2>4, Geometry, Z3
  <2> QED BY <2>2, <2>3, <2>5 DEF FarOff
<1>2. addr = b + k + x
  BY DEF VidmemAddr
<1> HIDE DEF x, k, b
<1>3. addr \in Nat /\ addr >= nb
  BY <1>1, <1>2
<1> HIDE DEF addr
<1>4. ~(q < NumTerminals)
  <2>1. SUFFICES ASSUME q < NumTerminals PROVE FALSE
    OBVIOUS
  <2>2. q \in Int /\ addr < PageCells * q + PageCells
    BY <1>3, Geometry, Z3
  <2>3. PageCells * q + PageCells <= nb
    BY <2>1, <2>2, Geometry, Z3
  <2>4. PageCells * q \in Int
    BY <2>2, Geometry, Z3
  <2> HIDE DEF q, nb
  <2> QED BY <1>1, <1>3, <2>2, <2>3, <2>4, Geometry
<1>5. q \notin Term
  BY <1>4, Geometry DEF Term
<1>6. Put(s, t, c) = [s EXCEPT !.fault = TRUE]
  BY <1>5 DEF Put, PutAt, addr
<1>7. Put(s, t, c).mem = s.mem /\ Put(s, t, c).page = s.page
  BY <1>6 DEF Machines
<1> QED BY <1>7, SameTouches

LEMMA PutcAddrDoes ==
  ASSUME NEW s \in Machines, terminal_num \in Term, terminal_num_display \in Term,
         NEW c \in {terminal_num_display, Blank}
  PROVE  /\ MapsTo(s, PutcAddr(s, c))
         /\ Apart(s) /\ On(s, terminal_num_display) => Touches(s, PutcAddr(s, c), Two)
<1> DEFINE d == terminal_num_display
           q == UpdateCursor(s, d)
<1>1. PutcAddr(s, c) = Put(q, d, c)
  BY DEF PutcAddr, UpdateCursor
<1>2. MapsTo(s, q) /\ (On(s, d) => q = s)
  BY UpdateCursorDoes
<1> HIDE DEF q
<1>3. c \in Content
  BY DEF Content
<1>4. MapsTo(s, Put(q, d, c))
  BY <1>2, <1>3, PutMaps DEF MapsTo
<1>5. Apart(s) /\ On(s, d) => Touches(s, Put(q, d, c), Two)
  BY <1>2, PutTouches DEF Two
<1> QED BY <1>1, <1>4, <1>5

LEMMA EchoAddedDoes ==
  ASSUME NEW s \in Machines, terminal_num \in Term, terminal_num_display \in Term, NEW c
  PROVE  /\ MapsTo(s, EchoAdded(s, c))
         /\ Apart(s) /\ On(s, terminal_num_display) => Touches(s, EchoAdded(s, c), Two)
<1> DEFINE d == terminal_num_display
           cell == IF c = "nul" THEN Blank ELSE d
           put == IF c = "nl" THEN s ELSE PutcAddr(s, cell)
<1>1. MapsTo(s, put) /\ (Apart(s) /\ On(s, d) => Touches(s, put, Two))
  <2>1. cell \in {d, Blank}
    OBVIOUS
  <2> HIDE DEF cell
  <2> QED BY <2>1, PutcAddrDoes, SameTouches DEF MapsTo
<1> DEFINE right == [put EXCEPT !.cursor = [put.cursor EXCEPT ![d] = Right(put.cursor[d])]]
<1>2. EchoAdded(s, c) = IF HasRoom THEN UpdateCursor(right, d) ELSE s
  BY DEF EchoAdded
<1> HIDE DEF put
<1>3. put \in Machines /\ put.page = s.page /\ put.cursor[d] \in Positions
  BY <1>1 DEF MapsTo, Machines
<1>4. MapsTo(put, right) /\ Touches(put, right, Two)
  BY <1>3, CursorTypes, CursorMoves
<1> HIDE DEF right
<1>5. MapsTo(right, UpdateCursor(right, d)) /\
      (Apart(right) => Touches(right, UpdateCursor(right, d), Two))
  BY <1>4, UpdateCursorDoes DEF MapsTo, Two
<1>6. MapsTo(s, UpdateCursor(right, d))
  BY <1>1, <1>4, <1>5 DEF MapsTo
<1>7. Apart(s) /\ On(s, d) => Touches(s, UpdateCursor(right, d), Two)
  <2>1. Apart(s) => Apart(right)
    BY <1>3, <1>4 DEF Apart, MapsTo
  <2> QED BY <1>1, <1>4, <1>5, <2>1, TouchesTrans
<1> QED BY <1>2, <1>6, <1>7, SameTouches DEF MapsTo

LEMMA EchoEnterDoes ==
  ASSUME NEW s \in Machines, terminal_num \in Term, terminal_num_display \in Term, NEW c,
         s.page[terminal_num_display] = Video
  PROVE  /\ MapsTo(s, EchoEnter(s, c))
         /\ Apart(s) /\ On(s, terminal_num_display) => Touches(s, EchoEnter(s, c), Two)
<1> DEFINE d == terminal_num_display
           added == EchoAdded(s, c)
           down == [added EXCEPT !.cursor = [added.cursor EXCEPT ![d] = Down(added.cursor[d])]]
           m == [down.mem EXCEPT ![Video] = Scrolled(down.mem[Video])]
           p == [down.cursor[d] EXCEPT !.y = NUM_ROWS - 1]
           last == [[down EXCEPT !.mem = m] EXCEPT !.cursor = [down.cursor EXCEPT ![d] = p]]
<1>1. /\ MapsTo(s, added)
      /\ Apart(s) /\ On(s, d) => Touches(s, added, Two)
  BY EchoAddedDoes
<1>2. EchoEnter(s, c) = IF down.cursor[d].y >= NUM_ROWS THEN last ELSE down
  BY DEF EchoEnter
<1> HIDE DEF added
<1>3. added \in Machines /\ added.cursor[d] \in Positions
  BY <1>1 DEF MapsTo, Machines
<1>4. MapsTo(added, down) /\ Touches(added, down, Two)
  BY <1>3, CursorTypes, CursorMoves
<1> HIDE DEF down
<1>5. /\ down \in Machines /\ down.page = s.page
      /\ Apart(s) /\ On(s, d) => Touches(s, down, Two)
  BY <1>1, <1>4, TouchesTrans DEF MapsTo
<1>6. last.mem = m /\ last.page = down.page
  BY <1>5 DEF Machines
<1>7. down.page[d] = Video
  BY <1>5
<1>8. m \in [Frames -> Page] /\ (Apart(down) => Touches(down, last, Two))
  <2>1. last.mem = [down.mem EXCEPT ![down.page[d]] = Scrolled(down.mem[down.page[d]])]
    BY <1>6, <1>7
  <2> HIDE DEF last, m
  <2> QED BY <1>5, <1>6, <2>1, MemoryScrolled DEF Two
<1>9. [down.cursor EXCEPT ![d] = p] \in [Term -> Positions]
  <2>1. down.cursor \in [Term -> Positions] /\ down.cursor[d] \in Positions
    BY <1>5 DEF Machines
  <2>2. p \in Positions
    BY <2>1, CursorTypes
  <2> HIDE DEF p
  <2> QED BY <2>1, <2>2
<1>10. MapsTo(s, last)
  <2> HIDE DEF m, p
  <2> QED BY <1>5, <1>6, <1>8, <1>9 DEF MapsTo, Machines
<1>11. Apart(s) /\ On(s, d) => Touches(s, last, Two)
  <2>1. Apart(s) => Apart(down)
    BY <1>5 DEF Apart
  <2> HIDE DEF last
  <2> QED BY <1>5, <1>8, <2>1, TouchesTrans
<1> HIDE DEF last
<1> QED BY <1>2, <1>5, <1>10, <1>11 DEF MapsTo

LEMMA DeleteDoes ==
  ASSUME NEW s \in Machines, terminal_num \in Term, terminal_num_display \in Term
  PROVE  LET r == PutcAddr(EchoDeleted(s), Blank)
         IN  /\ MapsTo(s, r)
             /\ FarOff /\ Apart(s) /\ On(s, terminal_num_display) => Touches(s, r, Two)
<1> DEFINE d == terminal_num_display
           left == [s EXCEPT !.cursor = [s.cursor EXCEPT ![d] = Left(s.cursor[d])]]
           q == EchoDeleted(s)
           r == PutcAddr(q, Blank)
<1>1. q = IF Line # <<>> THEN UpdateCursor(left, d) ELSE s
  BY DEF EchoDeleted
<1>2. s.cursor[d] \in Positions
  BY DEF Machines
<1>3. MapsTo(s, left) /\ Touches(s, left, Two) /\ left.cursor[d] = Left(s.cursor[d])
  <2>1. Left(s.cursor[d]) \in Positions
    BY <1>2, CursorTypes
  <2> DEFINE c == Left(s.cursor[d])
  <2>2. c \in Positions
    BY <2>1
  <2> HIDE DEF c
  <2>3. LET w == [s EXCEPT !.cursor = [s.cursor EXCEPT ![d] = c]]
        IN  MapsTo(s, w) /\ w.cursor[d] = c /\ Touches(s, w, Two)
    BY <2>2, CursorMoves
  <2> QED BY <2>3 DEF c
<1> HIDE DEF left, q
<1>4. /\ MapsTo(left, UpdateCursor(left, d)) /\ (On(left, d) => UpdateCursor(left, d) = left)
      /\ Apart(left) => Touches(left, UpdateCursor(left, d), Two)
  BY <1>3, UpdateCursorDoes DEF MapsTo, Two
<1>5. MapsTo(s, q) /\ (Apart(s) => Touches(s, q, Two))
  <2>1. Apart(s) => Apart(left)
    BY <1>3 DEF Apart, MapsTo
  <2> QED BY <1>1, <1>3, <1>4, <2>1, TouchesTrans, SameTouches DEF MapsTo
<1>6. MapsTo(q, r) /\ (Apart(q) /\ On(q, d) => Touches(q, r, Two))
  BY <1>5, PutcAddrDoes DEF MapsTo
<1>7. MapsTo(s, r)
  BY <1>5, <1>6 DEF MapsTo
<1>8. ASSUME FarOff, Apart(s), On(s, d) PROVE Touches(s, r, Two)
  <2>1. Apart(q) /\ Touches(s, q, Two) /\ q \in Machines
    BY <1>5, <1>8 DEF Apart, MapsTo
  <2>2. CASE On(q, d)
    BY <1>6, <2>1, <2>2, TouchesTrans
  <2>3. CASE ~On(q, d)
    <3>1. Line # <<>> /\ ~On(left, d)
      BY <1>1, <1>4, <1>8, <2>3
    <3>2. left.cursor[d].y = 255
      <4> DEFINE y == s.cursor[d].y
                 z == left.cursor[d].y
      <4>1. z = Left(s.cursor[d]).y
        BY <1>3
      <4>2. z \in {y, (y + 255) % 256}
        BY <1>2, <4>1 DEF Left, Positions
      <4>3. y \in 0 .. 255 /\ y < NUM_ROWS /\ ~(z < NUM_ROWS)
        <5>1. y \in 0 .. 255
          BY <1>2 DEF Positions
        <5>2. y < NUM_ROWS
          BY <1>8 DEF On
        <5>3. ~(z < NUM_ROWS)
          BY <3>1 DEF On
        <5> QED BY <5>1, <5>2, <5>3
      <4>4. NUM_ROWS \in Nat
        BY Geometry
      <4> HIDE DEF y, z
      <4>5. z = (y + 255) % 256
        BY <4>2, <4>3
      <4>6. y = 0 => z = 255
        BY <4>5
      <4>7. y # 0 => (y + 255) % 256 = y - 1
        BY <4>3
      <4>8. y = 0
        BY <4>3, <4>4, <4>5, <4>7
      <4> QED BY <4>6, <4>8 DEF z
    <3>3. \A w \in Machines : w.cursor[d].y = 255 =>
            /\ UpdateCursor(w, d) \in Machines /\ UpdateCursor(w, d) = ScrollUp(w)
            /\ UpdateCursor(w, d).cursor[d].y = IF d = terminal_num THEN NUM_ROWS - 1 ELSE 255
      <4>1. SUFFICES ASSUME NEW w \in Machines, w.cursor[d].y = 255
                     PROVE  /\ UpdateCursor(w, d) \in Machines /\ UpdateCursor(w, d) = ScrollUp(w)
                            /\ UpdateCursor(w, d).cursor[d].y =
                                 IF d = terminal_num THEN NUM_ROWS - 1 ELSE 255
        OBVIOUS
      <4>2. UpdateCursor(w, d) = ScrollUp(w)
        BY <4>1, Geometry DEF UpdateCursor
      <4>3. /\ ScrollUp(w) \in Machines
            /\ ScrollUp(w).cursor =
                 [w.cursor EXCEPT ![terminal_num] = [x |-> 0, y |-> NUM_ROWS - 1]]
        BY ScrollUpDoes DEF MapsTo
      <4>4. w.cursor \in [Term -> Positions]
        BY DEF Machines
      <4> QED BY <4>1, <4>2, <4>3, <4>4
    <3>4. q.cursor[d].y = 255 /\ d # terminal_num
      <4>1. left \in Machines /\ q = UpdateCursor(left, d)
        BY <1>1, <1>3, <3>1 DEF MapsTo
      <4>2. q.cursor[d].y = IF d = terminal_num THEN NUM_ROWS - 1 ELSE 255
        BY <3>2, <3>3, <4>1
      <4> QED BY <2>3, <4>2, Geometry DEF On
    <3> DEFINE w == UpdateCursor(q, d)
    <3>5. w \in Machines /\ w.cursor[d].y = 255 /\ Touches(q, w, Two)
      BY <2>1, <3>3, <3>4, UpdateCursorDoes DEF Two
    <3>6. r = Put(w, d, Blank)
      BY DEF PutcAddr, UpdateCursor
    <3> HIDE DEF w
    <3>7. Touches(w, r, Two)
      BY <1>8, <3>5, <3>6, PutFarOff
    <3> QED BY <2>1, <3>5, <3>7, TouchesTrans
  <2> QED BY <2>2, <2>3
<1> QED BY <1>7, <1>8 DEF q

-----------------------------------------------------------------------------
(* The inductive invariant.                                                 *)
Others ==
  /\ screen_buf \in [Term -> Seq(BOOLEAN)]
  /\ \A t \in Term : Len(screen_buf[t]) < BufSize
  /\ enter_flag \in {0, 1}
  /\ terminal_num_display \in Term /\ terminal_num \in Term
  /\ updating \subseteq Term
  /\ screen_start \in [Term -> {None} \cup {VidmemAddr(t) : t \in Term}]
  /\ \A t \in Term : screen_start[t] \in {None, VidmemAddr(t)}
  /\ events \in 0 .. MaxEvents

SInv == Machine \in Machines /\ Others /\ PagesApart

LEMMA MachineTyped ==
  Machine \in Machines <=>
    /\ mem \in [Frames -> Page] /\ page_table \in [Term -> Frames]
    /\ cursor \in [Term -> Positions] /\ fault \in BOOLEAN
  BY DEF Machine, Machines

LEMMA SInvImplies == SInv => Inv
<1> SUFFICES ASSUME SInv PROVE TypeOK /\ PagesApart
  BY DEF Inv
<1>1. /\ mem \in [Frames -> Page] /\ page_table \in [Term -> Frames]
      /\ cursor \in [Term -> Positions] /\ fault \in BOOLEAN
  BY MachineTyped DEF SInv
<1>2. mem \in [Frames -> [Offsets -> Term \cup {Blank}]]
  BY <1>1 DEF Page, Content
<1>3. Others /\ PagesApart
  BY DEF SInv
<1>4. \A t \in Term : screen_buf[t] \in Seq(BOOLEAN) /\ Len(screen_buf[t]) < BufSize
  BY <1>3 DEF Others
<1> QED BY <1>1, <1>2, <1>3, <1>4 DEF TypeOK, Others

(* What is known of the machine a step starts from.                         *)
LEMMA StartsFrom ==
  ASSUME SInv
  PROVE  /\ Machine \in Machines /\ Machine.page = page_table /\ Machine.mem = mem
         /\ terminal_num \in Term /\ terminal_num_display \in Term
         /\ page_table[terminal_num_display] = Video /\ Apart(Machine)
         /\ CursorsOnScreen => \A t \in Term : On(Machine, t)
<1>1. \A t \in Term : t # Video
  BY Geometry DEF Term, Video
<1>2. Machine \in Machines /\ Others /\ PagesApart
  BY DEF SInv
<1>3. Machine.page = page_table /\ Machine.mem = mem /\ Machine.cursor = cursor
  BY DEF Machine
<1>4. terminal_num \in Term /\ terminal_num_display \in Term
  BY <1>2 DEF Others
<1>5. page_table[terminal_num_display] = Video /\ Apart(Machine)
  BY <1>1, <1>2, <1>3, <1>4 DEF PagesApart, Apart
<1>6. CursorsOnScreen => \A t \in Term : On(Machine, t)
  BY <1>3 DEF On, CursorsOnScreen
<1> QED BY <1>2, <1>3, <1>4, <1>5, <1>6

(* Every step but a switch of the display is one of these.                  *)
Step(r) ==
  /\ MapsTo(Machine, r) /\ Becomes(r)
  /\ FarOff /\ CursorsOnScreen => Touches(Machine, r, Two)
MachineStep == \E r : Step(r)

LEMMA KeptMachine ==
  ASSUME SInv, UNCHANGED machineVars
  PROVE  MachineStep
<1>1. Step(Machine)
  BY SameTouches DEF SInv, Step, MapsTo, Becomes, Machine, machineVars
<1> QED BY <1>1 DEF MachineStep

LEMMA TouchesMore ==
  ASSUME NEW s, NEW r, Touches(s, r, {terminal_num})
  PROVE  Touches(s, r, Two)
  BY DEF Touches, Two

LEMMA WriteStep ==
  ASSUME SInv, NEW text \in Texts, TerminalWrite(text)
  PROVE  MachineStep /\ Others'
<1>1. /\ MapsTo(Machine, AfterText(Machine, text))
      /\ CursorsOnScreen => Touches(Machine, AfterText(Machine, text), Two)
  <2>1. text \in Seq({"a", "nl"})
    BY InputsAssumption
  <2> QED BY <2>1, StartsFrom, TextDoes, TouchesMore
<1>2. Step(AfterText(Machine, text))
  BY <1>1 DEF TerminalWrite, Step
<1>3. Others'
  BY InputsAssumption DEF SInv, Others, TerminalWrite, Counted, lineVars
<1> QED BY <1>2, <1>3 DEF MachineStep

LEMMA UpdatesStep ==
  ASSUME SInv, WriteUpdates
  PROVE  MachineStep /\ Others'
<1> DEFINE r == IF terminal_num = terminal_num_display
                THEN UpdateCursor(Machine, terminal_num) ELSE Machine
<1>1. MapsTo(Machine, r) /\ Touches(Machine, r, Two)
  BY StartsFrom, UpdateCursorDoes, SameTouches DEF MapsTo, Two
<1>2. Becomes(r)
  BY DEF WriteUpdates
<1>3. Others'
  BY DEF SInv, Others, WriteUpdates, lineVars
<1> HIDE DEF r
<1>4. Step(r)
  BY <1>1, <1>2 DEF Step
<1> QED BY <1>3, <1>4 DEF MachineStep

LEMMA ReadTakesStep ==
  ASSUME SInv, ReadTakes
  PROVE  MachineStep /\ Others'
<1>1. Others'
  <2>1. <<>> \in Seq(BOOLEAN) /\ Len(<<>>) = 0
    OBVIOUS
  <2> QED BY <2>1, InputsAssumption DEF SInv, Others, ReadTakes, Counted
<1> QED BY <1>1, KeptMachine DEF ReadTakes

LEMMA VidmapStep ==
  ASSUME SInv, Vidmap
  PROVE  MachineStep /\ Others'
<1>1. Others'
  BY InputsAssumption DEF SInv, Others, Vidmap, Counted, lineVars
<1> QED BY <1>1, KeptMachine DEF Vidmap

LEMMA DrawStep ==
  ASSUME SInv, NEW i \in ScreenCells, Draw(i)
  PROVE  MachineStep /\ Others'
<1> DEFINE t == terminal_num
           r == PutAt(Machine, VidmemAddr(t) + i, t)
<1>1. t \in Term /\ screen_start[t] = VidmemAddr(t)
  BY StartsFrom DEF SInv, Others, Draw
<1>2. i \in Offsets /\ t \in Content
  BY <1>1, CellsAreOffsets DEF Content
<1>3. VidmemAddr(t) + i \in Nat
  <2>1. t * PageCells \in Nat
    BY <1>1, Geometry, Z3 DEF Term
  <2> QED BY <1>2, <2>1 DEF VidmemAddr, Offsets
<1>4. MapsTo(Machine, r) /\ Touches(Machine, r, Two)
  BY <1>1, <1>2, <1>3, StartsFrom, PutAtMaps, PutAtTouches DEF Two
<1>5. Becomes(r)
  BY <1>1 DEF Draw
<1>6. Others'
  BY InputsAssumption DEF SInv, Others, Draw, Counted, lineVars
<1> HIDE DEF r
<1>7. Step(r)
  BY <1>4, <1>5 DEF Step
<1> QED BY <1>6, <1>7 DEF MachineStep

LEMMA TickStep ==
  ASSUME SInv, PitTick
  PROVE  MachineStep /\ Others'
<1>1. terminal_num' \in Term
  <2>1. terminal_num \in Nat
    BY Geometry DEF SInv, Others, Term
  <2> QED BY <2>1, Geometry, Z3 DEF PitTick, Term
<1>2. Others'
  BY <1>1 DEF SInv, Others, PitTick, lineVars
<1> QED BY <1>2, KeptMachine DEF PitTick

LEMMA BufferTypes ==
  ASSUME SInv
  PROVE  /\ \A c : Add2Buf(c) => /\ screen_buf' \in [Term -> Seq(BOOLEAN)]
                                /\ \A t \in Term : Len(screen_buf'[t]) < BufSize
         /\ Line # <<>> => Front(Line) \in Seq(BOOLEAN) /\ Len(Front(Line)) < BufSize
<1> DEFINE d == terminal_num_display
<1>1. /\ screen_buf \in [Term -> Seq(BOOLEAN)] /\ d \in Term /\ Line = screen_buf[d]
      /\ \A t \in Term : Len(screen_buf[t]) < BufSize
  BY DEF SInv, Others, Line
<1>2. Line \in Seq(BOOLEAN) /\ Len(Line) \in Nat /\ Len(Line) < BufSize /\ BufSize \in Nat
  BY <1>1, LenProperties, InputsAssumption
<1>3. ASSUME NEW c, Add2Buf(c)
      PROVE  /\ screen_buf' \in [Term -> Seq(BOOLEAN)]
             /\ \A t \in Term : Len(screen_buf'[t]) < BufSize
  <2> DEFINE e == (c = "nl")
  <2>1. e \in BOOLEAN
    OBVIOUS
  <2>2. screen_buf' = IF HasRoom THEN [screen_buf EXCEPT ![d] = Append(screen_buf[d], e)]
                      ELSE screen_buf
    BY <1>3 DEF Add2Buf
  <2> HIDE DEF e
  <2>3. Append(Line, e) \in Seq(BOOLEAN) /\ Len(Append(Line, e)) = Len(Line) + 1
    BY <1>2, <2>1, AppendProperties
  <2>4. HasRoom => Len(Append(Line, e)) < BufSize
    BY <1>2, <2>3 DEF HasRoom
  <2> QED BY <1>1, <2>2, <2>3, <2>4
<1>4. ASSUME Line # <<>>
      PROVE  Front(Line) \in Seq(BOOLEAN) /\ Len(Front(Line)) < BufSize
  <2> DEFINE L == Line
             n == Len(L) - 1
  <2>1. n \in Int /\ Front(L) = SubSeq(L, 1, n) /\ \A i \in 1 .. n : L[i] \in BOOLEAN
    BY <1>2, ElementOfSeq DEF Front
  <2>2. Len(L) > 0
    BY <1>2, <1>4, EmptySeq
  <2> HIDE DEF L
  <2>3. SubSeq(L, 1, n) \in Seq(BOOLEAN) /\ Len(SubSeq(L, 1, n)) = IF 1 <= n THEN n - 1 + 1 ELSE 0
    BY <2>1, SubSeqProperties
  <2> QED BY <1>2, <2>1, <2>2, <2>3 DEF L
<1> QED BY <1>3, <1>4

LEMMA TypeKeyStep ==
  ASSUME SInv, NEW k \in Keys, TypeKey(k)
  PROVE  MachineStep /\ Others'
<1> DEFINE d == terminal_num_display
           BufferTyped == /\ screen_buf' \in [Term -> Seq(BOOLEAN)]
                          /\ \A t \in Term : Len(screen_buf'[t]) < BufSize
<1>1. ASSUME BufferTyped PROVE Others'
  <2>1. enter_flag' \in {0, 1} /\ events' \in 0 .. MaxEvents
    BY InputsAssumption DEF SInv, Others, TypeKey, Counted
  <2> QED BY <1>1, <2>1 DEF SInv, Others, TypeKey
<1>2. UNCHANGED screen_buf => BufferTyped
  BY DEF SInv, Others
<1>3. \A c : Add2Buf(c) => BufferTyped
  BY BufferTypes
<1>4. ASSUME EnterPress(Ascii(k)) PROVE MachineStep /\ BufferTyped
  <2> DEFINE c == Ascii(k)
  <2>1. CASE UNCHANGED <<machineVars, screen_buf>>
    BY <1>2, <2>1, KeptMachine
  <2>2. CASE Becomes(EchoEnter(Machine, c)) /\ Add2Buf(c)
    <3>1. /\ MapsTo(Machine, EchoEnter(Machine, c))
          /\ CursorsOnScreen => Touches(Machine, EchoEnter(Machine, c), Two)
      BY StartsFrom, EchoEnterDoes
    <3>2. Step(EchoEnter(Machine, c))
      BY <2>2, <3>1 DEF Step
    <3> QED BY <1>3, <2>2, <3>2 DEF MachineStep
  <2> QED BY <1>4, <2>1, <2>2 DEF EnterPress
<1>5. ASSUME Becomes(EchoAdded(Machine, "a")), Add2Buf("a") PROVE MachineStep /\ BufferTyped
  <2>1. /\ MapsTo(Machine, EchoAdded(Machine, "a"))
        /\ CursorsOnScreen => Touches(Machine, EchoAdded(Machine, "a"), Two)
    BY StartsFrom, EchoAddedDoes
  <2>2. Step(EchoAdded(Machine, "a"))
    BY <1>5, <2>1 DEF Step
  <2> QED BY <1>3, <1>5, <2>2 DEF MachineStep
<1>6. ASSUME Delete PROVE MachineStep /\ BufferTyped
  <2> DEFINE r == PutcAddr(EchoDeleted(Machine), Blank)
  <2>1. /\ MapsTo(Machine, r)
        /\ FarOff /\ CursorsOnScreen => Touches(Machine, r, Two)
    BY StartsFrom, DeleteDoes
  <2>2. Becomes(r)
    BY <1>6 DEF Delete
  <2> HIDE DEF r
  <2>3. Step(r)
    BY <2>1, <2>2 DEF Step
  <2>4. BufferTyped
    <3>1. screen_buf' = IF Line = <<>> THEN screen_buf
                        ELSE [screen_buf EXCEPT ![d] = Front(screen_buf[d])]
      BY <1>6 DEF Delete
    <3>2. Line = screen_buf[d]
      BY DEF Line
    <3> QED BY <3>1, <3>2, BufferTypes DEF SInv, Others
  <2> QED BY <2>3, <2>4 DEF MachineStep
<1>7. CASE UNCHANGED <<machineVars, screen_buf>>
  BY <1>1, <1>2, <1>7, KeptMachine
<1> HIDE DEF BufferTyped
<1> QED BY <1>1, <1>4, <1>5, <1>6, <1>7 DEF TypeKey

LEMMA CtrlLStep ==
  ASSUME SInv, CtrlL
  PROVE  MachineStep /\ Others'
<1> DEFINE blank == [i \in Offsets |-> IF i \in ScreenCells THEN Blank ELSE mem[Video][i]]
           m == [mem EXCEPT ![Video] = blank]
           c == [t \in Term |-> [x |-> 0, y |-> 0]]
           r == [mem |-> m, page |-> page_table, cursor |-> c, fault |-> fault]
<1>1. /\ mem \in [Frames -> Page] /\ page_table \in [Term -> Frames] /\ fault \in BOOLEAN
      /\ Video \in Frames
  BY MachineTyped DEF SInv, Frames
<1>2. blank \in Page
  <2>1. mem[Video] \in Page
    BY <1>1
  <2> QED BY <2>1 DEF Page, Content
<1>3. m \in [Frames -> Page] /\ m[Video] = blank /\ \A f \in Frames \ {Video} : m[f] = mem[f]
  BY <1>1, <1>2
<1>4. c \in [Term -> Positions]
  BY Geometry DEF Positions
<1>5. Becomes(r)
  BY DEF CtrlL, Becomes
<1>6. \A i \in ScreenCells : blank[i] = Blank
  BY CellsAreOffsets
<1> HIDE DEF blank, m, c
<1>7. MapsTo(Machine, r) /\ r.mem = m /\ r.page = page_table
  BY <1>1, <1>3, <1>4 DEF MapsTo, Machines, Machine
<1> HIDE DEF r
<1>8. Touches(Machine, r, Two)
  <2>1. /\ Machine.page = page_table /\ Machine.mem = mem
        /\ \A t \in Term \ {terminal_num_display} : page_table[t] # Video
        /\ page_table[terminal_num_display] = Video
    BY StartsFrom DEF Apart
  <2>2. \A t \in Term \ {terminal_num_display} : \A i \in ScreenCells :
          Shown(r, t, i) = Shown(Machine, t, i)
    BY <1>1, <1>3, <1>7, <2>1 DEF Shown
  <2>3. \A i \in ScreenCells : Shown(r, terminal_num_display, i) = Blank
    BY <1>3, <1>6, <1>7, <2>1 DEF Shown
  <2> QED BY <2>2, <2>3 DEF Touches, Own, Two
<1>9. Step(r)
  BY <1>5, <1>7, <1>8 DEF Step
<1>10. Others'
  <2>1. <<>> \in Seq(BOOLEAN) /\ Len(<<>>) = 0
    OBVIOUS
  <2> QED BY <2>1, InputsAssumption DEF SInv, Others, CtrlL, Counted
<1> QED BY <1>9, <1>10 DEF MachineStep

(* A switch of the display.                                                 *)
LEMMA CopyTyped ==
  ASSUME NEW to \in Page, NEW from \in Page
  PROVE  /\ CopyScreen(to, from) \in Page
         /\ \A i \in ScreenCells : CopyScreen(to, from)[i] = from[i]
  BY CellsAreOffsets DEF CopyScreen, Page

LEMMA SwapStep ==
  ASSUME SInv, NEW index \in Term, SwapTerminal(index)
  PROVE  /\ SInv'
         /\ CursorsOnScreen => \A t \in Term : Screen(t)' = Screen(t)
<1> DEFINE old == terminal_num_display
           s == Swapped(Machine, old, index)
           r == UpdateCursor(s, index)
           shown == CopyScreen(mem[old], mem[Video])
           next == CopyScreen(mem[Video], mem[index])
           m == [[mem EXCEPT ![old] = shown] EXCEPT ![Video] = next]
<1>1. /\ old \in Term /\ index # old /\ terminal_num \in Term
      /\ page_table[old] = Video /\ \A t \in Term \ {old} : page_table[t] = t
      /\ terminal_num_display' = index
  BY DEF SInv, Others, PagesApart, SwapTerminal
<1>2. /\ mem \in [Frames -> Page] /\ page_table \in [Term -> Frames]
      /\ cursor \in [Term -> Positions] /\ fault \in BOOLEAN
  BY MachineTyped DEF SInv
<1>3. Video \in Frames /\ Term \subseteq Frames /\ Video \notin Term
  BY Geometry DEF Frames, Video, Term
<1>4. /\ shown \in Page /\ next \in Page
      /\ \A i \in ScreenCells : shown[i] = mem[Video][i] /\ next[i] = mem[index][i]
  BY <1>1, <1>2, <1>3, CopyTyped
<1>5. s = [[Machine EXCEPT !.page = VideoPages(index)] EXCEPT !.mem = m]
  <2>1. VideoPages(index)[old] = old /\ page_table[index] = index
    BY <1>1 DEF VideoPages
  <2>2. [mem EXCEPT ![old] = shown][Video] = mem[Video]
    BY <1>1, <1>2, <1>3
  <2> HIDE DEF shown
  <2> QED BY <2>1, <2>2 DEF Swapped, Machine, shown
<1> HIDE DEF shown, next, s
<1>6. /\ m \in [Frames -> Page] /\ m[old] = shown /\ m[Video] = next
      /\ \A t \in Term \ {old} : m[t] = mem[t]
  BY <1>1, <1>2, <1>3, <1>4
<1>7. /\ VideoPages(index) \in [Term -> Frames] /\ VideoPages(index)[index] = Video
      /\ \A t \in Term \ {index} : VideoPages(index)[t] = t
  BY <1>3 DEF VideoPages
<1> HIDE DEF m
<1>8. /\ s \in Machines /\ s.mem = m /\ s.page = VideoPages(index) /\ s.cursor = cursor
  BY <1>2, <1>5, <1>6, <1>7 DEF Machine, Machines
<1>9. /\ r \in Machines /\ r.page = VideoPages(index) /\ (On(s, index) => r = s)
  BY <1>1, <1>8, UpdateCursorDoes DEF MapsTo
<1>10. Becomes(r)
  BY DEF SwapTerminal, s
<1> HIDE DEF r
<1>11. Machine' \in Machines /\ page_table' = VideoPages(index)
  <2>1. mem' = r.mem /\ page_table' = r.page /\ cursor' = r.cursor /\ fault' = r.fault
    BY <1>10 DEF Becomes
  <2> QED BY <1>9, <2>1 DEF Machine, Machines
<1>12. Others'
  BY <1>1 DEF SInv, Others, SwapTerminal, lineVars
<1>13. SInv'
  BY <1>1, <1>7, <1>11, <1>12 DEF SInv, PagesApart
<1>14. ASSUME CursorsOnScreen, NEW t \in Term PROVE Screen(t)' = Screen(t)
  <2>1. mem' = m
    BY <1>8, <1>9, <1>10, <1>14 DEF On, CursorsOnScreen, Becomes
  <2>2. \A i \in ScreenCells : mem'[page_table'[t]][i] = mem[page_table[t]][i]
    <3>1. CASE t = old
      BY <1>1, <1>4, <1>6, <1>7, <1>11, <2>1, <3>1
    <3>2. CASE t = index
      BY <1>1, <1>4, <1>6, <1>7, <1>11, <2>1, <3>2
    <3>3. CASE t \notin {old, index}
      BY <1>1, <1>4, <1>6, <1>7, <1>11, <2>1, <3>3
    <3> QED BY <3>1, <3>2, <3>3
  <2> QED BY <2>2 DEF Screen
<1> QED BY <1>13, <1>14

-----------------------------------------------------------------------------
(* All steps.                                                               *)
LEMMA Steps ==
  ASSUME SInv, [Next]_vars
  PROVE  \/ MachineStep /\ Others' /\ UNCHANGED terminal_num_display
         \/ \E index \in Term : SwapTerminal(index)
<1>1. CASE \E text \in Texts : TerminalWrite(text)
  BY <1>1, WriteStep DEF TerminalWrite
<1>2. CASE WriteUpdates
  BY <1>2, UpdatesStep DEF WriteUpdates
<1>3. CASE ReadTakes
  BY <1>3, ReadTakesStep DEF ReadTakes
<1>4. CASE Vidmap
  BY <1>4, VidmapStep DEF Vidmap
<1>5. CASE \E i \in ScreenCells : Draw(i)
  BY <1>5, DrawStep DEF Draw
<1>6. CASE PitTick
  BY <1>6, TickStep DEF PitTick
<1>7. CASE \E k \in Keys : TypeKey(k)
  BY <1>7, TypeKeyStep DEF TypeKey
<1>8. CASE CtrlL
  BY <1>8, CtrlLStep DEF CtrlL
<1>9. CASE UNCHANGED vars
  <2>1. Others'
    BY <1>9 DEF vars, lineVars, SInv, Others
  <2> QED BY <1>9, <2>1, KeptMachine DEF vars
<1> QED BY <1>1, <1>2, <1>3, <1>4, <1>5, <1>6, <1>7, <1>8, <1>9 DEF Next

LEMMA MachineStepKeeps ==
  ASSUME SInv, MachineStep, Others', UNCHANGED terminal_num_display
  PROVE  /\ SInv'
         /\ FarOff /\ CursorsOnScreen =>
              /\ \A t \in Term \ Two : Screen(t)' = Screen(t)
              /\ OwnText => OwnText'
<1>1. PICK r : Step(r)
  BY DEF MachineStep
<1>2. /\ r \in Machines /\ r.page = page_table
      /\ mem' = r.mem /\ page_table' = r.page /\ cursor' = r.cursor /\ fault' = r.fault
  BY <1>1, StartsFrom DEF Step, MapsTo, Becomes
<1>3. Machine' \in Machines
  BY <1>2 DEF Machine, Machines
<1>4. SInv'
  BY <1>2, <1>3 DEF SInv, PagesApart
<1>5. ASSUME FarOff, CursorsOnScreen
      PROVE  /\ \A t \in Term \ Two : Screen(t)' = Screen(t)
             /\ OwnText => OwnText'
  <2>1. Touches(Machine, r, Two)
    BY <1>1, <1>5 DEF Step
  <2>2. \A t \in Term : \A i \in ScreenCells :
          /\ Shown(Machine, t, i) = mem[page_table[t]][i]
          /\ Shown(r, t, i) = mem'[page_table'[t]][i]
    BY <1>2, StartsFrom DEF Shown
  <2>3. \A t \in Term \ Two : Screen(t)' = Screen(t)
    BY <2>1, <2>2 DEF Touches, Screen
  <2>4. OwnText <=> Own(Machine)
    BY <2>2 DEF OwnText, Own, Screen
  <2>5. OwnText' <=> Own(r)
    BY <2>2 DEF OwnText, Own, Screen
  <2> QED BY <2>1, <2>3, <2>4, <2>5 DEF Touches
<1> QED BY <1>4, <1>5

LEMMA SInvHolds == Spec => []SInv
<1>1. Init => SInv
  <2>1. SUFFICES ASSUME Init PROVE SInv
    OBVIOUS
  <2>2. Machine \in Machines
    <3>1. [i \in Offsets |-> Blank] \in Page
      BY DEF Page, Content
    <3>2. VideoPages(0) \in [Term -> Frames]
      BY DEF VideoPages, Frames
    <3>3. [x |-> 0, y |-> 0] \in Positions
      BY Geometry DEF Positions
    <3> QED BY <2>1, <3>1, <3>2, <3>3, MachineTyped DEF Init
  <2>3. Others
    <3>1. <<>> \in Seq(BOOLEAN) /\ Len(<<>>) = 0
      OBVIOUS
    <3> QED BY <2>1, <3>1, Geometry, InputsAssumption DEF Init, Others, Term
  <2>4. PagesApart
    BY <2>1, Geometry DEF Init, PagesApart, VideoPages, Term
  <2> QED BY <2>2, <2>3, <2>4 DEF SInv
<1>2. SInv /\ [Next]_vars => SInv'
  BY Steps, MachineStepKeeps, SwapStep
<1> QED BY <1>1, <1>2, PTL DEF Spec

(* The pages of the terminals stay apart, the displayed one's is the video  *)
(* memory, and no cursor is ever past the end of a row: for any number of   *)
(* terminals, any screen and any texts.                                     *)
THEOREM ScreensInvariant == Spec => []Inv
  BY SInvHolds, SInvImplies, PTL

(* A switch of the display loses no screen, the one that was shown, the one *)
(* that is now, or any other.                                               *)
THEOREM SwapsKeepScreens == Spec => SwapKeepsScreens
<1>1. SInv /\ [Next]_vars =>
        [CursorsOnScreen /\ terminal_num_display' # terminal_num_display
           => \A t \in Term : Screen(t)' = Screen(t)]_vars
  BY Steps, SwapStep
<1> QED BY <1>1, SInvHolds, PTL DEF Spec, SwapKeepsScreens

(* While all cursors are on their screens, output, echo, scrolling, drawing *)
(* and switches leave the screens of all terminals alone but the displayed  *)
(* and the scheduled one.                                                   *)
THEOREM OtherScreensKept ==
  ASSUME FarOff
  PROVE  Spec => OthersKept
<1>1. SInv /\ [Next]_vars =>
        [CursorsOnScreen => \A t \in Term \ {terminal_num, terminal_num_display} :
                              Screen(t)' = Screen(t)]_vars
  BY Steps, SwapStep, MachineStepKeeps DEF Two
<1> QED BY <1>1, SInvHolds, PTL DEF Spec, OthersKept

(* While all cursors are on their screens, a text never comes on another    *)
(* screen than its writer's.                                                *)
THEOREM TextsStayOwn ==
  ASSUME FarOff
  PROVE  Spec => TextStaysOwn
<1>1. SInv /\ [Next]_vars => [CursorsOnScreen /\ OwnText => OwnText']_vars
  <2>1. SUFFICES ASSUME SInv, [Next]_vars, CursorsOnScreen, OwnText PROVE OwnText'
    OBVIOUS
  <2>2. CASE \E index \in Term : SwapTerminal(index)
    BY <2>1, <2>2, SwapStep DEF OwnText
  <2>3. CASE MachineStep /\ Others' /\ UNCHANGED terminal_num_display
    BY <2>1, <2>3, MachineStepKeeps
  <2> QED BY <2>1, <2>2, <2>3, Steps
<1> QED BY <1>1, SInvHolds, PTL DEF Spec, TextStaysOwn

-----------------------------------------------------------------------------
(* Where the cursors are.  UpdateCursor moves the scheduled terminal's to   *)
(* the last row and leaves the others; what it does to one that is off the  *)
(* screen is to put that of the scheduled terminal back.                    *)
Keeps(s, r, T) == \A u \in Term \ T : On(s, u) => On(r, u)

LEMMA UpdateKeeps ==
  ASSUME NEW s \in Machines, terminal_num \in Term, NEW t \in Term
  PROVE  /\ Keeps(s, UpdateCursor(s, t), {})
         /\ t = terminal_num => On(UpdateCursor(s, t), t)
<1>1. CASE On(s, t)
  BY <1>1, UpdateCursorDoes DEF Keeps
<1>2. CASE ~ On(s, t)
  <2>1. UpdateCursor(s, t) = ScrollUp(s)
    <3>1. s.cursor[t] \in Positions
      BY DEF Machines
    <3>2. s.cursor[t].y >= NUM_ROWS
      BY <1>2, <3>1, Geometry DEF On, Positions
    <3> QED BY <3>2 DEF UpdateCursor
  <2>2. ScrollUp(s).cursor = [s.cursor EXCEPT ![terminal_num] = [x |-> 0, y |-> NUM_ROWS - 1]]
        /\ s.cursor \in [Term -> Positions]
    BY ScrollUpDoes DEF Machines
  <2>3. NUM_ROWS - 1 < NUM_ROWS
    BY Geometry
  <2> QED BY <2>1, <2>2, <2>3 DEF Keeps, On
<1> QED BY <1>1, <1>2

LEMMA PutcKeeps ==
  ASSUME NEW s \in Machines, terminal_num \in Term, terminal_num_display \in Term,
         NEW c \in {terminal_num_display, Blank}
  PROVE  Keeps(s, PutcAddr(s, c), {})
<1> DEFINE d == terminal_num_display
           q == UpdateCursor(s, d)
<1>1. PutcAddr(s, c) = Put(q, d, c)
  BY DEF PutcAddr, UpdateCursor
<1>2. q \in Machines /\ Keeps(s, q, {})
  BY UpdateCursorDoes, UpdateKeeps DEF MapsTo
<1> HIDE DEF q
<1>3. PutcAddr(s, c).cursor = q.cursor
  BY <1>1, <1>2, PutMaps DEF Content
<1> QED BY <1>2, <1>3 DEF Keeps, On

(* A character's echo: on any other screen no cursor leaves, and on the     *)
(* displayed one none does if it is the scheduled one.                      *)
LEMMA EchoAddedKeeps ==
  ASSUME NEW s \in Machines, terminal_num \in Term, terminal_num_display \in Term, NEW c
  PROVE  /\ Keeps(s, EchoAdded(s, c), {terminal_num_display})
         /\ terminal_num = terminal_num_display => Keeps(s, EchoAdded(s, c), {})
<1> DEFINE d == terminal_num_display
           cell == IF c = "nul" THEN Blank ELSE d
           put == IF c = "nl" THEN s ELSE PutcAddr(s, cell)
           right == [put EXCEPT !.cursor = [put.cursor EXCEPT ![d] = Right(put.cursor[d])]]
<1>1. put \in Machines /\ Keeps(s, put, {})
  <2>1. cell \in {d, Blank}
    OBVIOUS
  <2> HIDE DEF cell
  <2>2. PutcAddr(s, cell) \in Machines /\ Keeps(s, PutcAddr(s, cell), {})
    BY <2>1, PutcAddrDoes, PutcKeeps DEF MapsTo
  <2> QED BY <2>2 DEF Keeps
<1>2. EchoAdded(s, c) = IF HasRoom THEN UpdateCursor(right, d) ELSE s
  BY DEF EchoAdded
<1> HIDE DEF put
<1>3. right \in Machines /\ \A u \in Term \ {d} : right.cursor[u] = put.cursor[u]
  <2>1. put.cursor \in [Term -> Positions] /\ Right(put.cursor[d]) \in Positions
    BY <1>1, CursorTypes DEF Machines
  <2>2. right \in Machines /\ right.cursor = [put.cursor EXCEPT ![d] = Right(put.cursor[d])]
    BY <1>1, <2>1, CursorMoves DEF MapsTo
  <2> HIDE DEF right
  <2> QED BY <2>1, <2>2
<1> HIDE DEF right
<1>4. Keeps(s, right, {d})
  BY <1>1, <1>3 DEF Keeps, On
<1>5. /\ Keeps(right, UpdateCursor(right, d), {})
      /\ d = terminal_num => On(UpdateCursor(right, d), d)
  BY <1>3, UpdateKeeps
<1> QED BY <1>2, <1>4, <1>5 DEF Keeps

(* A return's echo sets the cursor on the last row if it is past it.        *)
LEMMA EchoEnterKeeps ==
  ASSUME NEW s \in Machines, terminal_num \in Term, terminal_num_display \in Term, NEW c
  PROVE  Keeps(s, EchoEnter(s, c), {})
<1> DEFINE d == terminal_num_display
           added == EchoAdded(s, c)
           down == [added EXCEPT !.cursor = [added.cursor EXCEPT ![d] = Down(added.cursor[d])]]
           m == [down.mem EXCEPT ![Video] = Scrolled(down.mem[Video])]
           p == [down.cursor[d] EXCEPT !.y = NUM_ROWS - 1]
           last == [[down EXCEPT !.mem = m] EXCEPT !.cursor = [down.cursor EXCEPT ![d] = p]]
<1>1. added \in Machines /\ Keeps(s, added, {d})
  BY EchoAddedDoes, EchoAddedKeeps DEF MapsTo
<1>2. EchoEnter(s, c) = IF down.cursor[d].y >= NUM_ROWS THEN last ELSE down
  BY DEF EchoEnter
<1> HIDE DEF added
<1>3. /\ down \in Machines /\ down.cursor \in [Term -> Positions]
      /\ \A u \in Term \ {d} : down.cursor[u] = added.cursor[u]
  <2>1. added.cursor \in [Term -> Positions] /\ Down(added.cursor[d]) \in Positions
    BY <1>1, CursorTypes DEF Machines
  <2>2. down \in Machines /\ down.cursor = [added.cursor EXCEPT ![d] = Down(added.cursor[d])]
    BY <1>1, <2>1, CursorMoves DEF MapsTo
  <2> HIDE DEF down
  <2> QED BY <2>1, <2>2 DEF Machines
<1> HIDE DEF down
<1>4. last.cursor = [down.cursor EXCEPT ![d] = p]
  <2> HIDE DEF m, p
  <2> QED BY <1>3 DEF Machines
<1>5. p.y = NUM_ROWS - 1 /\ NUM_ROWS - 1 < NUM_ROWS
  BY <1>3, Geometry DEF Positions
<1> HIDE DEF last, p
<1>6. \A u \in Term \ {d} : On(s, u) => On(EchoEnter(s, c), u)
  BY <1>1, <1>2, <1>3, <1>4 DEF Keeps, On
<1>7. On(EchoEnter(s, c), d)
  <2>1. CASE down.cursor[d].y >= NUM_ROWS
    BY <1>2, <1>3, <1>4, <1>5, <2>1 DEF On
  <2>2. CASE ~(down.cursor[d].y >= NUM_ROWS)
    <3>1. down.cursor[d] \in Positions
      BY <1>3 DEF Machines
    <3> HIDE DEF down
    <3>2. down.cursor[d].y < NUM_ROWS
      BY <2>2, <3>1, Geometry DEF Positions
    <3> QED BY <1>2, <2>2, <3>2 DEF On
  <2> QED BY <2>1, <2>2
<1> QED BY <1>6, <1>7 DEF Keeps

LEMMA DeleteKeeps ==
  ASSUME NEW s \in Machines, terminal_num \in Term, terminal_num_display = terminal_num
  PROVE  Keeps(s, PutcAddr(EchoDeleted(s), Blank), {})
<1> DEFINE d == terminal_num_display
           left == [s EXCEPT !.cursor = [s.cursor EXCEPT ![d] = Left(s.cursor[d])]]
           q == EchoDeleted(s)
<1>1. q = IF Line # <<>> THEN UpdateCursor(left, d) ELSE s
  BY DEF EchoDeleted
<1>2. left \in Machines /\ \A u \in Term \ {d} : left.cursor[u] = s.cursor[u]
  <2>1. s.cursor \in [Term -> Positions] /\ Left(s.cursor[d]) \in Positions
    BY CursorTypes DEF Machines
  <2>2. left \in Machines /\ left.cursor = [s.cursor EXCEPT ![d] = Left(s.cursor[d])]
    BY <2>1, CursorMoves DEF MapsTo
  <2> HIDE DEF left
  <2> QED BY <2>1, <2>2
<1> HIDE DEF left, q
<1>3. /\ UpdateCursor(left, d) \in Machines /\ On(UpdateCursor(left, d), d)
      /\ Keeps(left, UpdateCursor(left, d), {})
  BY <1>2, UpdateCursorDoes, UpdateKeeps DEF MapsTo
<1>4. q \in Machines /\ Keeps(s, q, {})
  BY <1>1, <1>2, <1>3 DEF Keeps, On
<1>5. Keeps(q, PutcAddr(q, Blank), {})
  BY <1>4, PutcKeeps
<1> QED BY <1>4, <1>5 DEF Keeps, q

LEMMA KeptCursors ==
  ASSUME CursorsOnScreen, NEW r, Becomes(r), Keeps(Machine, r, {})
  PROVE  CursorsOnScreen'
<1>1. Machine.cursor = cursor
  BY DEF Machine
<1> QED BY <1>1 DEF CursorsOnScreen, Becomes, Keeps, On

LEMMA TypeKeyKeeps ==
  ASSUME SInv, CursorsOnScreen, NEW k \in Keys, TypeKey(k)
  PROVE  \/ CursorsOnScreen'
         \/ terminal_num # terminal_num_display /\ enter_flag = 0 /\ k \in {"char", "back"}
<1>1. CASE EnterPress(Ascii(k))
  <2>1. Keeps(Machine, EchoEnter(Machine, Ascii(k)), {})
    BY StartsFrom, EchoEnterKeeps
  <2>2. CASE Becomes(EchoEnter(Machine, Ascii(k)))
    BY <2>1, <2>2, KeptCursors
  <2>3. CASE UNCHANGED machineVars
    BY <2>3 DEF machineVars, CursorsOnScreen
  <2> QED BY <1>1, <2>2, <2>3 DEF EnterPress
<1>2. CASE enter_flag' = 0 /\ k \in {"char", "back"}
           /\ (Becomes(EchoAdded(Machine, "a")) \/ Delete)
  <2>1. enter_flag = 0
    BY <1>2 DEF TypeKey
  <2>2. SUFFICES ASSUME terminal_num = terminal_num_display PROVE CursorsOnScreen'
    BY <1>2, <2>1
  <2>3. CASE Becomes(EchoAdded(Machine, "a"))
    <3>1. Keeps(Machine, EchoAdded(Machine, "a"), {})
      BY <2>2, StartsFrom, EchoAddedKeeps
    <3> QED BY <2>3, <3>1, KeptCursors
  <2>4. CASE Delete
    <3> DEFINE r == PutcAddr(EchoDeleted(Machine), Blank)
    <3>1. Keeps(Machine, r, {})
      BY <2>2, StartsFrom, DeleteKeeps
    <3>2. Becomes(r)
      BY <2>4 DEF Delete
    <3> HIDE DEF r
    <3> QED BY <3>1, <3>2, KeptCursors
  <2> QED BY <1>2, <2>3, <2>4
<1>3. CASE UNCHANGED machineVars
  BY <1>3 DEF machineVars, CursorsOnScreen
<1> QED BY <1>1, <1>2, <1>3 DEF TypeKey

LEMMA OtherStepsKeep ==
  ASSUME SInv, CursorsOnScreen, [Next]_vars, ~ \E k \in Keys : TypeKey(k)
  PROVE  CursorsOnScreen'
<1>1. ASSUME NEW text \in Texts, TerminalWrite(text) PROVE CursorsOnScreen'
  <2> DEFINE r == AfterText(Machine, text)
  <2>1. text \in Seq({"a", "nl"})
    BY InputsAssumption
  <2>2. Steady(Machine, r) /\ On(r, terminal_num)
    BY <2>1, StartsFrom, TextDoes
  <2>3. Becomes(r)
    BY <1>1 DEF TerminalWrite
  <2> HIDE DEF r
  <2>4. Keeps(Machine, r, {})
    BY <2>2 DEF Keeps, Steady, On
  <2> QED BY <2>3, <2>4, KeptCursors
<1>2. CASE WriteUpdates
  <2> DEFINE r == IF terminal_num = terminal_num_display
                  THEN UpdateCursor(Machine, terminal_num) ELSE Machine
  <2>1. Keeps(Machine, r, {})
    BY StartsFrom, UpdateKeeps DEF Keeps
  <2>2. Becomes(r)
    BY <1>2 DEF WriteUpdates
  <2> HIDE DEF r
  <2> QED BY <2>1, <2>2, KeptCursors
<1>3. ASSUME NEW i \in ScreenCells, Draw(i) PROVE CursorsOnScreen'
  <2> DEFINE r == PutAt(Machine, VidmemAddr(terminal_num) + i, terminal_num)
  <2>1. terminal_num \in Term /\ screen_start[terminal_num] = VidmemAddr(terminal_num)
    BY <1>3, StartsFrom DEF SInv, Others, Draw
  <2>2. i \in Nat /\ VidmemAddr(terminal_num) + i \in Nat
    <3>1. terminal_num * PageCells \in Nat /\ i \in Nat
      BY <2>1, CellsAreOffsets, Geometry, Z3 DEF Term, Offsets
    <3> QED BY <3>1 DEF VidmemAddr
  <2>3. r.cursor = Machine.cursor
    BY <2>1, <2>2, StartsFrom, PutAtMaps DEF Content
  <2>4. Becomes(r)
    BY <1>3, <2>1 DEF Draw
  <2> HIDE DEF r
  <2>5. Keeps(Machine, r, {})
    BY <2>3 DEF Keeps, On
  <2> QED BY <2>4, <2>5, KeptCursors
<1>4. ASSUME NEW index \in Term, SwapTerminal(index) PROVE CursorsOnScreen'
  <2> DEFINE q == Swapped(Machine, terminal_num_display, index)
  <2>1. q.cursor = cursor
    BY DEF Swapped, Machine
  <2>2. Becomes(UpdateCursor(q, index))
    BY <1>4 DEF SwapTerminal
  <2> HIDE DEF q
  <2>3. cursor[index] \in Positions /\ cursor[index].y < NUM_ROWS
    BY MachineTyped DEF SInv, CursorsOnScreen
  <2>4. ~(cursor[index].y >= NUM_ROWS)
    BY <2>3, Geometry DEF Positions
  <2>5. UpdateCursor(q, index) = q
    BY <2>1, <2>4 DEF UpdateCursor
  <2> QED BY <2>1, <2>2, <2>5 DEF Becomes, CursorsOnScreen
<1>5. CASE CtrlL
  BY <1>5, Geometry DEF CtrlL, CursorsOnScreen
<1>6. CASE ReadTakes \/ Vidmap \/ PitTick \/ UNCHANGED vars
  BY <1>6 DEF ReadTakes, Vidmap, PitTick, vars, machineVars, CursorsOnScreen
<1> QED BY <1>1, <1>2, <1>3, <1>4, <1>5, <1>6 DEF Next

(* The one way a cursor leaves its screen is the echo of a character or of  *)
(* a backspace while another terminal than the displayed one is scheduled.  *)
THEOREM CursorsKeptOnScreen == Spec => CursorsKept
<1>1. SInv /\ [Next]_vars =>
        [CursorsOnScreen /\ ~ CursorsOnScreen'
           => terminal_num # terminal_num_display
              /\ enter_flag = 0 /\ \E k \in {"char", "back"} : TypeKey(k)]_vars
  <2>1. SUFFICES ASSUME SInv, [Next]_vars, CursorsOnScreen, ~ CursorsOnScreen'
                 PROVE  terminal_num # terminal_num_display
                        /\ enter_flag = 0 /\ \E k \in {"char", "back"} : TypeKey(k)
    OBVIOUS
  <2>2. PICK k \in Keys : TypeKey(k)
    BY <2>1, OtherStepsKeep
  <2> QED BY <2>1, <2>2, TypeKeyKeeps
<1> QED BY <1>1, SInvHolds, PTL DEF Spec, CursorsKept

(* Echo while its own terminal is scheduled, as if a key's interrupt waited *)
(* for that.                                                                *)
EchoInTurn ==
  [][\A k \in {"char", "back"} : TypeKey(k) => terminal_num = terminal_num_display]_vars

(* Then no cursor ever leaves its screen, and without any hypothesis on the *)
(* cursors a program's text comes on no screen but its own.                 *)
THEOREM OwnScreensInTurn ==
  ASSUME FarOff
  PROVE  Spec /\ EchoInTurn => [](CursorsOnScreen /\ OwnText)
<1>1. Init => CursorsOnScreen /\ OwnText
  BY Geometry, CellsAreOffsets DEF Init, CursorsOnScreen, OwnText, Screen, VideoPages, Frames
<1>2. /\ CursorsOnScreen /\ OwnText
      /\ [CursorsOnScreen /\ OwnText => OwnText']_vars
      /\ [CursorsOnScreen /\ ~ CursorsOnScreen'
            => terminal_num # terminal_num_display
               /\ enter_flag = 0 /\ \E k \in {"char", "back"} : TypeKey(k)]_vars
      /\ [\A k \in {"char", "back"} : TypeKey(k) => terminal_num = terminal_num_display]_vars
      => (CursorsOnScreen /\ OwnText)'
  <2>1. UNCHANGED vars /\ CursorsOnScreen /\ OwnText => (CursorsOnScreen /\ OwnText)'
    BY DEF vars, machineVars, CursorsOnScreen, OwnText, Screen
  <2> QED BY <2>1
<1> QED BY <1>1, <1>2, CursorsKeptOnScreen, TextsStayOwn, PTL
       DEF Spec, CursorsKept, TextStaysOwn, EchoInTurn
=============================================================================
