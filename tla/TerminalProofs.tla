--------------------------- MODULE TerminalProofs ---------------------------
(***************************************************************************)
(* The cursor never leaves the screen, and its glyph is there once between *)
(* two calls of Write and never during one, for every size of the screen   *)
(* and every argument of a control sequence.                               *)
(***************************************************************************)
EXTENDS Terminal, TLAPS

Cell == Glyphs \cup {Blank, Underscore}
Grid == [Rows -> [Columns -> Cell]]

(* The cursor glyph is drawn on a row of the screen.                       *)
CursorIsDrawn == ~panic /\ ~writing => CursorCell.y \in Rows

SInv == TypeOK /\ OneCursorGlyph /\ CursorIsDrawn

(* The sizes of the screen are positive.                                   *)
LEMMA Sizes ==
  /\ 0 \in Rows /\ 0 \in Columns /\ columnCount - 1 \in Columns
  /\ rowCount \in Nat /\ columnCount \in Nat /\ Underscore # Blank
  /\ Glyphs \subseteq Cell /\ Blank \in Cell /\ Underscore \in Cell /\ Underscore \notin Glyphs
BY TerminalSizeAssumption DEF Rows, Columns, Cell

(* Print and the drawing of the cursor set one cell.                       *)
LEMMA PutProperties ==
  ASSUME NEW cells \in Grid, NEW x \in Columns, NEW y \in Rows,
         NEW glyph \in Cell, NEW after, after = Put(cells, x, y, glyph)
  PROVE  /\ after \in Grid
         /\ after[y][x] = glyph
         /\ \A r \in Rows, c \in Columns :
              (r = y /\ c = x) \/ after[r][c] = cells[r][c]
BY DEF Put, Grid

(* The end of every turn of the loop leaves the cursor on the screen, or   *)
(* the kernel has stopped.                                                 *)
LEMMA SettleProperties ==
  ASSUME TypeOK, NEW x \in Int, NEW y \in Int, NEW wrap \in BOOLEAN, Settle(x, y, wrap)
  PROVE  /\ cursorX' \in Columns /\ (cursorY' \in Rows \/ panic') /\ panic' \in BOOLEAN
         /\ pendingWrap' \in BOOLEAN /\ (pendingWrap' => cursorX' = columnCount - 1)
         /\ writing /\ writing' = writing /\ ~panic
<1>1. cursorX' = Clamped(x) /\ cursorY' = AtLeastZero(y) /\ panic' = (y >= rowCount)
      /\ pendingWrap' = (wrap /\ x >= columnCount - 1)
  BY Zenon DEF Settle
<1>2. Clamped(x) \in Columns /\ (x >= columnCount - 1 => Clamped(x) = columnCount - 1)
  BY TerminalSizeAssumption DEF Clamped, AtLeastZero, Columns
<1>3. AtLeastZero(y) \in Rows \/ y >= rowCount
  BY TerminalSizeAssumption DEF AtLeastZero, Rows
<1>4. writing /\ writing' = writing /\ ~panic
  BY Zenon DEF Settle
<1>5. panic' \in BOOLEAN /\ pendingWrap' \in BOOLEAN
  BY <1>1
<1>6. QED
  BY Zenon, <1>1, <1>2, <1>3, <1>4, <1>5

(* A turn of the loop keeps the invariant when it draws no cursor.         *)
LEMMA TurnKeepsSInv ==
  ASSUME SInv, NEW x \in Int, NEW y \in Int, NEW wrap \in BOOLEAN, Settle(x, y, wrap),
         screen' \in Grid,
         \A r \in Rows, c \in Columns : screen'[r][c] = Underscore =>
           \E s \in Rows, d \in Columns : screen[s][d] = Underscore
  PROVE  SInv'
<1>1. TypeOK /\ OneCursorGlyph
  BY Zenon DEF SInv
<1>2. /\ cursorX' \in Columns /\ (cursorY' \in Rows \/ panic') /\ panic' \in BOOLEAN
      /\ pendingWrap' \in BOOLEAN /\ (pendingWrap' => cursorX' = columnCount - 1)
      /\ writing /\ writing' = writing /\ ~panic
  BY Zenon, <1>1, SettleProperties
<1>3. TypeOK'
  BY Zenon, <1>2 DEF TypeOK, Grid, Cell
<1>4. \A r \in Rows, c \in Columns : screen'[r][c] # Underscore
  BY Zenon, <1>1, <1>2 DEF OneCursorGlyph
<1>5. OneCursorGlyph' /\ CursorIsDrawn'
  BY Zenon, <1>2, <1>4 DEF OneCursorGlyph, CursorIsDrawn
<1>6. QED
  BY Zenon, <1>3, <1>5 DEF SInv

-----------------------------------------------------------------------------
(* The actions                                                             *)

(* Write starts by erasing the cursor.                                     *)
LEMMA BeginWriteKeepsSInv ==
  ASSUME SInv, BeginWrite
  PROVE  SInv'
<1>1. TypeOK /\ OneCursorGlyph /\ CursorIsDrawn
  BY Zenon DEF SInv
<1>2. /\ ~writing /\ ~panic /\ writing' = TRUE
      /\ screen' = Put(screen, CursorCell.x, CursorCell.y, Blank)
      /\ UNCHANGED <<cursorX, cursorY, pendingWrap, panic>>
  BY Zenon DEF BeginWrite
<1>3. PICK x, y : x = CursorCell.x /\ y = CursorCell.y
  BY Zenon
<1>4. CursorCell = [x |-> x, y |-> y] /\ x \in Columns /\ y \in Rows
  <2>1. y \in Rows
    BY Zenon, <1>1, <1>2, <1>3 DEF CursorIsDrawn
  <2>2. CASE pendingWrap
    BY Zenon, <1>3, <2>1, <2>2, Sizes DEF CursorCell
  <2>3. CASE ~pendingWrap
    BY Zenon, <1>1, <1>3, <2>1, <2>3 DEF CursorCell, TypeOK
  <2>4. QED
    BY Zenon, <2>2, <2>3
<1>5. screen \in Grid
  BY Zenon, <1>1 DEF TypeOK, Grid, Cell
<1>6. /\ screen' \in Grid
      /\ screen'[y][x] = Blank
      /\ \A r \in Rows, c \in Columns : (r = y /\ c = x) \/ screen'[r][c] = screen[r][c]
  <2>1. Blank \in Cell /\ screen' = Put(screen, x, y, Blank)
    BY Zenon, <1>2, <1>3, Sizes
  <2>2. QED
    BY <1>4, <1>5, <2>1, PutProperties
<1>7. ASSUME NEW r \in Rows, NEW c \in Columns, screen'[r][c] = Underscore PROVE FALSE
  <2>1. ~(r = y /\ c = x) /\ screen[r][c] = Underscore
    BY Zenon, <1>6, <1>7, Sizes
  <2>2. [x |-> x, y |-> y] = [x |-> c, y |-> r]
    BY Zenon, <1>1, <1>2, <1>4, <2>1 DEF OneCursorGlyph
  <2>3. QED
    BY <2>1, <2>2
<1>8. TypeOK'
  BY Zenon, <1>1, <1>2, <1>6 DEF TypeOK, Grid, Cell
<1>9. OneCursorGlyph' /\ CursorIsDrawn'
  BY Zenon, <1>2, <1>7 DEF OneCursorGlyph, CursorIsDrawn
<1>10. QED
  BY Zenon, <1>8, <1>9 DEF SInv

(* Write ends by drawing the cursor, or its Assert fails.                  *)
LEMMA EndWriteKeepsSInv ==
  ASSUME SInv, EndWrite
  PROVE  SInv'
<1>1. TypeOK /\ OneCursorGlyph
  BY Zenon DEF SInv
<1>2. /\ writing /\ ~panic /\ writing' = FALSE
      /\ UNCHANGED <<cursorX, cursorY, pendingWrap>>
  BY Zenon DEF EndWrite
<1>3. CursorCell' = CursorCell
  BY Zenon, <1>2 DEF CursorCell
<1>4. PICK x, y : x = CursorCell.x /\ y = CursorCell.y
  BY Zenon
<1>5. screen \in Grid
  BY Zenon, <1>1 DEF TypeOK, Grid, Cell
<1>6. CASE y \notin Rows
  <2>1. panic' = TRUE /\ screen' = screen
    BY Zenon, <1>4, <1>6 DEF EndWrite
  <2>2. TypeOK'
    BY Zenon, <1>1, <1>2, <2>1 DEF TypeOK
  <2>3. QED
    BY Zenon, <2>1, <2>2 DEF SInv, OneCursorGlyph, CursorIsDrawn
<1>7. CASE y \in Rows
  <2>1. screen' = Put(screen, x, y, Underscore) /\ panic' = panic
    BY Zenon, <1>4, <1>7 DEF EndWrite
  <2>2. CursorCell = [x |-> x, y |-> y] /\ x \in Columns
    <3>1. CASE pendingWrap
      BY Zenon, <1>4, <3>1, Sizes DEF CursorCell
    <3>2. CASE ~pendingWrap
      BY Zenon, <1>1, <1>4, <3>2 DEF CursorCell, TypeOK
    <3>3. QED
      BY Zenon, <3>1, <3>2
  <2>3. /\ screen' \in Grid
        /\ screen'[y][x] = Underscore
        /\ \A r \in Rows, c \in Columns : (r = y /\ c = x) \/ screen'[r][c] = screen[r][c]
    <3>1. Underscore \in Cell
      BY Zenon, Sizes
    <3>2. QED
      BY <1>5, <1>7, <2>1, <2>2, <3>1, PutProperties
  <2>4. \A r \in Rows, c \in Columns : screen[r][c] # Underscore
    BY Zenon, <1>1, <1>2 DEF OneCursorGlyph
  <2>5. \A r \in Rows, c \in Columns : screen'[r][c] = Underscore <=> r = y /\ c = x
    BY Zenon, <2>3, <2>4
  <2>6. \A r \in Rows, c \in Columns : CursorCell' = [x |-> c, y |-> r] <=> r = y /\ c = x
    BY <1>3, <2>2
  <2>7. TypeOK'
    BY Zenon, <1>1, <1>2, <2>1, <2>3 DEF TypeOK, Grid, Cell
  <2>8. OneCursorGlyph' /\ CursorIsDrawn'
    BY ZenonT(30), <1>2, <1>3, <1>4, <1>7, <2>5, <2>6 DEF OneCursorGlyph, CursorIsDrawn
  <2>9. QED
    BY Zenon, <2>7, <2>8 DEF SInv
<1>8. QED
  BY Zenon, <1>6, <1>7

(* A line feed moves the cursor down, or the rows up.                      *)
LEMMA LineFeedKeepsSInv ==
  ASSUME SInv, LineFeed
  PROVE  SInv'
<1>1. TypeOK /\ OneCursorGlyph
  BY Zenon DEF SInv
<1>2. screen \in Grid /\ cursorY \in Int /\ pendingWrap \in BOOLEAN
  <2>1. writing /\ ~panic
    BY Zenon DEF LineFeed, Settle
  <2>2. cursorY \in Rows
    BY Zenon, <1>1, <2>1 DEF TypeOK
  <2>3. QED
    BY <1>1, <2>2, Sizes DEF TypeOK, Grid, Cell, Rows
<1>3. PICK y : Settle(0, y, pendingWrap) /\ y \in {cursorY, cursorY + 1}
  BY DEF LineFeed
<1>4. Scrolled \in Grid
  <2>1. \A r \in Rows : r < rowCount - 1 => screen[r + 1] \in [Columns -> Cell]
    BY <1>2, Sizes DEF Grid, Rows
  <2>2. [x \in Columns |-> Blank] \in [Columns -> Cell]
    BY Sizes
  <2>3. QED
    BY <2>1, <2>2 DEF Scrolled, Grid
<1>5. ASSUME NEW r \in Rows, NEW c \in Columns, Scrolled[r][c] = Underscore
      PROVE  \E s \in Rows : screen[s][c] = Underscore
  <2>1. CASE r < rowCount - 1
    <3>1. r + 1 \in Rows
      BY <2>1, Sizes DEF Rows
    <3>2. Scrolled[r] = screen[r + 1]
      BY Zenon, <2>1 DEF Scrolled
    <3>3. QED
      BY Zenon, <1>5, <3>1, <3>2
  <2>2. CASE ~(r < rowCount - 1)
    <3>1. Scrolled[r][c] = Blank
      BY Zenon, <2>2 DEF Scrolled
    <3>2. QED
      BY Zenon, <1>5, <3>1, Sizes
  <2>3. QED
    BY Zenon, <2>1, <2>2
<1>6. screen' = Scrolled \/ screen' = screen
  BY Zenon DEF LineFeed
<1>7. /\ screen' \in Grid
      /\ \A r \in Rows, c \in Columns : screen'[r][c] = Underscore =>
           \E s \in Rows, d \in Columns : screen[s][d] = Underscore
  BY Zenon, <1>2, <1>4, <1>5, <1>6
<1>8. QED
  <2>1. y \in Int /\ 0 \in Int
    BY <1>2, <1>3
  <2>2. QED
    BY Zenon, <1>2, <1>3, <1>7, <2>1, TurnKeepsSInv

(* A character or a backspace sets one cell, to another glyph.             *)
LEMMA PutKeepsSInv ==
  ASSUME SInv, NEW x \in Int, NEW y \in Int, NEW wrap \in BOOLEAN, Settle(x, y, wrap),
         NEW c \in Columns, NEW r \in Rows, NEW glyph \in Glyphs \cup {Blank},
         screen' = Put(screen, c, r, glyph)
  PROVE  SInv'
<1>1. screen \in Grid
  BY Zenon DEF SInv, TypeOK, Grid, Cell
<1>2. glyph \in Cell /\ glyph # Underscore
  BY Zenon, Sizes
<1>3. /\ screen' \in Grid /\ screen'[r][c] = glyph
      /\ \A s \in Rows, d \in Columns : (s = r /\ d = c) \/ screen'[s][d] = screen[s][d]
  BY <1>1, <1>2, PutProperties
<1>4. \A s \in Rows, d \in Columns : screen'[s][d] = Underscore => screen[s][d] = Underscore
  BY Zenon, <1>2, <1>3
<1>5. QED
  BY Zenon, <1>3, <1>4, TurnKeepsSInv

(* What a turn of the loop starts from.                                    *)
LEMMA TurnStarts ==
  ASSUME SInv, NEW x, NEW y, NEW wrap, Settle(x, y, wrap)
  PROVE  /\ screen \in Grid /\ cursorX \in Columns /\ cursorY \in Rows
         /\ cursorX \in Int /\ cursorY \in Int /\ pendingWrap \in BOOLEAN
<1>1. /\ screen \in Grid /\ cursorX \in Columns /\ cursorY \in Rows
      /\ pendingWrap \in BOOLEAN
  BY Zenon DEF SInv, TypeOK, Grid, Cell, Settle
<1>2. QED
  BY <1>1, Sizes DEF Rows, Columns

(* Backspace erases the cell on the left, or the first one again.          *)
LEMMA BackspaceKeepsSInv ==
  ASSUME SInv, Backspace
  PROVE  SInv'
<1>1. Settle(cursorX - 1, cursorY, pendingWrap)
  BY Zenon DEF Backspace
<1>2. /\ cursorX \in Columns /\ cursorY \in Rows
      /\ cursorX \in Int /\ cursorY \in Int /\ pendingWrap \in BOOLEAN
  BY Zenon, <1>1, TurnStarts
<1>3. AtLeastZero(cursorX - 1) \in Columns /\ cursorX - 1 \in Int
  BY <1>2, Sizes DEF AtLeastZero, Columns
<1>4. screen' = Put(screen, AtLeastZero(cursorX - 1), cursorY, Blank)
  BY Zenon DEF Backspace
<1>5. QED
  BY Zenon, <1>1, <1>2, <1>3, <1>4, PutKeepsSInv

(* A character is printed at the cursor, or behind a pending wrap; on a    *)
(* row that does not exist it fails an Assert.                             *)
LEMMA PrintableKeepsSInv ==
  ASSUME SInv, NEW glyph \in Glyphs, Printable(glyph)
  PROVE  SInv'
<1>1. PICK x, y : /\ x = WrapColumn /\ y = IF pendingWrap THEN cursorY + 1 ELSE cursorY
                  /\ Settle(x + 1, y, x + 1 >= columnCount)
                  /\ screen' = IF y \in Rows THEN Put(screen, x, y, glyph) ELSE screen
  BY Zenon DEF Printable
<1>2. /\ screen \in Grid /\ cursorX \in Columns /\ cursorX \in Int /\ cursorY \in Int
      /\ pendingWrap \in BOOLEAN
  BY Zenon, <1>1, TurnStarts
<1>3. x \in Columns
  BY Zenon, <1>1, <1>2, Sizes DEF WrapColumn
<1>4. x + 1 \in Int /\ y \in Int /\ (x + 1 >= columnCount) \in BOOLEAN
  BY <1>1, <1>2, <1>3, Sizes DEF Columns
<1>5. CASE y \in Rows
  BY Zenon, <1>1, <1>3, <1>4, <1>5, PutKeepsSInv
<1>6. CASE y \notin Rows
  BY Zenon, <1>1, <1>2, <1>4, <1>6, TurnKeepsSInv
<1>7. QED
  BY Zenon, <1>5, <1>6

(* Tabs and the sequences that move the cursor leave the cells alone.      *)
LEMMA MoveKeepsSInv ==
  ASSUME SInv, NEW n \in Arguments, NEW m \in Arguments, Move(n, m)
  PROVE  SInv'
<1>1. ASSUME NEW x, NEW y, Settle(x, y, pendingWrap),
             cursorX \in Int /\ cursorY \in Int => x \in Int /\ y \in Int
      PROVE  SInv'
  <2>1. /\ screen \in Grid /\ cursorX \in Int /\ cursorY \in Int /\ pendingWrap \in BOOLEAN
    BY Zenon, <1>1, TurnStarts
  <2>2. screen' = screen
    BY Zenon DEF Move
  <2>3. QED
    BY Zenon, <1>1, <2>1, <2>2, TurnKeepsSInv
<1>2. n \in Int /\ m \in Int
  BY TerminalSizeAssumption
<1>3. cursorX \in Int /\ cursorY \in Int =>
        /\ 0 \in Int /\ cursorX + 4 \in Int /\ cursorX + n \in Int /\ cursorX - n \in Int
        /\ cursorY - 1 \in Int /\ cursorY + n \in Int /\ cursorY - n \in Int
        /\ m - 1 \in Int /\ n - 1 \in Int
  BY <1>2
<1>4. QED
  BY Zenon, <1>1, <1>3 DEF Move

(* Erasing puts blanks and nothing else.                                   *)
LEMMA EraseKeepsSInv ==
  ASSUME SInv, NEW minX, NEW minY, NEW maxX, NEW maxY, Erase(minX, minY, maxX, maxY)
  PROVE  SInv'
<1>1. Settle(cursorX, cursorY, pendingWrap) /\ screen' = Erased(minX, minY, maxX, maxY)
  BY Zenon DEF Erase
<1>2. /\ screen \in Grid /\ cursorX \in Int /\ cursorY \in Int /\ pendingWrap \in BOOLEAN
  BY Zenon, <1>1, TurnStarts
<1>3. \A r \in Rows, c \in Columns : screen[r][c] \in Cell
  BY Zenon, <1>2 DEF Grid
<1>4. \A r \in Rows, c \in Columns : screen'[r][c] \in {Blank, screen[r][c]}
  BY Zenon, <1>1 DEF Erased
<1>5. screen' = [r \in Rows |-> [c \in Columns |-> screen'[r][c]]]
  BY Zenon, <1>1 DEF Erased
<1>6. screen' \in Grid
  BY <1>3, <1>4, <1>5, Sizes DEF Grid
<1>7. \A r \in Rows, c \in Columns : screen'[r][c] = Underscore => screen[r][c] = Underscore
  BY Zenon, <1>4, Sizes
<1>8. QED
  BY Zenon, <1>1, <1>2, <1>6, <1>7, TurnKeepsSInv

-----------------------------------------------------------------------------
(* The theorems                                                            *)

(* The screen is blank when the first call of Write begins.                *)
LEMMA InitSInv == Init => SInv
<1> SUFFICES ASSUME Init PROVE SInv
  BY Zenon
<1>1. screen \in Grid /\ \A r \in Rows, c \in Columns : screen[r][c] = Blank
  BY Sizes DEF Init, Grid
<1>2. /\ cursorX = 0 /\ cursorY = 0 /\ pendingWrap = FALSE /\ writing = TRUE
      /\ panic = FALSE
  BY Zenon DEF Init
<1>3. TypeOK
  BY Zenon, <1>1, <1>2, Sizes DEF TypeOK, Grid, Cell
<1>4. QED
  BY Zenon, <1>1, <1>2, <1>3, Sizes DEF SInv, OneCursorGlyph, CursorIsDrawn

(* Every step of Write keeps the invariant.                                *)
LEMMA NextKeepsSInv == SInv /\ [Next]_vars => SInv'
<1> SUFFICES ASSUME SInv, [Next]_vars PROVE SInv'
  BY Zenon
<1>1. CASE UNCHANGED vars
  BY Zenon, <1>1 DEF vars, SInv, TypeOK, OneCursorGlyph, CursorIsDrawn, CursorCell
<1>2. CASE Next
  BY Zenon, <1>2, BeginWriteKeepsSInv, EndWriteKeepsSInv, LineFeedKeepsSInv,
     BackspaceKeepsSInv, PrintableKeepsSInv, MoveKeepsSInv, EraseKeepsSInv
     DEF Next, EraseSequence
<1>3. QED
  BY Zenon, <1>1, <1>2

(* The invariant holds in every reachable state.                           *)
LEMMA SpecSInv == Spec => []SInv
BY InitSInv, NextKeepsSInv, PTL DEF Spec

(* No sequence of characters, control sequences and scrolls takes the      *)
(* cursor off the screen, unless an Assert has stopped the kernel.         *)
THEOREM CursorStaysOnScreen == Spec => []TypeOK
<1>1. SInv => TypeOK
  BY Zenon DEF SInv
<1>2. QED
  BY <1>1, SpecSInv, PTL

(* Write erases the cursor glyph that the call before it drew: one is on   *)
(* the screen between two calls, none during a call, on a screen of any    *)
(* size, and always in a row that is on the screen.                        *)
THEOREM CursorIsDrawnOnce == Spec => [](OneCursorGlyph /\ CursorIsDrawn)
<1>1. SInv => OneCursorGlyph /\ CursorIsDrawn
  BY Zenon DEF SInv
<1>2. QED
  BY <1>1, SpecSInv, PTL
=============================================================================
