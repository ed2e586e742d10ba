------------------------------ MODULE Terminal ------------------------------
(***************************************************************************)
(* The terminal's screen (kernel/src/Terminal.cpp over TextRenderer.cpp    *)
(* and Framebuffer.cpp), as a grid of character cells.  One call of Write  *)
(* erases the cursor glyph, handles the characters and escape sequences of *)
(* its argument one after the other, and draws the cursor glyph again.     *)
(* Colours and the sequences that only set them are left out, and the      *)
(* sequences that Write does not know or that its argument cuts off, at    *)
(* which it stops the kernel.  A cell outside of the framebuffer makes     *)
(* PlotPixel's Assert fail.                                                *)
(***************************************************************************)
EXTENDS Integers

CONSTANTS
  rowCount, columnCount,
  Glyphs, Blank, Underscore,
  Arguments            \* the arguments of control sequences

ASSUME TerminalSizeAssumption ==
  /\ rowCount \in Nat \ {0} /\ columnCount \in Nat \ {0, 1}
  /\ Blank \notin Glyphs /\ Underscore \notin Glyphs /\ Blank # Underscore
  /\ Arguments \subseteq Nat

VARIABLES
  screen,              \* screen[y][x]
  cursorX, cursorY, pendingWrap,
  writing,             \* inside a call of Write
  panic

vars == <<screen, cursorX, cursorY, pendingWrap, writing, panic>>

Rows == 0..(rowCount - 1)
Columns == 0..(columnCount - 1)

Put(cells, x, y, glyph) == [cells EXCEPT ![y][x] = glyph]

(* After the constructor, at the beginning of the first call of Write.     *)
Init ==
  /\ screen = [y \in Rows |-> [x \in Columns |-> Blank]]
  /\ cursorX = 0 /\ cursorY = 0 /\ pendingWrap = FALSE
  /\ writing = TRUE /\ panic = FALSE

(* Where the cursor glyph is.                                              *)
CursorCell ==
  IF pendingWrap THEN [x |-> 0, y |-> cursorY + 1] ELSE [x |-> cursorX, y |-> cursorY]

BeginWriteIgnoresWrap ==    \* mutant: the cursor is erased as if no wrap were pending
  /\ ~writing /\ ~panic
  /\ screen' = Put(screen, cursorX, cursorY, Blank)
  /\ writing' = TRUE
  /\ UNCHANGED <<cursorX, cursorY, pendingWrap, panic>>

BeginWrite ==
  /\ ~writing /\ ~panic
  /\ screen' = Put(screen, CursorCell.x, CursorCell.y, Blank)
  /\ writing' = TRUE
  /\ UNCHANGED <<cursorX, cursorY, pendingWrap, panic>>

(* Draw the cursor glyph, if there is such a row.                          *)
EndWrite ==
  /\ writing /\ ~panic
  /\ IF CursorCell.y \in Rows
     THEN screen' = Put(screen, CursorCell.x, CursorCell.y, Underscore) /\ UNCHANGED panic
     ELSE panic' = TRUE /\ UNCHANGED screen
  /\ writing' = FALSE
  /\ UNCHANGED <<cursorX, cursorY, pendingWrap>>

-----------------------------------------------------------------------------
(* One turn of the loop                                                    *)

AtLeastZero(n) == IF n < 0 THEN 0 ELSE n

ClampedOneTooFar(x) ==    \* mutant: columnCount instead of columnCount - 1
  AtLeastZero(IF x >= columnCount THEN columnCount ELSE x)

Clamped(x) == AtLeastZero(IF x >= columnCount THEN columnCount - 1 ELSE x)

(* The end of every turn: the cursor is brought back to the screen, except *)
(* that a row below the last one fails an Assert.                          *)
Settle(x, y, wrap) ==
  /\ writing /\ ~panic
  /\ cursorX' = Clamped(x)
  /\ cursorY' = AtLeastZero(y)
  /\ pendingWrap' = (wrap /\ x >= columnCount - 1)
  /\ panic' = (y >= rowCount)
  /\ UNCHANGED writing

(* ScrollDown, by cells: its fill begins and ends one pixel early.         *)
Scrolled ==
  [y \in Rows |-> IF y < rowCount - 1 THEN screen[y + 1] ELSE [x \in Columns |-> Blank]]

LineFeed ==
  /\ Settle(0, IF cursorY + 1 >= rowCount THEN cursorY ELSE cursorY + 1, pendingWrap)
  /\ screen' = IF cursorY + 1 >= rowCount THEN Scrolled ELSE screen

Backspace ==
  /\ Settle(cursorX - 1, cursorY, pendingWrap)
  /\ screen' = Put(screen, AtLeastZero(cursorX - 1), cursorY, Blank)

WrapColumnKept ==    \* mutant: a pending wrap does not return to column 0
  cursorX

WrapColumn == IF pendingWrap THEN 0 ELSE cursorX

(* Print, on the next row if a wrap is pending.                            *)
Printable(glyph) ==
  LET x == WrapColumn
      y == IF pendingWrap THEN cursorY + 1 ELSE cursorY
  IN /\ Settle(x + 1, y, x + 1 >= columnCount)
     /\ screen' = IF y \in Rows THEN Put(screen, x, y, glyph) ELSE screen

(* Tab, ESC M and the control sequences that move the cursor; H and f are  *)
(* given as a pair of arguments, or as (1, 1) when they have none.         *)
Move(n, m) ==
  /\ \/ Settle(cursorX + 4, cursorY, pendingWrap)     \* tab
     \/ Settle(cursorX, cursorY - 1, pendingWrap)     \* M
     \/ Settle(m - 1, n - 1, pendingWrap)             \* H, f
     \/ Settle(cursorX, cursorY - n, pendingWrap)     \* A
     \/ Settle(cursorX, cursorY + n, pendingWrap)     \* B
     \/ Settle(cursorX + n, cursorY, pendingWrap)     \* C
     \/ Settle(cursorX - n, cursorY, pendingWrap)     \* D
     \/ Settle(0, cursorY + n, pendingWrap)           \* E
     \/ Settle(0, cursorY - n, pendingWrap)           \* F
     \/ Settle(n - 1, cursorY, pendingWrap)           \* G
     \/ Settle(cursorX, n - 1, pendingWrap)           \* d
  /\ UNCHANGED screen

(* EraseRangeInclusive: every row of the range is erased up to maxX.       *)
Erased(minX, minY, maxX, maxY) ==
  [y \in Rows |-> [x \in Columns |->
     IF y \in minY..maxY /\ x <= maxX /\ (y = minY => x >= minX) THEN Blank ELSE screen[y][x]]]

Erase(minX, minY, maxX, maxY) ==
  /\ Settle(cursorX, cursorY, pendingWrap)
  /\ screen' = Erased(minX, minY, maxX, maxY)

EraseSequence ==
  \/ Erase(cursorX, cursorY, columnCount - 1, rowCount - 1)                      \* J, J 0
  \/ Erase(0, 0, cursorX, cursorY)                                               \* J 1
  \/ Erase(0, 0, columnCount - 1, rowCount - 1)                                  \* J 2
  \/ Erase(cursorX, cursorY, columnCount - 1, cursorY)                           \* K, K 0
  \/ Erase(0, cursorY, cursorX, cursorY)                                         \* K 1
  \/ Erase(0, cursorY, columnCount - 1, cursorY)                                 \* K 2

Next ==
  \/ BeginWrite \/ EndWrite
  \/ LineFeed \/ Backspace
  \/ \E glyph \in Glyphs : Printable(glyph)
  \/ \E n, m \in Arguments : Move(n, m)
  \/ EraseSequence

Spec == Init /\ [][Next]_vars

-----------------------------------------------------------------------------
(* Properties                                                              *)

(* The cursor is on the screen, and a wrap is pending only behind the last *)
(* column.                                                                 *)
TypeOK ==
  /\ screen \in [Rows -> [Columns -> Glyphs \cup {Blank, Underscore}]]
  /\ cursorX \in Columns
  /\ cursorY \in Rows \/ panic
  /\ pendingWrap \in BOOLEAN /\ (pendingWrap => cursorX = columnCount - 1)
  /\ writing \in BOOLEAN /\ panic \in BOOLEAN

(* Between two calls of Write exactly one cursor glyph is on the screen,   *)
(* at the place where the next character will be printed; during a call    *)
(* there is none.  Scrolling, wrapping and erasing leave no copy behind.   *)
OneCursorGlyph ==
  ~panic => \A y \in Rows, x \in Columns :
    screen[y][x] = Underscore <=> ~writing /\ CursorCell = [x |-> x, y |-> y]
=============================================================================
