---------------------------- MODULE TerminalText ----------------------------
(***************************************************************************)
(* The terminal with the text that was printed as a history variable, up   *)
(* to the first sequence that moves the cursor or erases.                  *)
(***************************************************************************)
EXTENDS Terminal, Sequences

CONSTANTS NewLine, MaxText

VARIABLES
  text,     \* the characters and line feeds that were printed
  plain     \* TRUE until another sequence is written

TextInit == Init /\ text = <<>> /\ plain = TRUE

Types(c) ==
  /\ UNCHANGED plain
  /\ IF plain THEN Len(text) < MaxText /\ text' = Append(text, c) ELSE UNCHANGED text

Forgets == plain' = FALSE /\ text' = <<>>

TextNext ==
  \/ (BeginWrite \/ EndWrite) /\ UNCHANGED <<text, plain>>
  \/ LineFeed /\ Types(NewLine)
  \/ \E glyph \in Glyphs : Printable(glyph) /\ Types(glyph)
  \/ (Backspace \/ EraseSequence) /\ Forgets
  \/ \E n, m \in Arguments : Move(n, m) /\ Forgets

TextSpec == TextInit /\ [][TextNext]_<<vars, text, plain>>

(* The rows of a text: a new one after each line feed, and for a character *)
(* behind the last column.                                                 *)
Layout ==
  LET rows[n \in 0..Len(text)] ==
        IF n = 0 THEN << <<>> >>
        ELSE LET before == rows[n - 1]
                 last == before[Len(before)]
             IN IF text[n] = NewLine THEN Append(before, <<>>)
                ELSE IF Len(last) = columnCount THEN Append(before, <<text[n]>>)
                ELSE [before EXCEPT ![Len(before)] = Append(last, text[n])]
  IN rows[Len(text)]

Shown(row, x) == IF x + 1 \in DOMAIN row THEN row[x + 1] ELSE Blank

(* Apart from the cursor, the screen shows the last rows of the text that  *)
(* was written, however it was cut into calls of Write: wrapping neither   *)
(* skips nor repeats a row, and the cursor glyph, which is drawn into the  *)
(* grid, never destroys a character.                                       *)
ScreenShowsText ==
  plain /\ ~panic =>
    LET scrolled == AtLeastZero(Len(Layout) - rowCount)
    IN \A y \in Rows, x \in Columns :
         screen[y][x] \in
           {IF scrolled + y + 1 \in DOMAIN Layout THEN Shown(Layout[scrolled + y + 1], x) ELSE Blank}
             \cup (IF ~writing /\ CursorCell = [x |-> x, y |-> y] THEN {Underscore} ELSE {})
=============================================================================
