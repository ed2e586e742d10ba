\* Characters and line feeds, cut into calls of Write in every way.
CONSTANTS
  rowCount = 3
  columnCount = 2
  Glyphs = {a, b}
  Blank = blank
  Underscore = underscore
  Arguments = {0, 1, 2, 3}
  NewLine = newline
  MaxText = 7
SPECIFICATION TextSpec
CHECK_DEADLOCK FALSE
INVARIANTS TypeOK OneCursorGlyph ScreenShowsText
