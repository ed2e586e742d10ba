\* Two readers that compete, in both modes.
CONSTANTS
  Readers = {r1, r2}
  Keys = {a, b, newline, backspace}
  NewLine = newline
  Backspace = backspace
  Counts = {1, 2}
  Modes = {TRUE, FALSE}
  MaxInput = 3
SPECIFICATION Spec
CHECK_DEADLOCK FALSE
INVARIANTS TypeOK QueueIsBlockedReaders
PROPERTIES ImplementsLineDiscipline RawInputWakes NewLinesEndRead
