CONSTANTS
  ScanCodes = {a}
  OtherCodes = {escape}
  Shifts = {leftDown, rightDown}
  Releases = {leftUp, rightUp}
  SideOf <- MCSideOf
  Written = {a, 0}
  BUFFER_SIZE = 2
  MaxKeys = 4
  MaxTyped = 4
  LeftDown = leftDown
  RightDown = rightDown
  LeftUp = leftUp
  RightUp = rightUp
SPECIFICATION Spec
CHECK_DEADLOCK FALSE
INVARIANTS TypeOK
PROPERTIES ReadsInOrder ShiftIsTracked
