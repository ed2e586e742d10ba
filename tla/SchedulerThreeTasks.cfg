SPECIFICATION Spec
CONSTANTS
  Cores = {c1}
  Bsp = c1
  None = None
  MaxPid = 3
  MaxOthers = 1
  WaitPids = {0}
  SleepTimes = {1}
  DefaultSlice = 1
  ReapFirst = {"exit", "exec"}
INVARIANT GetTaskFinds
CHECK_DEADLOCK FALSE
