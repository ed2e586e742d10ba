SPECIFICATION Spec
CONSTANTS
  Cores = {c1, c2}
  Bsp = c1
  None = None
  MaxPid = 3
  MaxOthers = 0
  WaitPids = {0}
  SleepTimes = {0, 2}
  DefaultSlice = 1
  ReapFirst = {"exec"}
INVARIANTS TypeOK UniqueTasks RunsOnlyNormal TimersAreOwed SleepersHaveTimers
PROPERTIES ZombiesWaitForParent
CHECK_DEADLOCK FALSE
