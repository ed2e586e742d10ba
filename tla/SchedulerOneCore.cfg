SPECIFICATION Spec
CONSTANTS
  Cores = {c1}
  Bsp = c1
  None = None
  MaxPid = 4
  MaxOthers = 0
  SleepTimes = {2, 7}
  WaitPids = {0, 2, 3}
  DefaultSlice = 5
  ReapFirst = {"exit", "exec"}
INVARIANTS NoPanic NoMissedExit
PROPERTIES ImplementsProcessTable ReadyTasksRun SleepEnds WokenParentReaps
