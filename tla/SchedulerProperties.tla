------------------------ MODULE SchedulerProperties ------------------------
(***************************************************************************)
(* What the scheduler gives to programs: properties that depend on the     *)
(* number of cores and on how the programs behave.                         *)
(***************************************************************************)
EXTENDS Scheduler

(* GetTask finds every parent and every child it looks up.                 *)
GetTaskFinds == \A c \in Cores : pc[c] \notin {"panicParent", "panicChild"}

(* On one core, when programs wait for their children before they exit or  *)
(* exec, ask for sleeps of whole milliseconds, one at least, and at most   *)
(* two tasks are unfinished, no Assert, Panic() or GetTask of the          *)
(* scheduler ever fails.                                                   *)
NoPanic == \A c \in Cores : pc[c] \notin Panics

(* No lost wake-up: a task parked in WaitForChild has no zombie child that *)
(* its call would have returned.                                           *)
NoMissedExit ==
  \A k \in DOMAIN taskQueue :
    LET t == taskQueue[k] IN
      t.state = "WaitingForChild" =>
        \A j \in DOMAIN t.childrenPids :
          ~(t.suspensionArg \in {0, t.childrenPids[j]} /\ IsZombie(t.childrenPids[j]))

Status(t, normal) ==
  CASE t.state = "Normal" -> normal
    [] t.state = "Terminated" -> "zombie"
    [] t.state = "WaitingForChild" -> "waiting"
    [] t.state = "Blocked" -> IF t.resume = "sleep" THEN "asleep" ELSE "reading"

Owners(pid) == {c \in Cores : Owns(c) /\ currentTask[c].pid = pid}
OwnedTask(pid) == currentTask[CHOOSE c \in Owners(pid) : TRUE]

ProcessStatus == [p \in 1..MaxPid |->
  IF p >= nextPid THEN "unborn"
  ELSE IF Owners(p) # {} THEN Status(OwnedTask(p), "running")
  ELSE IF Queued(p) THEN Status(GetTask(p), "ready") ELSE "gone"]

ProcessParent == [p \in 1..MaxPid |->
  IF Owners(p) # {} THEN OwnedTask(p).parentPid
  ELSE IF Queued(p) THEN GetTask(p).parentPid ELSE 0]

Table == INSTANCE ProcessTable WITH status <- ProcessStatus, parent <- ProcessParent

(* Fork, exec, exit, wait, sleep, read and preemption change the processes *)
(* only as ProcessTable allows: none is lost, revived or reaped by another.*)
ImplementsProcessTable == Table!Spec

(* A runnable task gets a core.                                            *)
ReadyTasksRun ==
  \A p \in 1..MaxPid :
    Queued(p) /\ GetTask(p).state = "Normal" ~>
      \E c \in Cores : pc[c] # "save" /\ Owns(c) /\ currentTask[c].pid = p

(* A task that sleeps is made runnable again by a timer expiry.            *)
SleepEnds ==
  \A p \in 1..MaxPid :
    Queued(p) /\ GetTask(p).state = "Blocked" /\ GetTask(p).resume = "sleep" ~>
      Queued(p) /\ GetTask(p).state = "Normal"

(* When a child exits under a waiting parent, it is reaped.                *)
WokenParentReaps ==
  \A p, q \in 1..MaxPid :
    /\ Queued(p) /\ GetTask(p).resume = "wait" /\ GetTask(p).state = "Normal"
    /\ GetTask(p).rax = q
    ~> nextPid > q /\ ~Queued(q) /\ Owners(q) = {}
=============================================================================
