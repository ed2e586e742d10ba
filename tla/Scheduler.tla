------------------------------ MODULE Scheduler ------------------------------
(***************************************************************************)
(* The preemptive multi-core scheduler (kernel/src/Scheduler.cpp).         *)
(*                                                                         *)
(* All cores share taskQueue under taskQueueLock.  A task that runs is not *)
(* in the queue: it is a copy in currentTask of its core.  The kernel runs *)
(* with interrupts off, so on one core a handler is never interrupted; on  *)
(* several cores every region of code between two lock operations is one   *)
(* step.  A core that fails an Assert or calls Panic() halts, and keeps    *)
(* taskQueueLock if it had it.                                             *)
(***************************************************************************)
EXTENDS Naturals, Sequences, FiniteSets

CONSTANTS
  Cores,
  Bsp,            \* the core that gets the keyboard interrupts
  None,           \* taskQueueLock is free
  MaxPid,         \* bound: processes created
  MaxOthers,      \* bound: unfinished tasks in the queue when a task forks
  SleepTimes,     \* the arguments of Sleep, in milliseconds; 0 is one that its
                  \* Asserts refuse
  WaitPids,       \* the arguments of Wait: 0 (any child) or a pid
  DefaultSlice,   \* 5 in ConfigureTimerClosestExpiry
  ReapFirst       \* what programs do only when they have waited for all their
                  \* children: "exit", "exec", both or nothing

ASSUME SchedulerAssumption ==
  /\ Bsp \in Cores
  /\ None \notin Cores
  /\ MaxPid \in Nat \ {0}
  /\ MaxOthers \in Nat
  /\ SleepTimes \subseteq Nat
  /\ WaitPids \subseteq 0..MaxPid
  /\ DefaultSlice \in Nat \ {0}
  /\ ReapFirst \subseteq {"exit", "exec"}

VARIABLES
  taskQueue,
  taskQueueLock,      \* None or the core that holds it
  currentTask,        \* per core
  restoreFrame,       \* per core
  timerEntries,       \* per core
  currentTimerTime,   \* per core
  unblockQueue,       \* TerminalDevice: pids of the blocked readers
  nextPid,            \* GeneratePID's counter
  pc,                 \* per core: "user" or where in the kernel it is
  i, delta, found     \* per core: locals of SwitchToNextTask

locals == <<i, delta, found>>
vars == <<taskQueue, taskQueueLock, currentTask, restoreFrame, timerEntries,
          currentTimerTime, unblockQueue, nextPid, pc, locals>>

(* Task: resume is where its saved frame continues ("user", or the caller  *)
(* of SuspendSystemCall), home the `this' pointer on its kernel stack, rax *)
(* the register in the frame, which a woken WaitForChild takes as childPid.*)
NewTask(pid, parentPid) ==
  [pid |-> pid, parentPid |-> parentPid, state |-> "Normal",
   suspensionArg |-> 0, childrenPids |-> <<>>, rax |-> 0,
   resume |-> "user", home |-> Bsp]

Idle == NewTask(0, 0)

PopShiftsLate(seq, k) ==    \* mutant: the loop starts at index + 1
  [j \in 1..(Len(seq) - 1) |-> IF j <= k THEN seq[j] ELSE seq[j + 1]]

(* Vector::Pop(index): the elements behind it move down by one.            *)
Pop(seq, k) == [j \in 1..(Len(seq) - 1) |-> IF j < k THEN seq[j] ELSE seq[j + 1]]

(* k is the first index of seq with property P.                            *)
IsFirst(k, seq, P(_)) == k \in DOMAIN seq /\ P(seq[k]) /\ \A j \in 1..(k - 1) : ~P(seq[j])

Position(pid) == CHOOSE k \in DOMAIN taskQueue : IsFirst(k, taskQueue, LAMBDA t : t.pid = pid)
Queued(pid) == \E k \in DOMAIN taskQueue : taskQueue[k].pid = pid
GetTask(pid) == taskQueue[Position(pid)]

Init ==
  /\ taskQueue = <<NewTask(1, 0)>>     \* CreateTaskFromELF(SHELL_PATH)
  /\ taskQueueLock = None
  /\ currentTask = [c \in Cores |-> Idle]
  /\ restoreFrame = [c \in Cores |-> FALSE]
  /\ timerEntries = [c \in Cores |-> <<>>]
  /\ currentTimerTime = [c \in Cores |-> DefaultSlice]
  /\ unblockQueue = <<>>
  /\ nextPid = 2
  /\ pc = [c \in Cores |-> "user"]
  /\ i = [c \in Cores |-> 0]
  /\ delta = [c \in Cores |-> 0]
  /\ found = [c \in Cores |-> FALSE]

Goto(c, label) == pc' = [pc EXCEPT ![c] = label]

(* A region under taskQueueLock that ends at label, or fails an Assert or  *)
(* GetTask and halts the core before it releases the lock.                 *)
Locked(c, ok, label, panic) ==
  /\ taskQueueLock = None
  /\ taskQueueLock' = IF ok THEN None ELSE c
  /\ Goto(c, IF ok THEN label ELSE panic)

Running(c) == pc[c] = "user" /\ currentTask[c].pid # 0

-----------------------------------------------------------------------------
(* SwitchToNextTask                                                        *)

TimerInterrupt(c) ==
  /\ pc[c] = "user"
  /\ Goto(c, "save")
  /\ UNCHANGED <<taskQueue, taskQueueLock, currentTask, restoreFrame, timerEntries,
                 currentTimerTime, unblockQueue, nextPid, locals>>

(* The first locked region, and the LAPIC read of UpdateTimerEntries: at   *)
(* least one millisecond is charged, at most the programmed time.          *)
SaveTask(c) ==
  /\ pc[c] = "save"
  /\ Locked(c, TRUE, "timers", "timers")
  /\ taskQueue' = IF restoreFrame[c] THEN Append(taskQueue, currentTask[c])
                                     ELSE taskQueue
  /\ restoreFrame' = [restoreFrame EXCEPT ![c] = TRUE]
  /\ i' = [i EXCEPT ![c] = Len(timerEntries[c])]
  /\ \E d \in 1..currentTimerTime[c] : delta' = [delta EXCEPT ![c] = d]
  /\ UNCHANGED <<currentTask, timerEntries, currentTimerTime, unblockQueue, nextPid, found>>

CanUnsuspend(pid) ==
  /\ Queued(pid)
  /\ GetTask(pid).state \in {"Blocked", "WaitingForChild"}

UnsuspendedStateKept(pid, value) ==    \* mutant: task.state is not set
  [taskQueue EXCEPT ![Position(pid)] = [@ EXCEPT !.rax = value]]

Unsuspended(pid, value) ==
  [taskQueue EXCEPT ![Position(pid)] = [@ EXCEPT !.state = "Normal", !.rax = value]]

Charge(entries, k, ms) == [entries EXCEPT ![k].milliseconds = @ - ms]

(* One turn of the loop of UpdateTimerEntries, from the last entry down.   *)
TimerRuns(c) ==
  /\ pc[c] = "timers" /\ i[c] > 0
  /\ timerEntries[c][i[c]].milliseconds > delta[c]
  /\ timerEntries' = [timerEntries EXCEPT ![c] = Charge(@, i[c], delta[c])]
  /\ i' = [i EXCEPT ![c] = @ - 1]
  /\ UNCHANGED <<taskQueue, taskQueueLock, currentTask, restoreFrame, currentTimerTime,
                 unblockQueue, nextPid, pc, delta, found>>

TimerExpires(c) ==
  /\ pc[c] = "timers" /\ i[c] > 0
  /\ timerEntries[c][i[c]].milliseconds <= delta[c]
  /\ LET pid == timerEntries[c][i[c]].pid IN
       /\ Locked(c, CanUnsuspend(pid), "timers", "panicTimer")
       /\ taskQueue' = IF CanUnsuspend(pid) THEN Unsuspended(pid, 0) ELSE taskQueue
       /\ timerEntries' = IF CanUnsuspend(pid)
                          THEN [timerEntries EXCEPT ![c] = Pop(@, i[c])]
                          ELSE timerEntries
  /\ i' = [i EXCEPT ![c] = @ - 1]
  /\ UNCHANGED <<currentTask, restoreFrame, currentTimerTime, unblockQueue, nextPid,
                 delta, found>>

RunnableUnlessBlocked(t) ==    \* mutant: the test of the state is inverted
  t.state # "Blocked"

RunnableInUserMode(t) ==    \* mutant: suspended system calls are not resumed
  t.state = "Normal" /\ t.resume = "user"

Runnable(t) == t.state = "Normal"

(* The second locked region: it scans the whole queue and pops every       *)
(* Normal task it meets; the last one popped is the next task.             *)
BeginScan(c) ==
  /\ pc[c] = "timers" /\ i[c] = 0
  /\ taskQueueLock = None
  /\ taskQueueLock' = c
  /\ Goto(c, "scan")
  /\ i' = [i EXCEPT ![c] = 1]
  /\ delta' = [delta EXCEPT ![c] = 0]
  /\ UNCHANGED <<taskQueue, currentTask, restoreFrame, timerEntries, currentTimerTime,
                 unblockQueue, nextPid, found>>

ScanSkip(c) ==
  /\ pc[c] = "scan" /\ i[c] <= Len(taskQueue)
  /\ ~Runnable(taskQueue[i[c]])
  /\ i' = [i EXCEPT ![c] = @ + 1]
  /\ UNCHANGED <<taskQueue, taskQueueLock, currentTask, restoreFrame, timerEntries,
                 currentTimerTime, unblockQueue, nextPid, pc, delta, found>>

ScanPop(c) ==
  /\ pc[c] = "scan" /\ i[c] <= Len(taskQueue)
  /\ Runnable(taskQueue[i[c]])
  /\ currentTask' = [currentTask EXCEPT ![c] = taskQueue[i[c]]]
  /\ taskQueue' = Pop(taskQueue, i[c])
  /\ found' = [found EXCEPT ![c] = TRUE]
  /\ i' = [i EXCEPT ![c] = @ + 1]
  /\ UNCHANGED <<taskQueueLock, restoreFrame, timerEntries, currentTimerTime,
                 unblockQueue, nextPid, pc, delta>>

ExpiriesRoundedDown(c) ==    \* mutant: the conversion to ticks truncates
  {DefaultSlice} \cup
  {timerEntries[c][k].milliseconds \div 2 : k \in DOMAIN timerEntries[c]}

(* ConfigureTimerClosestExpiry: the smallest of these.                     *)
Expiries(c) ==
  {DefaultSlice} \cup {timerEntries[c][k].milliseconds : k \in DOMAIN timerEntries[c]}

(* The rest of SwitchToNextTask: idle when nothing was found, program the  *)
(* timer, load the frame of the next task.                                 *)
Dispatch(c) ==
  /\ pc[c] = "scan" /\ i[c] > Len(taskQueue)
  /\ taskQueueLock' = None
  /\ LET next == IF found[c] THEN currentTask[c] ELSE Idle IN
       /\ currentTask' = [currentTask EXCEPT ![c] = next]
       /\ Goto(c, next.resume)
  /\ restoreFrame' = [restoreFrame EXCEPT ![c] = found[c]]
  /\ \E t \in Expiries(c) :
       /\ \A u \in Expiries(c) : t <= u
       /\ currentTimerTime' = [currentTimerTime EXCEPT ![c] = t]
  /\ i' = [i EXCEPT ![c] = 0]
  /\ found' = [found EXCEPT ![c] = FALSE]
  /\ UNCHANGED <<taskQueue, timerEntries, unblockQueue, nextPid, delta>>

-----------------------------------------------------------------------------
(* System calls of the running task                                        *)

(* SuspendSystemCall up to `int $0x81', called for kind.                   *)
Suspend(c, state, arg, kind) ==
  /\ currentTask' = IF currentTask[c].state = "Normal"
                    THEN [currentTask EXCEPT ![c].state = state, ![c].suspensionArg = arg,
                                             ![c].resume = kind, ![c].home = c]
                    ELSE currentTask
  /\ Goto(c, IF currentTask[c].state = "Normal" THEN "save" ELSE "panicSuspend")

(* The Asserts of SystemCall and SleepCurrentTask, before anything changes:*)
(* milliseconds > 0, and no part of a millisecond in the nanoseconds.      *)
SleepFails(c, ms) ==
  /\ Running(c) /\ ms = 0
  /\ Goto(c, "panicSleep")
  /\ UNCHANGED <<taskQueue, taskQueueLock, currentTask, restoreFrame, timerEntries,
                 currentTimerTime, unblockQueue, nextPid, locals>>

SleepCurrentTask(c, ms) ==
  /\ Running(c) /\ ms > 0
  /\ timerEntries' = [timerEntries EXCEPT ![c] =
                        Append(@, [milliseconds |-> ms, pid |-> currentTask[c].pid])]
  /\ Suspend(c, "Blocked", 0, "sleep")
  /\ UNCHANGED <<taskQueue, taskQueueLock, restoreFrame, currentTimerTime, unblockQueue,
                 nextPid, locals>>

(* TerminalDevice::Read when the terminal does not hold enough input.      *)
BlockingRead(c) ==
  /\ Running(c)
  /\ unblockQueue' = Append(unblockQueue, currentTask[c].pid)
  /\ Suspend(c, "Blocked", 0, "read")
  /\ UNCHANGED <<taskQueue, taskQueueLock, restoreFrame, timerEntries, currentTimerTime,
                 nextPid, locals>>

(* TerminalDevice::KeyboardInput when it completes the oldest read.        *)
KeyboardInterrupt(c) ==
  /\ c = Bsp /\ pc[c] = "user" /\ unblockQueue # <<>>
  /\ LET pid == Head(unblockQueue) IN
       /\ Locked(c, CanUnsuspend(pid), "user", "panicUnsuspend")
       /\ taskQueue' = IF CanUnsuspend(pid) THEN Unsuspended(pid, 0) ELSE taskQueue
  /\ unblockQueue' = Tail(unblockQueue)
  /\ UNCHANGED <<currentTask, restoreFrame, timerEntries, currentTimerTime, nextPid, locals>>

(* Sleep and Read return from SuspendSystemCall.                           *)
ResumeBlocked(c) ==
  /\ pc[c] \in {"sleep", "read"}
  /\ Goto(c, IF currentTask[currentTask[c].home].state = "Normal" THEN "user"
                                                                  ELSE "panicResume")
  /\ currentTask' = [currentTask EXCEPT ![c].resume = "user", ![c].home = Bsp]
  /\ UNCHANGED <<taskQueue, taskQueueLock, restoreFrame, timerEntries, currentTimerTime,
                 unblockQueue, nextPid, locals>>

ForkCurrentTask(c) ==
  /\ Running(c)
  /\ nextPid <= MaxPid
  /\ Cardinality({k \in DOMAIN taskQueue : taskQueue[k].state # "Terminated"}) <= MaxOthers
  /\ Locked(c, TRUE, "user", "user")
  /\ taskQueue' = Append(taskQueue, NewTask(nextPid, currentTask[c].pid))
  /\ currentTask' = [currentTask EXCEPT ![c].childrenPids = Append(@, nextPid)]
  /\ nextPid' = nextPid + 1
  /\ UNCHANGED <<restoreFrame, timerEntries, currentTimerTime, unblockQueue, locals>>

(* The new image gets the pid and the parent, but not the children.        *)
Execute(c) ==
  /\ Running(c)
  /\ "exec" \in ReapFirst => currentTask[c].childrenPids = <<>>
  /\ Locked(c, TRUE, "save", "save")
  /\ taskQueue' = Append(taskQueue, NewTask(currentTask[c].pid, currentTask[c].parentPid))
  /\ restoreFrame' = [restoreFrame EXCEPT ![c] = FALSE]
  /\ UNCHANGED <<currentTask, timerEntries, currentTimerTime, unblockQueue, nextPid, locals>>

WaitsForInAnyState(t, pid) ==    \* mutant: parent.state is not checked
  t.suspensionArg \in {0, pid}

WaitsForAnyChild(t, pid) ==    \* mutant: suspensionArg is not checked
  t.state = "WaitingForChild"

WaitsForThisChild(t, pid) ==    \* mutant: suspensionArg == 0 is not checked
  t.state = "WaitingForChild" /\ t.suspensionArg = pid

(* The condition under which a child that exits wakes its parent.          *)
WaitsFor(t, pid) == t.state = "WaitingForChild" /\ t.suspensionArg \in {0, pid}

ExitInit(c) ==
  /\ Running(c)
  /\ currentTask[c].pid = 1
  /\ "exit" \in ReapFirst => currentTask[c].childrenPids = <<>>
  /\ currentTask' = [currentTask EXCEPT ![c].state = "Terminated"]
  /\ Goto(c, "save")
  /\ UNCHANGED <<taskQueue, taskQueueLock, restoreFrame, timerEntries, currentTimerTime,
                 unblockQueue, nextPid, locals>>

ExitCurrentTask(c) ==
  /\ Running(c)
  /\ currentTask[c].pid # 1
  /\ "exit" \in ReapFirst => currentTask[c].childrenPids = <<>>
  /\ currentTask' = [currentTask EXCEPT ![c].state = "Terminated"]
  /\ LET pid == currentTask[c].pid
         parent == currentTask[c].parentPid IN
       /\ Locked(c, Queued(parent), "save", "panicParent")
       /\ taskQueue' = IF Queued(parent) /\ WaitsFor(GetTask(parent), pid)
                       THEN Unsuspended(parent, pid) ELSE taskQueue
  /\ UNCHANGED <<restoreFrame, timerEntries, currentTimerTime, unblockQueue, nextPid, locals>>

(* WaitForChild up to the end of its first locked region, and the suspend. *)
(* The loop over the children ends at the first one that GetTask does not  *)
(* find or that matches.  (Without children the call returns an error.)    *)
WaitForChild(c, pid) ==
  /\ Running(c)
  /\ currentTask[c].childrenPids # <<>>
  /\ LET children == currentTask[c].childrenPids
         Ends(p) == Queued(p) => GetTask(p).state = "Terminated" /\ pid \in {0, p}
     IN \/ /\ \A k \in DOMAIN children : ~Ends(children[k])
           /\ taskQueueLock = None
           /\ Suspend(c, "WaitingForChild", pid, "wait")
           /\ UNCHANGED taskQueueLock
        \/ \E k \in DOMAIN children :
             /\ IsFirst(k, children, Ends)
             /\ Locked(c, Queued(children[k]), "reap", "panicChild")
             /\ currentTask' = [currentTask EXCEPT ![c].rax = children[k], ![c].home = c]
  /\ UNCHANGED <<taskQueue, restoreFrame, timerEntries, currentTimerTime, unblockQueue,
                 nextPid, locals>>

(* WaitForChild resumes: the Assert of SuspendSystemCall, then the locked  *)
(* region that checks the child.                                           *)
ResumeWait(c) ==
  /\ pc[c] = "wait"
  /\ LET childPid == currentTask[c].rax
         ok == /\ Queued(childPid)
               /\ GetTask(childPid).state = "Terminated"
               /\ currentTask[c].suspensionArg \in {0, childPid}
     IN \/ /\ currentTask[currentTask[c].home].state = "Normal"
           /\ Locked(c, ok, "reap", "panicChild")
        \/ /\ currentTask[currentTask[c].home].state # "Normal"
           /\ Goto(c, "panicResume")
           /\ UNCHANGED taskQueueLock
  /\ UNCHANGED <<taskQueue, currentTask, restoreFrame, timerEntries, currentTimerTime,
                 unblockQueue, nextPid, locals>>

(* The rest of WaitForChild: the zombie leaves the queue, its pid leaves   *)
(* the children of the scheduler the call started on.                      *)
ReapChild(c) ==
  /\ pc[c] = "reap"
  /\ taskQueueLock = None
  /\ LET childPid == currentTask[c].rax
         home == currentTask[c].home
         children == currentTask[home].childrenPids
     IN /\ taskQueue' = IF Queued(childPid) THEN Pop(taskQueue, Position(childPid))
                                            ELSE taskQueue
        /\ \/ /\ Queued(childPid)
              /\ \E k \in DOMAIN children :
                   /\ IsFirst(k, children, LAMBDA p : p = childPid)
                   /\ currentTask' = [currentTask EXCEPT
                        ![home].childrenPids = Pop(@, k),
                        ![c].resume = "user", ![c].rax = 0, ![c].home = Bsp]
              /\ Goto(c, "user")
           \/ /\ ~Queued(childPid) \/ \A k \in DOMAIN children : children[k] # childPid
              /\ Goto(c, "panicRemoved")
              /\ UNCHANGED currentTask
  /\ UNCHANGED <<taskQueueLock, restoreFrame, timerEntries, currentTimerTime, unblockQueue,
                 nextPid, locals>>

-----------------------------------------------------------------------------

Kernel(c) ==
  \/ SaveTask(c) \/ TimerRuns(c) \/ TimerExpires(c)
  \/ BeginScan(c) \/ ScanSkip(c) \/ ScanPop(c) \/ Dispatch(c)
  \/ ResumeBlocked(c) \/ ResumeWait(c) \/ ReapChild(c)

UserCall(c) ==
  \/ \E ms \in SleepTimes : SleepFails(c, ms)
  \/ \E ms \in SleepTimes : SleepCurrentTask(c, ms)
  \/ BlockingRead(c) \/ ForkCurrentTask(c) \/ Execute(c)
  \/ ExitInit(c) \/ ExitCurrentTask(c)
  \/ \E pid \in WaitPids : WaitForChild(c, pid)

Next == \E c \in Cores :
  Kernel(c) \/ UserCall(c) \/ TimerInterrupt(c) \/ KeyboardInterrupt(c)

(* The kernel runs to the end of a handler; the one-shot timer, programmed *)
(* by every switch, interrupts a core that stays in user mode.             *)
Fairness == \A c \in Cores : WF_vars(Kernel(c)) /\ WF_vars(TimerInterrupt(c))

Spec == Init /\ [][Next]_vars /\ Fairness

-----------------------------------------------------------------------------
(* Properties                                                              *)

InKernelOfTask == {"sleep", "read", "wait", "reap"}
Panics == {"panicTimer", "panicSuspend", "panicUnsuspend", "panicResume", "panicParent",
           "panicChild", "panicRemoved", "panicSleep"}
States == {"Normal", "Blocked", "Terminated", "WaitingForChild"}
Pids == 0..MaxPid

Task == [pid : Pids, parentPid : Pids, state : States, suspensionArg : Pids,
         childrenPids : Seq(Pids), rax : Pids,
         resume : {"user", "sleep", "read", "wait"}, home : Cores]

TimerEntry == [milliseconds : Nat \ {0}, pid : Pids]

(* Queue, current tasks and timer entries stay well formed: expired timers *)
(* are removed at zero, never below, and pids are not reused.              *)
TypeOK ==
  /\ taskQueue \in Seq(Task)
  /\ taskQueueLock \in Cores \cup {None}
  /\ currentTask \in [Cores -> Task]
  /\ restoreFrame \in [Cores -> BOOLEAN]
  /\ timerEntries \in [Cores -> Seq(TimerEntry)]
  /\ currentTimerTime \in [Cores -> 1..DefaultSlice]
  /\ unblockQueue \in Seq(Pids)
  /\ nextPid \in 2..(MaxPid + 1)
  /\ pc \in [Cores -> {"user", "save", "timers", "scan"} \cup InKernelOfTask \cup Panics]
  /\ i \in [Cores -> Nat]
  /\ delta \in [Cores -> 0..DefaultSlice]
  /\ found \in [Cores -> BOOLEAN]

(* Core c runs its current task or is going to put it back in the queue.   *)
Owns(c) ==
  \/ Running(c)
  \/ pc[c] \in InKernelOfTask
  \/ pc[c] = "save" /\ restoreFrame[c]
  \/ pc[c] = "scan" /\ found[c]

(* SwitchToNextTask, fork and exec never duplicate a task: a pid is in the *)
(* queue once, or owned by one core, never both.  The idle task (pid 0) is *)
(* never queued.                                                           *)
UniqueTasks ==
  /\ \A j, k \in DOMAIN taskQueue : taskQueue[j].pid = taskQueue[k].pid => j = k
  /\ ~Queued(0)
  /\ \A c \in Cores : Owns(c) => currentTask[c].pid # 0 /\ ~Queued(currentTask[c].pid)
  /\ \A c, d \in Cores :
       Owns(c) /\ Owns(d) /\ currentTask[c].pid = currentTask[d].pid => c = d

(* No core ever runs a task that is blocked, waiting or terminated.        *)
RunsOnlyNormal ==
  \A c \in Cores : pc[c] \in {"user"} \cup InKernelOfTask => currentTask[c].state = "Normal"

(* Pid has been put to sleep: it is Blocked in the queue, or on its way    *)
(* there on core c.                                                        *)
Asleep(c, pid, kind) ==
  \/ \E k \in DOMAIN taskQueue :
       taskQueue[k].pid = pid /\ taskQueue[k].state = "Blocked" /\ taskQueue[k].resume = kind
  \/ /\ pc[c] = "save" /\ restoreFrame[c]
     /\ currentTask[c].pid = pid
     /\ currentTask[c].state = "Blocked"
     /\ currentTask[c].resume = kind

(* Every timer entry of every core is for a distinct task that is asleep   *)
(* in SleepCurrentTask, so UpdateTimerEntries wakes only sleepers, once.   *)
TimersAreOwed ==
  /\ \A c \in Cores : \A k \in DOMAIN timerEntries[c] :
       Asleep(c, timerEntries[c][k].pid, "sleep")
  /\ \A c, d \in Cores : \A j \in DOMAIN timerEntries[c], k \in DOMAIN timerEntries[d] :
       timerEntries[c][j].pid = timerEntries[d][k].pid => c = d /\ j = k

(* A sleeper is never forgotten: it has a timer entry on some core.        *)
SleepersHaveTimers ==
  \A k \in DOMAIN taskQueue :
    taskQueue[k].state = "Blocked" /\ taskQueue[k].resume = "sleep" =>
      \E c \in Cores : \E j \in DOMAIN timerEntries[c] :
        timerEntries[c][j].pid = taskQueue[k].pid

IsZombie(pid) == Queued(pid) /\ GetTask(pid).state = "Terminated"

(* A zombie stays in the queue, Terminated, until its parent is in         *)
(* WaitForChild for it: no switch, wake-up or other task's wait takes it.  *)
ZombiesWaitForParent ==
  [][\A pid \in Pids : IsZombie(pid) /\ ~IsZombie(pid)' =>
       \E c \in Cores : /\ pc[c] = "reap"
                        /\ currentTask[c].rax = pid
                        /\ currentTask[c].pid = GetTask(pid).parentPid]_vars
=============================================================================
