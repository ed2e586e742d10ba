--------------------------- MODULE SchedulerProofs --------------------------
(***************************************************************************)
(* The scheduler never duplicates a task and never runs one that is not    *)
(* Normal; and wake-ups are neither lost nor misdirected: a timer wakes a  *)
(* sleeper and nothing else, every sleeper has a timer, a parent in        *)
(* WaitForChild has no zombie it waits for, and a zombie leaves the queue  *)
(* only through its parent.  All for every number of cores, processes and  *)
(* sleepers.  First the invariant and what the shapes of step do to it,    *)
(* then the steps of SwitchToNextTask and of the interrupt handlers, the   *)
(* system calls, and the theorems.                                         *)
(***************************************************************************)
EXTENDS SchedulerProperties, TLAPS

(* Vector::Pop(index) shifts the rest of the vector down by one.           *)
LEMMA PopProperties ==
  ASSUME NEW S, NEW s \in Seq(S), NEW k \in 1..Len(s)
  PROVE  /\ Pop(s, k) \in Seq(S)
         /\ Len(Pop(s, k)) = Len(s) - 1
         /\ \A j \in 1..(Len(s) - 1) : Pop(s, k)[j] = IF j < k THEN s[j] ELSE s[j + 1]
BY DEF Pop

(* What is left after Pop(index) was there before, at another index.       *)
LEMMA PopIndices ==
  ASSUME NEW S, NEW s \in Seq(S), NEW k \in 1..Len(s), NEW r, r = Pop(s, k)
  PROVE  \A j \in DOMAIN r :
           \E m \in DOMAIN s : m # k /\ m \in {j, j + 1} /\ r[j] = s[m]
<1>1. DOMAIN r = 1..(Len(s) - 1) /\ DOMAIN s = 1..Len(s) /\ Len(s) \in Nat
  BY DEF Pop
<1>2. \A j \in 1..(Len(s) - 1) : r[j] = IF j < k THEN s[j] ELSE s[j + 1]
  BY Zenon, PopProperties
<1>3. SUFFICES ASSUME NEW j \in 1..(Len(s) - 1)
               PROVE  \E m \in 1..Len(s) : m # k /\ m \in {j, j + 1} /\ r[j] = s[m]
  BY Zenon, <1>1
<1>4. CASE j < k
  <2>1. j \in 1..Len(s) /\ j # k
    BY <1>1, <1>4
  <2>2. QED
    BY Zenon, <1>2, <1>4, <2>1
<1>5. CASE ~(j < k)
  <2>1. j + 1 \in 1..Len(s) /\ j + 1 # k
    BY <1>1, <1>5
  <2>2. QED
    BY Zenon, <1>2, <1>5, <2>1
<1>6. QED
  BY <1>4, <1>5

(* Writing one element of a vector.                                        *)
LEMMA ExceptSeq ==
  ASSUME NEW S, NEW s \in Seq(S), NEW k \in 1..Len(s), NEW e \in S
  PROVE  /\ [s EXCEPT ![k] = e] \in Seq(S)
         /\ Len([s EXCEPT ![k] = e]) = Len(s)
         /\ \A j \in 1..Len(s) : [s EXCEPT ![k] = e][j] = IF j = k THEN e ELSE s[j]
OBVIOUS

(* GetTask(pid) is a queued task with that pid, when there is one.         *)
LEMMA PositionProperties ==
  ASSUME TypeOK, UniqueTasks, NEW pid, Queued(pid)
  PROVE  Position(pid) \in 1..Len(taskQueue) /\ taskQueue[Position(pid)].pid = pid
<1>1. PICK k \in DOMAIN taskQueue : taskQueue[k].pid = pid
  BY Zenon DEF Queued
<1>2. taskQueue \in Seq(Task)
  BY Zenon DEF TypeOK
<1>3. DOMAIN taskQueue = 1..Len(taskQueue)
  BY <1>2
<1>4. \A j \in 1..(k - 1) : taskQueue[j].pid # pid
  BY <1>1, <1>3 DEF UniqueTasks
<1>5. IsFirst(k, taskQueue, LAMBDA t : t.pid = pid)
  BY Zenon, <1>1, <1>4 DEF IsFirst
<1>6. IsFirst(Position(pid), taskQueue, LAMBDA t : t.pid = pid)
  BY Zenon, <1>5 DEF Position, IsFirst
<1>7. QED
  BY Zenon, <1>3, <1>6 DEF IsFirst

-----------------------------------------------------------------------------
(* The inductive invariant.  UniqueTasks and RunsOnlyNormal need to know   *)
(* that a core has exactly one of: a task to put back (restoreFrame), a    *)
(* task just popped (found), or none; and that fresh pids are fresh.       *)

LocalInv(c) ==
  /\ currentTask[c].pid < nextPid
  /\ pc[c] = "user" => (restoreFrame[c] <=> currentTask[c].pid # 0)
  /\ pc[c] \in InKernelOfTask => restoreFrame[c]
  /\ pc[c] # "scan" => ~found[c]
  /\ pc[c] = "scan" => i[c] >= 1
  /\ pc[c] = "timers" => i[c] <= Len(timerEntries[c])
  /\ pc[c] \in {"user"} \cup InKernelOfTask \/ found[c] => currentTask[c].state = "Normal"

IInv ==
  /\ TypeOK
  /\ UniqueTasks
  /\ \A k \in DOMAIN taskQueue : taskQueue[k].pid < nextPid
  /\ \A c \in Cores : LocalInv(c)

(* The parts of the invariant, before and after a step of the scheduler.   *)
LEMMA IInvParts ==
  IInv => /\ TypeOK /\ UniqueTasks /\ (\A c \in Cores : LocalInv(c))
          /\ \A k \in DOMAIN taskQueue : taskQueue[k].pid < nextPid
BY Zenon DEF IInv

LEMMA IInvPartsNext ==
  IInv' => /\ TypeOK' /\ UniqueTasks' /\ (\A c \in Cores : LocalInv(c)')
           /\ \A k \in DOMAIN taskQueue' : taskQueue'[k].pid < nextPid'
BY Zenon DEF IInv

SamePids(q, r) ==
  Len(q) = Len(r) /\ \A k \in 1..Len(q) : q[k].pid = r[k].pid

(* What a step of core c leaves alone on the other cores.                  *)
OthersSame(c) ==
  \A d \in Cores \ {c} :
    /\ pc'[d] = pc[d] /\ restoreFrame'[d] = restoreFrame[d]
    /\ found'[d] = found[d] /\ i'[d] = i[d] /\ timerEntries'[d] = timerEntries[d]
    /\ currentTask'[d].pid = currentTask[d].pid
    /\ currentTask'[d].state = currentTask[d].state

(* A step of core c that moves no task between the queue and a core.       *)
LEMMA LocalStep ==
  ASSUME IInv, TypeOK', NEW c \in Cores,
         SamePids(taskQueue', taskQueue),
         nextPid' = nextPid,
         OthersSame(c),
         Owns(c)' => Owns(c) /\ currentTask'[c].pid = currentTask[c].pid,
         LocalInv(c)'
  PROVE  IInv'
<1>1. DOMAIN taskQueue = 1..Len(taskQueue) /\ DOMAIN taskQueue' = 1..Len(taskQueue')
  BY IInvParts DEF TypeOK
<1>2. \A pid : Queued(pid)' <=> Queued(pid)
  BY Zenon, <1>1 DEF Queued, SamePids
<1>3. \A d \in Cores \ {c} : LocalInv(d)'
  BY IInvParts DEF LocalInv, OthersSame
<1>4. \A d \in Cores : Owns(d)' => Owns(d) /\ currentTask'[d].pid = currentTask[d].pid
  BY DEF Owns, Running, OthersSame
<1>5. UniqueTasks'
  <2>1. \A j, k \in DOMAIN taskQueue' : taskQueue'[j].pid = taskQueue'[k].pid => j = k
    BY Zenon, <1>1, IInvParts DEF UniqueTasks, SamePids
  <2>2. QED
    BY Zenon, <1>2, <1>4, <2>1, IInvParts DEF UniqueTasks
<1>6. \A k \in DOMAIN taskQueue' : taskQueue'[k].pid < nextPid'
  BY Zenon, <1>1, IInvParts DEF SamePids
<1>7. QED
  BY Zenon, <1>3, <1>5, <1>6 DEF IInv

(* The boot state, with one task and idle cores, satisfies the invariant.  *)
LEMMA InitIInv == Init => IInv
<1> SUFFICES ASSUME Init PROVE IInv
  BY Zenon
<1> USE SchedulerAssumption
<1>1. Idle \in Task /\ NewTask(1, 0) \in Task
  BY DEF Idle, NewTask, Task, Pids, States
<1>2. Len(taskQueue) = 1 /\ taskQueue[1] = NewTask(1, 0) /\ DOMAIN taskQueue = {1}
  BY DEF Init
<1>3. TypeOK
  BY <1>1 DEF Init, TypeOK, InKernelOfTask
<1>4. NewTask(1, 0).pid = 1 /\ Idle.pid = 0 /\ Idle.state = "Normal"
  BY Zenon DEF Idle, NewTask
<1>5. \A c \in Cores : ~Owns(c) /\ LocalInv(c)
  <2>1. \A c \in Cores : /\ pc[c] = "user" /\ currentTask[c] = Idle
                        /\ ~restoreFrame[c] /\ ~found[c]
    BY Zenon DEF Init
  <2>2. nextPid = 2
    BY Zenon DEF Init
  <2>3. \A c \in Cores : ~Owns(c)
    BY Zenon, <1>4, <2>1 DEF Owns, Running, InKernelOfTask
  <2>4. ASSUME NEW c \in Cores PROVE LocalInv(c)
    <3>1. /\ pc[c] = "user" /\ currentTask[c].pid = 0 /\ currentTask[c].state = "Normal"
          /\ ~restoreFrame[c] /\ ~found[c]
      BY Zenon, <1>4, <2>1
    <3>2. currentTask[c].pid < nextPid
      BY <2>2, <3>1
    <3>3. QED
      BY Zenon, <3>1, <3>2 DEF LocalInv, InKernelOfTask
  <2>5. QED
    BY Zenon, <2>3, <2>4
<1>6. UniqueTasks
  BY <1>2, <1>4, <1>5 DEF UniqueTasks, Queued
<1>7. QED
  BY <1>2, <1>3, <1>4, <1>5, <1>6 DEF IInv, Init

-----------------------------------------------------------------------------
(* Unsuspend changes no pid.                                               *)
LEMMA UnsuspendedProperties ==
  ASSUME TypeOK, UniqueTasks, NEW pid, Queued(pid), NEW value \in Pids
  PROVE  /\ Unsuspended(pid, value) \in Seq(Task)
         /\ SamePids(Unsuspended(pid, value), taskQueue)
<1> DEFINE p == Position(pid)
           t == [taskQueue[p] EXCEPT !.state = "Normal", !.rax = value]
<1>1. p \in 1..Len(taskQueue) /\ taskQueue \in Seq(Task)
  BY Zenon, PositionProperties DEF TypeOK
<1>2. taskQueue[p] \in Task
  BY <1>1
<1>3. t \in Task /\ t.pid = taskQueue[p].pid
  BY Zenon, <1>2 DEF Task, States
<1>4. Unsuspended(pid, value) = [taskQueue EXCEPT ![p] = t]
  BY Zenon DEF Unsuspended
<1> HIDE DEF p, t
<1>5. QED
  BY <1>1, <1>3, <1>4, ExceptSeq DEF SamePids

(* A queue that Unsuspend may have changed.                                *)
LEMMA MaybeUnsuspended ==
  ASSUME IInv, NEW pid, NEW value \in Pids, NEW cond, cond => Queued(pid),
         taskQueue' = IF cond THEN Unsuspended(pid, value) ELSE taskQueue
  PROVE  taskQueue' \in Seq(Task) /\ SamePids(taskQueue', taskQueue)
<1>1. CASE cond
  BY Zenon, <1>1, UnsuspendedProperties, IInvParts
<1>2. CASE ~cond
  BY Zenon, <1>2, IInvParts DEF TypeOK, SamePids
<1>3. QED
  BY Zenon, <1>1, <1>2

(* What the two branches of SuspendSystemCall leave behind.                *)
LEMMA SuspendProperties ==
  ASSUME IInv, NEW c \in Cores, Running(c), NEW state \in States, NEW arg \in Pids,
         NEW kind \in {"sleep", "read", "wait"}, Suspend(c, state, arg, kind)
  PROVE  /\ currentTask' \in [Cores -> Task]
         /\ pc' = [pc EXCEPT ![c] = "save"]
         /\ currentTask'[c].pid = currentTask[c].pid
         /\ \A d \in Cores \ {c} : currentTask'[d] = currentTask[d]
<1>1. currentTask[c].state = "Normal"
  BY Zenon, IInvParts DEF LocalInv, Running
<1>2. currentTask[c] \in Task
  BY Zenon, IInvParts DEF TypeOK
<1> DEFINE t == [currentTask[c] EXCEPT !.state = state, !.suspensionArg = arg,
                                       !.resume = kind, !.home = c]
<1>3. t \in Task /\ t.pid = currentTask[c].pid
  BY Zenon, <1>2 DEF Task
<1>4. currentTask' = [currentTask EXCEPT ![c] = t]
  BY Zenon, <1>1, IInvParts DEF Suspend, TypeOK
<1>5. pc' = [pc EXCEPT ![c] = "save"]
  BY Zenon, <1>1 DEF Suspend, Goto
<1> HIDE DEF t
<1>6. QED
  BY Zenon, <1>3, <1>4, <1>5 DEF IInv, TypeOK

(* A system call that leaves user mode with the task still on its core.    *)
LEMMA LeaveUserKeepsIInv ==
  ASSUME IInv, TypeOK', NEW c \in Cores, Running(c),
         NEW label \in {"save", "reap"} \cup Panics,
         pc' = [pc EXCEPT ![c] = label],
         SamePids(taskQueue', taskQueue),
         UNCHANGED <<restoreFrame, found, i, nextPid>>,
         currentTask'[c].pid = currentTask[c].pid,
         label = "reap" => currentTask'[c].state = currentTask[c].state,
         \A d \in Cores \ {c} : /\ currentTask'[d] = currentTask[d]
                               /\ timerEntries'[d] = timerEntries[d]
  PROVE  IInv'
<1>1. pc'[c] = label /\ label \notin {"user", "timers", "scan"}
  BY Zenon, IInvParts DEF TypeOK, Panics
<1>2. Owns(c)
  BY Zenon DEF Owns
<1>3. restoreFrame[c] /\ ~found[c] /\ currentTask[c].state = "Normal"
  BY Zenon, IInvParts DEF LocalInv, Running
<1>4. LocalInv(c)'
  BY Zenon, <1>1, <1>3, IInvParts DEF LocalInv, InKernelOfTask, Panics
<1>5. QED
  BY Zenon, <1>2, <1>4, LocalStep DEF OthersSame, IInv, TypeOK

-----------------------------------------------------------------------------
(* The steps that move a task between the queue and a core.                *)

(* A step that pushes a task on taskQueue keeps the invariant.             *)
LEMMA PushStep ==
  ASSUME IInv, TypeOK', NEW c \in Cores, NEW t \in Task,
         taskQueue' = Append(taskQueue, t),
         t.pid # 0, ~Queued(t.pid), t.pid < nextPid', nextPid <= nextPid',
         OthersSame(c),
         \A d \in Cores \ {c} : Owns(d) => currentTask[d].pid # t.pid,
         Owns(c)' => /\ Owns(c) /\ currentTask'[c].pid = currentTask[c].pid
                     /\ currentTask[c].pid # t.pid,
         LocalInv(c)'
  PROVE  IInv'
<1>1. /\ taskQueue \in Seq(Task) /\ taskQueue' \in Seq(Task)
      /\ nextPid \in Nat /\ nextPid' \in Nat
      /\ \A d \in Cores : currentTask[d].pid \in Nat
      /\ t.pid \in Nat
  BY DEF IInv, TypeOK, Task, Pids
<1>2. /\ DOMAIN taskQueue = 1..Len(taskQueue) /\ DOMAIN taskQueue' = 1..(Len(taskQueue) + 1)
      /\ \A k \in 1..Len(taskQueue) : taskQueue'[k] = taskQueue[k]
      /\ taskQueue'[Len(taskQueue) + 1] = t
  BY <1>1
<1>3. \A pid : Queued(pid)' <=> Queued(pid) \/ pid = t.pid
  BY <1>1, <1>2 DEF Queued
<1>4. \A d \in Cores \ {c} : LocalInv(d)'
  BY <1>1, SMTT(30), IInvParts DEF LocalInv, OthersSame
<1>5. \A d \in Cores : Owns(d)' => /\ Owns(d) /\ currentTask'[d].pid = currentTask[d].pid
                                   /\ currentTask[d].pid # t.pid
  BY DEF Owns, Running, OthersSame
<1>6. UniqueTasks'
  <2>1. \A j, k \in DOMAIN taskQueue' : taskQueue'[j].pid = taskQueue'[k].pid => j = k
    BY <1>1, <1>2, IInvParts DEF UniqueTasks, Queued
  <2>2. QED
    BY <1>3, <1>5, <2>1, IInvParts DEF UniqueTasks
<1>7. \A k \in DOMAIN taskQueue' : taskQueue'[k].pid < nextPid'
  <2>1. \A k \in DOMAIN taskQueue : taskQueue[k].pid \in Nat
    <3>1. \A k \in DOMAIN taskQueue : taskQueue[k] \in Task
      BY SMTT(30), IInvParts DEF TypeOK
    <3>2. \A u \in Task : u.pid \in Nat
      BY DEF Task, Pids
    <3>3. QED
      BY Zenon, <3>1, <3>2
  <2>2. \A k \in DOMAIN taskQueue : taskQueue[k].pid < nextPid
    BY Zenon, IInvParts
  <2>3. ASSUME NEW k \in 1..Len(taskQueue) PROVE taskQueue'[k].pid < nextPid'
    <3>1. taskQueue'[k].pid = taskQueue[k].pid /\ taskQueue[k].pid \in Nat
      BY Zenon, <1>2, <2>1
    <3>2. taskQueue[k].pid < nextPid
      BY Zenon, <1>2, <2>2
    <3>3. QED
      BY <1>1, <3>1, <3>2
  <2>4. taskQueue'[Len(taskQueue) + 1].pid < nextPid'
    BY Zenon, <1>2
  <2>5. QED
    BY <1>1, <1>2, <2>3, <2>4
<1>8. QED
  BY Zenon, <1>4, <1>6, <1>7 DEF IInv

(* A step that pops a task from taskQueue keeps the invariant.             *)
LEMMA RemoveStep ==
  ASSUME IInv, TypeOK', NEW c \in Cores, NEW k \in 1..Len(taskQueue),
         taskQueue' = Pop(taskQueue, k),
         nextPid' = nextPid,
         OthersSame(c),
         Owns(c)' => \/ Owns(c) /\ currentTask'[c].pid = currentTask[c].pid
                     \/ currentTask'[c].pid = taskQueue[k].pid,
         LocalInv(c)'
  PROVE  IInv'
<1>1. /\ taskQueue \in Seq(Task) /\ Len(taskQueue) \in Nat
      /\ Len(taskQueue') = Len(taskQueue) - 1
      /\ \A j \in 1..(Len(taskQueue) - 1) :
           taskQueue'[j] = IF j < k THEN taskQueue[j] ELSE taskQueue[j + 1]
  <2>1. taskQueue \in Seq(Task)
    BY Zenon, IInvParts DEF TypeOK
  <2>2. Len(taskQueue) \in Nat
    BY <2>1
  <2>3. QED
    BY Zenon, <2>1, <2>2, PopProperties
<1>2. /\ DOMAIN taskQueue = 1..Len(taskQueue)
      /\ DOMAIN taskQueue' = 1..(Len(taskQueue) - 1)
  BY <1>1, SMTT(30) DEF TypeOK
<1>3. \A j \in DOMAIN taskQueue' :
        \E m \in DOMAIN taskQueue : m # k /\ taskQueue'[j] = taskQueue[m]
  BY <1>1, PopIndices
<1>4. \A pid : Queued(pid)' => Queued(pid) /\ pid # taskQueue[k].pid
  BY <1>2, <1>3, IInvParts DEF Queued, UniqueTasks
<1>5. \A d \in Cores \ {c} : LocalInv(d)'
  BY IInvParts DEF LocalInv, OthersSame
<1>6. \A d \in Cores \ {c} : Owns(d)' => Owns(d) /\ currentTask'[d].pid = currentTask[d].pid
  BY Zenon DEF Owns, Running, OthersSame
<1>7. Queued(taskQueue[k].pid)
  BY Zenon, <1>2 DEF Queued
<1>8. UniqueTasks'
  <2>1. \A j, m \in DOMAIN taskQueue' : taskQueue'[j].pid = taskQueue'[m].pid => j = m
    <3> DEFINE e(j) == IF j < k THEN j ELSE j + 1
    <3>1. \A j \in DOMAIN taskQueue' : e(j) \in DOMAIN taskQueue /\ taskQueue'[j] = taskQueue[e(j)]
      BY <1>1, <1>2
    <3>2. \A j, m \in DOMAIN taskQueue' : e(j) = e(m) => j = m
      BY <1>1, <1>2
    <3> HIDE DEF e
    <3>3. QED
      BY <3>1, <3>2, IInvParts DEF UniqueTasks
  <2>2. QED
    BY <1>4, <1>6, <1>7, <2>1, IInvParts DEF UniqueTasks
<1>9. \A j \in DOMAIN taskQueue' : taskQueue'[j].pid < nextPid'
  BY Zenon, <1>3, IInvParts
<1>10. QED
  BY Zenon, <1>5, <1>8, <1>9 DEF IInv

-----------------------------------------------------------------------------
(* The invariant that wake-ups need besides.                                *)

(* The tasks in the queue, those that core c finds there or owns, and all  *)
(* tasks.  The copy that a core keeps of a task it has put back is none.   *)
Waiting == {taskQueue[k] : k \in DOMAIN taskQueue}
At(c) == Waiting \cup {t \in {currentTask[c]} : Owns(c)}
Live == UNION {At(c) : c \in Cores}

ChildrenOf(t) == {t.childrenPids[j] : j \in DOMAIN t.childrenPids}
BlockedIn(t, kind) == t.state = "Blocked" /\ t.resume = kind
HasTimer(c, pid) == \E k \in DOMAIN timerEntries[c] : timerEntries[c][k].pid = pid

(* childrenPids and the pid that a wake-up leaves in rax name children of  *)
(* the task, if they name anyone, and never the first task.                *)
Families ==
  /\ \A t \in Live : ChildrenOf(t) \subseteq 2..(nextPid - 1) /\ t.rax < nextPid
  /\ \A t, u \in Live : u.pid \in ChildrenOf(t) \/ u.pid = t.rax => u.parentPid = t.pid

(* Between the two locked regions of WaitForChild the zombie stays.        *)
Reaping ==
  \A c \in Cores : pc[c] = "reap" =>
    \E z \in Waiting : z.pid = currentTask[c].rax /\ z.state = "Terminated"

(* Timer entries are for distinct sleepers, and every sleeper has one.     *)
Timers ==
  /\ \A c \in Cores : \A k \in DOMAIN timerEntries[c] :
       \E t \in At(c) : t.pid = timerEntries[c][k].pid /\ BlockedIn(t, "sleep")
  /\ \A c, d \in Cores : \A j \in DOMAIN timerEntries[c], k \in DOMAIN timerEntries[d] :
       timerEntries[c][j].pid = timerEntries[d][k].pid => c = d /\ j = k
  /\ \A t \in Waiting : BlockedIn(t, "sleep") => \E c \in Cores : HasTimer(c, t.pid)
  /\ \A c \in Cores : Owns(c) /\ BlockedIn(currentTask[c], "sleep")
                        => HasTimer(c, currentTask[c].pid)

(* The terminal remembers distinct tasks that are blocked in a read.       *)
Readers ==
  /\ \A k \in DOMAIN unblockQueue :
       \E t \in Live : t.pid = unblockQueue[k] /\ BlockedIn(t, "read")
  /\ \A j, k \in DOMAIN unblockQueue : unblockQueue[j] = unblockQueue[k] => j = k

(* A task in WaitForChild waits for no child that has exited, be it in the *)
(* queue or still on its core.                                             *)
Waits ==
  \A t, u \in Live :
    t.state = "WaitingForChild" /\ u.state = "Terminated" /\ u.pid \in ChildrenOf(t)
      => t.suspensionArg \notin {0, u.pid}

WInv == IInv /\ Families /\ Reaping /\ Timers /\ Readers /\ Waits

(* The parts of the second invariant, likewise.                            *)
LEMMA WInvParts ==
  WInv => IInv /\ Families /\ Reaping /\ Timers /\ Readers /\ Waits
BY Zenon DEF WInv

-----------------------------------------------------------------------------
(* The queue as a set: what the vector operations do to it.                *)

(* GetTask returns the one queued task with the pid.                       *)
LEMMA GetTaskProperties ==
  ASSUME IInv, NEW pid
  PROVE  /\ Queued(pid) <=> \E t \in Waiting : t.pid = pid
         /\ Queued(pid) => /\ GetTask(pid) \in Waiting /\ GetTask(pid).pid = pid
                           /\ \A t \in Waiting : t.pid = pid => t = GetTask(pid)
<1>1. Queued(pid) <=> \E t \in Waiting : t.pid = pid
  BY Zenon DEF Queued, Waiting
<1>2. DOMAIN taskQueue = 1..Len(taskQueue)
  BY IInvParts DEF TypeOK
<1>3. ASSUME Queued(pid)
      PROVE  /\ GetTask(pid) \in Waiting /\ GetTask(pid).pid = pid
             /\ \A t \in Waiting : t.pid = pid => t = GetTask(pid)
  <2>1. Position(pid) \in DOMAIN taskQueue /\ taskQueue[Position(pid)].pid = pid
    BY Zenon, <1>2, <1>3, PositionProperties, IInvParts
  <2>2. QED
    BY Zenon, <2>1, IInvParts DEF GetTask, Waiting, UniqueTasks
<1>4. QED
  BY Zenon, <1>1, <1>3

(* Queued and owned tasks are well formed, and a pid has one of them.      *)
LEMMA LiveProperties ==
  ASSUME IInv
  PROVE  /\ Waiting \subseteq Live
         /\ \A c \in Cores : Owns(c) => currentTask[c] \in Live
         /\ \A t \in Live : t \in Waiting \/ \E c \in Cores : Owns(c) /\ t = currentTask[c]
         /\ \A t \in Live : t \in Task /\ t.pid # 0 /\ t.pid < nextPid
         /\ \A t, u \in Live : t.pid = u.pid => t = u
         /\ \A c \in Cores : Owns(c) => \A t \in Waiting : t.pid # currentTask[c].pid
<1>1. /\ Waiting \subseteq Live
      /\ \A c \in Cores : Owns(c) => currentTask[c] \in Live
      /\ \A t \in Live : t \in Waiting \/ \E c \in Cores : Owns(c) /\ t = currentTask[c]
  BY SchedulerAssumption DEF Live, At
<1>2. \A t \in Waiting : t \in Task /\ t.pid < nextPid /\ Queued(t.pid)
  <2>1. \A k \in DOMAIN taskQueue : taskQueue[k] \in Task
    BY IInvParts DEF TypeOK
  <2>2. QED
    BY Zenon, <2>1, IInvParts DEF Waiting, Queued
<1>3. \A t \in Live : t \in Task /\ t.pid # 0 /\ t.pid < nextPid
  <2>1. \A t \in Waiting : t.pid # 0
    BY Zenon, <1>2, IInvParts DEF UniqueTasks
  <2>2. \A c \in Cores : Owns(c) => /\ currentTask[c] \in Task /\ currentTask[c].pid # 0
                                    /\ currentTask[c].pid < nextPid
    BY Zenon, IInvParts DEF TypeOK, UniqueTasks, LocalInv
  <2>3. QED
    BY <1>1, <1>2, <2>1, <2>2
<1>4. \A t, u \in Waiting : t.pid = u.pid => t = u
  BY Zenon, IInvParts DEF UniqueTasks, Waiting
<1>5. \A c \in Cores : Owns(c) => \A t \in Waiting : t.pid # currentTask[c].pid
  BY Zenon, <1>2, IInvParts DEF UniqueTasks
<1>6. \A t, u \in Live : t.pid = u.pid => t = u
  BY <1>1, <1>4, <1>5, IInvParts DEF UniqueTasks
<1>7. QED
  BY Zenon, <1>1, <1>3, <1>5, <1>6

(* Vector::Push adds its argument.                                         *)
LEMMA WaitingPush ==
  ASSUME IInv, NEW t \in Task, taskQueue' = Append(taskQueue, t)
  PROVE  Waiting' = Waiting \cup {t}
<1>1. taskQueue \in Seq(Task)
  BY Zenon, IInvParts DEF TypeOK
<1>2. /\ DOMAIN taskQueue = 1..Len(taskQueue) /\ DOMAIN taskQueue' = 1..(Len(taskQueue) + 1)
      /\ \A k \in 1..Len(taskQueue) : taskQueue'[k] = taskQueue[k]
      /\ taskQueue'[Len(taskQueue) + 1] = t
      /\ Len(taskQueue) \in Nat
  BY <1>1
<1>3. \A k \in DOMAIN taskQueue' : k \in DOMAIN taskQueue \/ k = Len(taskQueue) + 1
  BY <1>2
<1>4. DOMAIN taskQueue \subseteq DOMAIN taskQueue' /\ Len(taskQueue) + 1 \in DOMAIN taskQueue'
  BY <1>2
<1>5. QED
  BY Zenon, <1>2, <1>3, <1>4 DEF Waiting

(* Vector::Pop removes the task at the index and no other.                 *)
LEMMA WaitingPop ==
  ASSUME IInv, NEW k \in 1..Len(taskQueue), taskQueue' = Pop(taskQueue, k)
  PROVE  Waiting' = Waiting \ {taskQueue[k]} /\ taskQueue[k] \in Waiting
<1>1. taskQueue \in Seq(Task) /\ Len(taskQueue) \in Nat
  BY IInvParts DEF TypeOK
<1>2. DOMAIN taskQueue = 1..Len(taskQueue)
  BY <1>1
<1>3. /\ DOMAIN taskQueue' = 1..(Len(taskQueue) - 1)
      /\ \A j \in 1..(Len(taskQueue) - 1) :
           taskQueue'[j] = IF j < k THEN taskQueue[j] ELSE taskQueue[j + 1]
  BY Zenon, <1>1 DEF Pop
<1>4. \A j \in DOMAIN taskQueue' : \E m \in DOMAIN taskQueue : m # k /\ taskQueue'[j] = taskQueue[m]
  BY <1>1, PopIndices
<1>5. ASSUME NEW m \in DOMAIN taskQueue, m # k
      PROVE  \E j \in DOMAIN taskQueue' : taskQueue'[j] = taskQueue[m]
  <2>1. CASE m < k
    BY <1>1, <1>2, <1>3, <2>1
  <2>2. CASE m > k
    <3>1. m - 1 \in 1..(Len(taskQueue) - 1) /\ ~(m - 1 < k) /\ (m - 1) + 1 = m
      BY <1>1, <1>2, <2>2
    <3>2. QED
      BY Zenon, <1>3, <3>1
  <2>3. QED
    BY <1>1, <1>2, <1>5, <2>1, <2>2
<1>6. \A m \in DOMAIN taskQueue : taskQueue[m] = taskQueue[k] => m = k
  BY Zenon, <1>2, IInvParts DEF UniqueTasks
<1>7. QED
  BY <1>2, <1>4, <1>5, <1>6 DEF Waiting

(* Unsuspend replaces the task by a Normal one with the same family.       *)
LEMMA WaitingUnsuspended ==
  ASSUME IInv, NEW pid, Queued(pid), NEW value \in Pids,
         taskQueue' = Unsuspended(pid, value)
  PROVE  \E w \in Task :
           /\ Waiting' = (Waiting \ {GetTask(pid)}) \cup {w}
           /\ w.state = "Normal" /\ w.rax = value /\ w.pid = pid
           /\ w.parentPid = GetTask(pid).parentPid
           /\ w.childrenPids = GetTask(pid).childrenPids
           /\ w.resume = GetTask(pid).resume
           /\ w.suspensionArg = GetTask(pid).suspensionArg
<1> DEFINE p == Position(pid)
           w == [taskQueue[p] EXCEPT !.state = "Normal", !.rax = value]
<1>1. taskQueue \in Seq(Task) /\ DOMAIN taskQueue = 1..Len(taskQueue)
  BY IInvParts DEF TypeOK
<1>2. p \in DOMAIN taskQueue /\ taskQueue[p].pid = pid
  BY Zenon, <1>1, PositionProperties, IInvParts
<1>3. taskQueue[p] \in Task
  BY <1>1, <1>2
<1>4. /\ w \in Task /\ w.state = "Normal" /\ w.rax = value /\ w.pid = pid
      /\ w.parentPid = taskQueue[p].parentPid /\ w.childrenPids = taskQueue[p].childrenPids
      /\ w.resume = taskQueue[p].resume /\ w.suspensionArg = taskQueue[p].suspensionArg
  BY Zenon, <1>2, <1>3 DEF Task, States
<1>5. taskQueue' = [taskQueue EXCEPT ![p] = w]
  BY Zenon DEF Unsuspended
<1> HIDE DEF p, w
<1>6. /\ DOMAIN taskQueue' = DOMAIN taskQueue /\ taskQueue'[p] = w
      /\ \A k \in DOMAIN taskQueue : k # p => taskQueue'[k] = taskQueue[k]
  BY Zenon, <1>1, <1>2, <1>5
<1>7. \A k \in DOMAIN taskQueue : taskQueue[k] = taskQueue[p] => k = p
  BY Zenon, <1>2, IInvParts DEF UniqueTasks
<1>8. Waiting' = (Waiting \ {taskQueue[p]}) \cup {w}
  BY <1>2, <1>6, <1>7 DEF Waiting
<1>9. GetTask(pid) = taskQueue[p]
  BY Zenon DEF GetTask, p
<1>10. QED
  BY Zenon, <1>4, <1>8, <1>9

-----------------------------------------------------------------------------
(* What a step must leave alone for each part of the invariant.            *)

Same(s, t) == s.pid = t.pid /\ s.state = t.state /\ s.resume = t.resume

(* No task blocks in a call of this kind, and those that do stay where     *)
(* they are or go from their core to the queue.                            *)
BlockedStay(kind) ==
  /\ \A d \in Cores : \A t \in At(d) : BlockedIn(t, kind) => \E s \in At(d)' : Same(s, t)
  /\ \A s \in Waiting' : BlockedIn(s, kind) => \E t \in Live : Same(s, t)
  /\ \A d \in Cores : Owns(d)' /\ BlockedIn(currentTask'[d], kind)
                        => Owns(d) /\ Same(currentTask'[d], currentTask[d])

SameTimers ==
  \A d \in Cores : /\ DOMAIN timerEntries'[d] = DOMAIN timerEntries[d]
                   /\ \A k \in DOMAIN timerEntries[d] :
                        timerEntries'[d][k].pid = timerEntries[d][k].pid

(* A step that changes neither sleepers nor timers.                        *)
LEMMA TimersKept ==
  ASSUME IInv, Timers, BlockedStay("sleep"), SameTimers
  PROVE  Timers'
<1>1. \A d \in Cores : \A pid : HasTimer(d, pid)' <=> HasTimer(d, pid)
  BY Zenon DEF HasTimer, SameTimers
<1>2. \A d \in Cores : \A k \in DOMAIN timerEntries'[d] :
        (\E t \in At(d) : t.pid = timerEntries[d][k].pid /\ BlockedIn(t, "sleep"))'
  BY DEF Timers, BlockedStay, SameTimers, BlockedIn, Same
<1>3. (\A c, d \in Cores : \A j \in DOMAIN timerEntries[c], k \in DOMAIN timerEntries[d] :
        timerEntries[c][j].pid = timerEntries[d][k].pid => c = d /\ j = k)'
  BY DEF Timers, SameTimers
<1>4. \A s \in Waiting' : BlockedIn(s, "sleep") => \E d \in Cores : HasTimer(d, s.pid)'
  <2>1. \A t \in Live : BlockedIn(t, "sleep") => \E d \in Cores : HasTimer(d, t.pid)
    BY LiveProperties DEF Timers
  <2>2. QED
    BY <1>1, <2>1 DEF BlockedStay, BlockedIn, Same
<1>5. (\A d \in Cores : Owns(d) /\ BlockedIn(currentTask[d], "sleep")
                         => HasTimer(d, currentTask[d].pid))'
  <2> SUFFICES ASSUME NEW d \in Cores, Owns(d)', BlockedIn(currentTask[d], "sleep")'
               PROVE  HasTimer(d, currentTask[d].pid)'
    BY Zenon
  <2>1. Owns(d) /\ Same(currentTask'[d], currentTask[d])
    BY Zenon DEF BlockedStay, BlockedIn
  <2>2. HasTimer(d, currentTask[d].pid)
    BY Zenon, <2>1 DEF Timers, BlockedIn, Same
  <2>3. QED
    BY Zenon, <2>1, <2>2 DEF HasTimer, SameTimers, Same
<1>6. QED
  BY Zenon, <1>2, <1>3, <1>4, <1>5 DEF Timers

(* A step that changes neither readers nor unblockQueue.                   *)
LEMMA ReadersKept ==
  ASSUME Readers, BlockedStay("read"), unblockQueue' = unblockQueue
  PROVE  Readers'
<1>1. \A t \in Live : BlockedIn(t, "read") => \E s \in Live' : Same(s, t)
  BY Zenon DEF Live, BlockedStay
<1>2. QED
  BY <1>1 DEF Readers, BlockedIn, Same

(* A step in which no task exits and none begins to wait.                  *)
LEMMA WaitsKept ==
  ASSUME Waits,
         \A s \in Live' : s.state = "WaitingForChild" =>
           \E t \in Live : /\ t.state = s.state /\ t.suspensionArg = s.suspensionArg
                           /\ ChildrenOf(s) \subseteq ChildrenOf(t),
         \A s \in Live' : s.state = "Terminated" =>
           \E t \in Live : t.state = s.state /\ t.pid = s.pid
  PROVE  Waits'
BY DEF Waits, ChildrenOf

(* A step in which no core begins to reap and every zombie stays.          *)
LEMMA ReapingKept ==
  ASSUME Reaping,
         \A d \in Cores : pc'[d] = "reap" =>
           pc[d] = "reap" /\ currentTask'[d].rax = currentTask[d].rax,
         \A z \in Waiting : z.state = "Terminated" => z \in Waiting'
  PROVE  Reaping'
BY Zenon DEF Reaping

(* A step after which every task is one that existed, with no new child,   *)
(* and has in rax no pid but that of a child.                              *)
LEMMA FamiliesKept ==
  ASSUME IInv, Families, nextPid' = nextPid,
         \A s \in Live' :
           /\ \E t \in Live : /\ t.pid = s.pid /\ t.parentPid = s.parentPid
                              /\ ChildrenOf(s) \subseteq ChildrenOf(t)
           /\ s.rax < nextPid
           /\ \A u \in Live : u.pid = s.rax => u.parentPid = s.pid
  PROVE  Families'
<1>1. \A s \in Live' : ChildrenOf(s) \subseteq 2..(nextPid - 1) /\ s.rax < nextPid
  BY Zenon DEF Families
<1>2. ASSUME NEW s \in Live', NEW v \in Live', v.pid \in ChildrenOf(s) \/ v.pid = s.rax
      PROVE  v.parentPid = s.pid
  <2>1. PICK t \in Live : t.pid = s.pid /\ ChildrenOf(s) \subseteq ChildrenOf(t)
    BY Zenon
  <2>2. PICK u \in Live : u.pid = v.pid /\ u.parentPid = v.parentPid
    BY Zenon
  <2>3. CASE v.pid \in ChildrenOf(s)
    BY Zenon, <2>1, <2>2, <2>3 DEF Families
  <2>4. CASE v.pid = s.rax
    BY <2>2, <2>4
  <2>5. QED
    BY Zenon, <1>2, <2>3, <2>4
<1>3. QED
  BY Zenon, <1>1, <1>2 DEF Families, ChildrenOf

-----------------------------------------------------------------------------
(* SwitchToNextTask moves tasks and changes none.                          *)

OthersStay(c) ==
  \A d \in Cores \ {c} :
    (Owns(d)' <=> Owns(d)) /\ currentTask'[d] = currentTask[d] /\ pc'[d] = pc[d]

(* A step of core c that moves its task or takes a Normal one: the other   *)
(* tasks stay, and of its own it can lose none but a Normal one.           *)
LEMMA MoveStep ==
  ASSUME WInv, IInv', NEW c \in Cores, OthersStay(c), SameTimers,
         nextPid' = nextPid,
         pc'[c] # "reap",
         Waiting' \subseteq At(c),
         \A t \in At(c) : t.state # "Normal" => t \in At(c)',
         \A t \in Waiting : t.state # "Normal" => t \in Waiting',
         Owns(c)' => /\ currentTask'[c] \in At(c)
                     /\ currentTask'[c].state # "Normal" =>
                          Owns(c) /\ currentTask'[c] = currentTask[c]
  PROVE  /\ Families' /\ Reaping' /\ Timers' /\ Waits' /\ BlockedStay("read")
         /\ unblockQueue' = unblockQueue => WInv'
<1>1. Live' \subseteq Live
  <2>1. \A s \in Live' : s \in Waiting' \/ \E d \in Cores : Owns(d)' /\ s = currentTask'[d]
    BY Zenon DEF Live, At
  <2>2. At(c) \subseteq Live /\ \A d \in Cores : Owns(d) => currentTask[d] \in Live
    BY Zenon, LiveProperties, WInvParts DEF Live
  <2>3. QED
    BY <2>1, <2>2 DEF OthersStay
<1>2. ASSUME NEW kind PROVE BlockedStay(kind)
  <2>1. \A d \in Cores : \A t \in At(d) : t.state = "Blocked" => t \in At(d)'
    BY Zenon DEF At, OthersStay
  <2>2. \A s \in Waiting' : s \in Live
    BY Zenon DEF Live
  <2>3. \A d \in Cores : Owns(d)' /\ currentTask'[d].state = "Blocked"
                           => Owns(d) /\ currentTask'[d] = currentTask[d]
    BY Zenon DEF OthersStay
  <2>4. QED
    BY Zenon, <2>1, <2>2, <2>3 DEF BlockedStay, BlockedIn, Same
<1>3. Timers'
  BY Zenon, <1>2, TimersKept, WInvParts
<1>4. Waits'
  BY Zenon, <1>1, WaitsKept, WInvParts
<1>5. Reaping'
  <2>1. \A d \in Cores : pc'[d] = "reap" => pc[d] = "reap" /\ currentTask'[d] = currentTask[d]
    BY Zenon DEF OthersStay
  <2>2. QED
    BY Zenon, <2>1, ReapingKept, WInvParts
<1>6. Families'
  BY Zenon, <1>1, FamiliesKept, WInvParts DEF Families
<1>7. unblockQueue' = unblockQueue => Readers'
  BY Zenon, <1>2, ReadersKept, WInvParts
<1>8. QED
  BY Zenon, <1>2, <1>3, <1>4, <1>5, <1>6, <1>7 DEF WInv

(* A step of core c inside SwitchToNextTask that moves no task.            *)
LEMMA StillStep ==
  ASSUME WInv, IInv', NEW c \in Cores, OthersStay(c), SameTimers,
         UNCHANGED <<taskQueue, unblockQueue, nextPid>>,
         pc'[c] # "reap",
         Owns(c)' <=> Owns(c),
         Owns(c) => currentTask'[c] = currentTask[c]
  PROVE  WInv'
<1>1. Waiting' = Waiting /\ At(c)' = At(c)
  BY Zenon DEF Waiting, At
<1>2. QED
  BY Zenon, <1>1, MoveStep DEF At

(* SuspendSystemCall keeps the task on its core, suspended as it says.     *)
LEMMA SuspendTask ==
  ASSUME IInv, NEW c \in Cores, Running(c), NEW state \in States, NEW arg \in Pids,
         NEW kind \in {"sleep", "read", "wait"}, Suspend(c, state, arg, kind),
         UNCHANGED <<taskQueue, restoreFrame, found>>
  PROVE  /\ OthersStay(c) /\ Waiting' = Waiting
         /\ Owns(c) /\ Owns(c)' /\ pc'[c] = "save" /\ currentTask[c].state = "Normal"
         /\ LET s == currentTask'[c]
                t == currentTask[c] IN
              /\ s.pid = t.pid /\ s.parentPid = t.parentPid
              /\ s.childrenPids = t.childrenPids /\ s.rax = t.rax
              /\ s.state = state /\ s.suspensionArg = arg /\ s.resume = kind
<1> DEFINE t == [currentTask[c] EXCEPT !.state = state, !.suspensionArg = arg,
                                       !.resume = kind, !.home = c]
<1>1. currentTask[c].state = "Normal" /\ restoreFrame[c] /\ Owns(c)
  BY Zenon, IInvParts DEF LocalInv, Running, Owns
<1>2. currentTask[c] \in Task
  BY Zenon, IInvParts DEF TypeOK
<1>3. /\ t.pid = currentTask[c].pid /\ t.parentPid = currentTask[c].parentPid
      /\ t.childrenPids = currentTask[c].childrenPids /\ t.rax = currentTask[c].rax
      /\ t.state = state /\ t.suspensionArg = arg /\ t.resume = kind
  BY Zenon, <1>2 DEF Task
<1>4. currentTask' = [currentTask EXCEPT ![c] = t]
  BY Zenon, <1>1, IInvParts DEF Suspend, TypeOK
<1>5. pc' = [pc EXCEPT ![c] = "save"]
  BY Zenon, <1>1 DEF Suspend, Goto
<1> HIDE DEF t
<1>6. /\ currentTask'[c] = t /\ pc'[c] = "save"
      /\ \A d \in Cores \ {c} : currentTask'[d] = currentTask[d] /\ pc'[d] = pc[d]
  BY Zenon, <1>4, <1>5, IInvParts DEF TypeOK
<1>7. OthersStay(c)
  BY Zenon, <1>6 DEF OthersStay, Owns, Running
<1>8. Owns(c)' /\ Waiting' = Waiting
  BY <1>1, <1>6 DEF Owns, Waiting
<1>9. QED
  BY Zenon, <1>1, <1>3, <1>6, <1>7, <1>8

(* The task of an expired timer is in the queue, asleep.                   *)
LEMMA ExpiredTaskIsAsleep ==
  ASSUME WInv, NEW c \in Cores, TimerExpires(c)
  PROVE  LET pid == timerEntries[c][i[c]].pid IN
           /\ Queued(pid) /\ CanUnsuspend(pid)
           /\ GetTask(pid) \in Waiting /\ GetTask(pid).pid = pid
           /\ BlockedIn(GetTask(pid), "sleep")
<1> DEFINE k == i[c]
           e == timerEntries[c]
           pid == e[k].pid
           g == GetTask(pid)
<1>1. IInv
  BY Zenon, WInvParts
<1>2. pc[c] = "timers" /\ e \in Seq(TimerEntry) /\ k \in 1..Len(e) /\ DOMAIN e = 1..Len(e)
  BY <1>1, IInvParts DEF TimerExpires, TypeOK, LocalInv
<1>3. ~Owns(c)
  BY Zenon, <1>2 DEF Owns, Running, InKernelOfTask
<1>4. Queued(pid) /\ g \in Waiting /\ g.pid = pid /\ BlockedIn(g, "sleep")
  <2>1. PICK t \in At(c) : t.pid = pid /\ BlockedIn(t, "sleep")
    BY Zenon, <1>2, WInvParts DEF Timers
  <2>2. t \in Waiting
    BY Zenon, <1>3 DEF At
  <2>3. QED
    BY Zenon, <1>1, <2>1, <2>2, GetTaskProperties
<1>5. CanUnsuspend(pid)
  BY Zenon, <1>4 DEF CanUnsuspend, BlockedIn
<1>6. QED
  BY Zenon, <1>4, <1>5

-----------------------------------------------------------------------------
(* The steps of SwitchToNextTask and of the interrupt handlers.            *)


(* A timer interrupt enters SwitchToNextTask.                              *)
LEMMA TimerInterruptKeepsIInv ==
  ASSUME IInv, NEW c \in Cores, TimerInterrupt(c)
  PROVE  IInv'
<1>1. TypeOK'
  BY Zenon, IInvParts DEF TypeOK, TimerInterrupt, Goto, locals
<1>2. SamePids(taskQueue', taskQueue)
  BY Zenon, IInvParts DEF TypeOK, TimerInterrupt, SamePids
<1>3. Owns(c)' => Owns(c)
  BY Zenon, IInvParts DEF TypeOK, LocalInv, TimerInterrupt, Goto, locals, Owns, Running, InKernelOfTask
<1>4. LocalInv(c)'
  BY Zenon, IInvParts DEF TypeOK, LocalInv, TimerInterrupt, Goto, locals, InKernelOfTask
<1>5. QED
  BY Zenon, <1>1, <1>2, <1>3, <1>4, LocalStep DEF OthersSame, TimerInterrupt, Goto, locals, IInv, TypeOK

(* The else branch of the loop in UpdateTimerEntries keeps the entry.      *)
LEMMA EntryRuns ==
  ASSUME NEW s \in Seq(TimerEntry), NEW k \in 1..Len(s), NEW d \in Nat,
         s[k].milliseconds > d
  PROVE  Charge(s, k, d) \in Seq(TimerEntry) /\ Len(Charge(s, k, d)) = Len(s)
<1> DEFINE e == [s[k] EXCEPT !.milliseconds = s[k].milliseconds - d]
<1>1. s[k] \in TimerEntry
  OBVIOUS
<1>2. s[k].milliseconds - d \in Nat \ {0}
  BY <1>1 DEF TimerEntry
<1>3. e \in TimerEntry
  BY Zenon, <1>1, <1>2 DEF TimerEntry
<1>4. Charge(s, k, d) = [s EXCEPT ![k] = e]
  BY Zenon DEF Charge
<1> HIDE DEF e
<1>5. QED
  BY <1>3, <1>4, ExceptSeq

(* UpdateTimerEntries charges an entry that does not expire.               *)
LEMMA TimerRunsKeepsIInv ==
  ASSUME IInv, NEW c \in Cores, TimerRuns(c)
  PROVE  IInv'
<1>1. /\ timerEntries[c] \in Seq(TimerEntry)
      /\ delta[c] \in Nat /\ i[c] \in Nat \ {0}
      /\ i[c] <= Len(timerEntries[c])
  BY SchedulerAssumption, IInvParts DEF TypeOK, LocalInv, TimerRuns
<1> DEFINE r == Charge(timerEntries[c], i[c], delta[c])
<1>2. r \in Seq(TimerEntry) /\ Len(r) = Len(timerEntries[c])
  <2>1. i[c] \in 1..Len(timerEntries[c])
    BY <1>1
  <2>2. timerEntries[c][i[c]].milliseconds > delta[c]
    BY Zenon DEF TimerRuns
  <2>3. QED
    BY Zenon, <1>1, <2>1, <2>2, EntryRuns
<1>3. timerEntries' = [timerEntries EXCEPT ![c] = r]
  BY Zenon DEF TimerRuns
<1> HIDE DEF r
<1>4. /\ timerEntries' \in [Cores -> Seq(TimerEntry)]
      /\ Len(timerEntries'[c]) = Len(timerEntries[c])
      /\ \A d \in Cores \ {c} : timerEntries'[d] = timerEntries[d]
  BY Zenon, <1>2, <1>3, IInvParts DEF TypeOK
<1>5. i' = [i EXCEPT ![c] = i[c] - 1] /\ i' \in [Cores -> Nat]
  BY SMTT(30), <1>1, IInvParts DEF TypeOK, TimerRuns
<1>6. TypeOK'
  BY Zenon, <1>4, <1>5, SMTT(30), IInvParts DEF TypeOK, TimerRuns
<1>7. SamePids(taskQueue', taskQueue)
  BY Zenon, IInvParts DEF TypeOK, TimerRuns, SamePids
<1>8. Owns(c)' => Owns(c)
  BY Zenon DEF TimerRuns, Owns, Running
<1>9. i'[c] <= Len(timerEntries'[c])
  BY <1>1, <1>4, <1>5, IInvParts DEF TypeOK
<1>10. LocalInv(c)'
  BY Zenon, <1>9, IInvParts DEF LocalInv, TimerRuns
<1>11. QED
  BY Zenon, <1>4, <1>5, <1>6, <1>7, <1>8, <1>10, LocalStep DEF OthersSame, TimerRuns, IInv, TypeOK

(* UpdateTimerEntries wakes the sleeper of an expired entry.               *)
LEMMA TimerExpiresKeepsIInv ==
  ASSUME IInv, NEW c \in Cores, TimerExpires(c)
  PROVE  IInv'
<1> DEFINE pid == timerEntries[c][i[c]].pid
           ok == CanUnsuspend(pid)
<1>1. /\ timerEntries[c] \in Seq(TimerEntry)
      /\ i[c] \in Nat \ {0}
      /\ i[c] <= Len(timerEntries[c])
  BY IInvParts DEF TypeOK, LocalInv, TimerExpires
<1>2. taskQueue' \in Seq(Task) /\ SamePids(taskQueue', taskQueue)
  <2>1. ok => Queued(pid)
    BY Zenon DEF CanUnsuspend
  <2>2. 0 \in Pids
    BY SchedulerAssumption DEF Pids
  <2>3. taskQueue' = IF ok THEN Unsuspended(pid, 0) ELSE taskQueue
    BY Zenon DEF TimerExpires
  <2> HIDE DEF ok, pid
  <2>4. QED
    BY Zenon, <2>1, <2>2, <2>3, MaybeUnsuspended
<1>3. pc' = [pc EXCEPT ![c] = IF ok THEN "timers" ELSE "panicTimer"]
      /\ taskQueueLock' \in Cores \cup {None}
  BY Zenon DEF TimerExpires, Locked, Goto
<1> DEFINE r == Pop(timerEntries[c], i[c])
<1>4. r \in Seq(TimerEntry) /\ Len(r) = Len(timerEntries[c]) - 1
  BY <1>1, PopProperties
<1>5. timerEntries' = IF ok THEN [timerEntries EXCEPT ![c] = r] ELSE timerEntries
  BY Zenon DEF TimerExpires
<1>6. i' = [i EXCEPT ![c] = i[c] - 1] /\ i' \in [Cores -> Nat]
  BY SMTT(30), <1>1, IInvParts DEF TypeOK, TimerExpires
<1> HIDE DEF ok, r
<1>7. /\ timerEntries' \in [Cores -> Seq(TimerEntry)]
      /\ ok => Len(timerEntries'[c]) = Len(timerEntries[c]) - 1
      /\ \A d \in Cores \ {c} : timerEntries'[d] = timerEntries[d]
  BY Zenon, <1>4, <1>5, IInvParts DEF TypeOK
<1>8. TypeOK'
  BY Zenon, <1>2, <1>3, <1>6, <1>7, IInvParts DEF TypeOK, TimerExpires, Panics
<1>9. ~Owns(c)'
  BY Zenon, <1>3, IInvParts DEF TypeOK, Owns, Running, InKernelOfTask
<1>10. LocalInv(c)'
  <2>1. pc'[c] = "timers" => i'[c] <= Len(timerEntries'[c])
    BY SMTT(30), <1>1, <1>3, <1>6, <1>7, IInvParts DEF TypeOK
  <2>2. pc'[c] \in {"timers", "panicTimer"} /\ pc[c] = "timers"
    BY Zenon, <1>3, IInvParts DEF TypeOK, TimerExpires
  <2>3. QED
    BY Zenon, <2>1, <2>2, IInvParts DEF LocalInv, TimerExpires, InKernelOfTask
<1>11. QED
  BY Zenon, <1>2, <1>3, <1>6, <1>7, <1>8, <1>9, <1>10, LocalStep DEF OthersSame, TimerExpires, IInv, TypeOK

(* The scan of taskQueue begins.                                           *)
LEMMA BeginScanKeepsIInv ==
  ASSUME IInv, NEW c \in Cores, BeginScan(c)
  PROVE  IInv'
<1>1. TypeOK'
  <2>1. 0 \in 0..DefaultSlice
    BY SchedulerAssumption
  <2>2. delta' \in [Cores -> 0..DefaultSlice]
    BY Zenon, <2>1, IInvParts DEF TypeOK, BeginScan
  <2>3. QED
    BY Zenon, <2>2, IInvParts DEF TypeOK, BeginScan, Goto
<1>2. SamePids(taskQueue', taskQueue)
  BY Zenon, IInvParts DEF TypeOK, BeginScan, SamePids
<1>3. ~found[c]
  BY Zenon, IInvParts DEF LocalInv, BeginScan
<1>4. ~Owns(c)'
  BY Zenon, <1>3, IInvParts DEF TypeOK, BeginScan, Goto, Owns, Running, InKernelOfTask
<1>5. LocalInv(c)'
  BY <1>3, IInvParts DEF TypeOK, LocalInv, BeginScan, Goto, InKernelOfTask
<1>6. QED
  BY Zenon, <1>1, <1>2, <1>4, <1>5, LocalStep DEF OthersSame, BeginScan, Goto, IInv, TypeOK

(* The scan passes over a task.                                            *)
LEMMA ScanSkipKeepsIInv ==
  ASSUME IInv, NEW c \in Cores, ScanSkip(c)
  PROVE  IInv'
<1>1. TypeOK'
  <2>1. i' \in [Cores -> Nat]
    BY SMTT(30), IInvParts DEF TypeOK, ScanSkip
  <2>2. QED
    BY Zenon, <2>1, SMTT(30), IInvParts DEF TypeOK, ScanSkip
<1>2. SamePids(taskQueue', taskQueue)
  BY Zenon, IInvParts DEF TypeOK, ScanSkip, SamePids
<1>3. Owns(c)' => Owns(c)
  BY Zenon DEF ScanSkip, Owns, Running
<1>4. i[c] \in Nat /\ i'[c] = i[c] + 1
  BY Zenon, IInvParts DEF TypeOK, ScanSkip
<1>5. LocalInv(c)'
  BY <1>4, IInvParts DEF LocalInv, ScanSkip
<1>6. QED
  BY Zenon, <1>1, <1>2, <1>3, <1>5, LocalStep DEF OthersSame, ScanSkip, IInv, TypeOK

(* The end of SwitchToNextTask: the found task or the idle task runs.      *)
LEMMA DispatchKeepsIInv ==
  ASSUME IInv, NEW c \in Cores, Dispatch(c)
  PROVE  IInv'
<1> DEFINE next == IF found[c] THEN currentTask[c] ELSE Idle
<1>1. Idle \in Task /\ Idle.pid = 0 /\ Idle.state = "Normal" /\ Idle.resume = "user"
  BY SchedulerAssumption DEF Idle, NewTask, Task, Pids, States
<1>2. next \in Task
  BY Zenon, <1>1, IInvParts DEF TypeOK
<1>3. /\ currentTask' = [currentTask EXCEPT ![c] = next]
      /\ pc' = [pc EXCEPT ![c] = next.resume]
      /\ restoreFrame' = [restoreFrame EXCEPT ![c] = found[c]]
      /\ found' = [found EXCEPT ![c] = FALSE]
      /\ i' = [i EXCEPT ![c] = 0]
  BY Zenon DEF Dispatch, Goto
<1>4. next.resume \in {"user", "sleep", "read", "wait"}
  BY Zenon, <1>2 DEF Task
<1>5. found[c] => Owns(c) /\ currentTask[c].pid # 0 /\ currentTask[c].state = "Normal"
  BY Zenon, IInvParts DEF LocalInv, UniqueTasks, Owns, Dispatch
<1>6. TypeOK'
  <2>1. currentTimerTime' \in [Cores -> 1..DefaultSlice]
    <3>1. PICK t \in Expiries(c) :
            /\ \A u \in Expiries(c) : t <= u
            /\ currentTimerTime' = [currentTimerTime EXCEPT ![c] = t]
      BY Zenon DEF Dispatch
    <3>2. \A k \in DOMAIN timerEntries[c] : timerEntries[c][k].milliseconds \in Nat \ {0}
      <4>1. timerEntries[c] \in Seq(TimerEntry)
        BY Zenon, IInvParts DEF TypeOK
      <4>2. \A k \in DOMAIN timerEntries[c] : timerEntries[c][k] \in TimerEntry
        BY <4>1
      <4>3. QED
        BY Zenon, <4>2 DEF TimerEntry
    <3>3. t \in Nat \ {0} /\ t <= DefaultSlice
      BY Zenon, <3>1, <3>2, SchedulerAssumption DEF Expiries
    <3>4. QED
      BY <3>1, <3>3, SchedulerAssumption, SMTT(30), IInvParts DEF TypeOK
  <2>2. pc' \in [Cores -> {"user", "save", "timers", "scan"} \cup InKernelOfTask \cup Panics]
    BY Zenon, <1>3, <1>4, IInvParts DEF TypeOK, InKernelOfTask
  <2>3. QED
    BY SMTT(30), <1>2, <1>3, <2>1, <2>2 DEF IInv, TypeOK, Dispatch
<1>7. SamePids(taskQueue', taskQueue)
  BY Zenon, IInvParts DEF TypeOK, Dispatch, SamePids
<1>8. Owns(c)' => Owns(c) /\ currentTask'[c].pid = currentTask[c].pid
  <2>1. CASE found[c]
    BY Zenon, <1>3, <1>5, <2>1, IInvParts DEF TypeOK
  <2>2. CASE ~found[c]
    BY Zenon, <1>1, <1>3, <2>2, IInvParts DEF TypeOK, Owns, Running, InKernelOfTask
  <2>3. QED
    BY Zenon, <2>1, <2>2
<1>9. LocalInv(c)'
  <2>1. nextPid' = nextPid /\ nextPid \in Nat \ {0} /\ currentTask[c].pid < nextPid
    BY SMTT(30), IInvParts DEF TypeOK, LocalInv, Dispatch
  <2>2. CASE found[c]
    BY Zenon, <1>3, <1>4, <1>5, <2>1, <2>2, SMTT(30), IInvParts DEF TypeOK, LocalInv, InKernelOfTask
  <2>3. CASE ~found[c]
    BY SMTT(30), <1>1, <1>3, <2>1, <2>3, IInvParts DEF TypeOK, LocalInv, InKernelOfTask
  <2>4. QED
    BY Zenon, <2>2, <2>3
<1>10. QED
  BY Zenon, <1>3, <1>6, <1>7, <1>8, <1>9, LocalStep DEF OthersSame, Dispatch, IInv, TypeOK

(* SwitchToNextTask pushes the task it interrupts.                         *)
LEMMA SaveTaskKeepsIInv ==
  ASSUME IInv, NEW c \in Cores, SaveTask(c)
  PROVE  IInv'
<1>1. /\ pc[c] = "save" /\ pc' = [pc EXCEPT ![c] = "timers"]
      /\ taskQueueLock' = None
      /\ restoreFrame' = [restoreFrame EXCEPT ![c] = TRUE]
      /\ i' = [i EXCEPT ![c] = Len(timerEntries[c])]
      /\ UNCHANGED <<currentTask, timerEntries, currentTimerTime, unblockQueue, nextPid, found>>
  BY Zenon DEF SaveTask, Locked, Goto
<1>2. delta' \in [Cores -> 0..DefaultSlice]
  <2>1. PICK d \in 1..currentTimerTime[c] : delta' = [delta EXCEPT ![c] = d]
    BY Zenon DEF SaveTask
  <2>2. currentTimerTime[c] \in 1..DefaultSlice
    BY Zenon, IInvParts DEF TypeOK
  <2>3. d \in 0..DefaultSlice
    BY <2>1, <2>2, SchedulerAssumption
  <2>4. QED
    BY Zenon, <2>1, <2>3, IInvParts DEF TypeOK
<1>3. currentTask[c] \in Task /\ taskQueue \in Seq(Task)
  BY Zenon, IInvParts DEF TypeOK
<1>4. taskQueue' \in Seq(Task)
  BY <1>3 DEF SaveTask
<1>5. i' \in [Cores -> Nat]
  <2>1. Len(timerEntries[c]) \in Nat
    BY IInvParts DEF TypeOK
  <2>2. QED
    BY Zenon, <1>1, <2>1, IInvParts DEF TypeOK
<1>6. TypeOK'
  BY Zenon, <1>1, <1>2, <1>4, <1>5, IInvParts DEF TypeOK
<1>7. ~Owns(c)'
  BY Zenon, <1>1, IInvParts DEF TypeOK, Owns, Running, InKernelOfTask
<1>8. LocalInv(c)'
  <2>1. i'[c] <= Len(timerEntries'[c])
    BY <1>1, <1>5, IInvParts DEF TypeOK
  <2>2. QED
    BY Zenon, <1>1, <2>1, IInvParts DEF TypeOK, LocalInv, InKernelOfTask
<1>9. OthersSame(c)
  BY Zenon, <1>1, IInvParts DEF TypeOK, OthersSame
<1>10. CASE ~restoreFrame[c]
  <2>1. SamePids(taskQueue', taskQueue)
    BY Zenon, <1>3, <1>10 DEF SaveTask, SamePids
  <2>2. QED
    BY Zenon, <1>1, <1>6, <1>7, <1>8, <1>9, <2>1, LocalStep
<1>11. CASE restoreFrame[c]
  <2>1. Owns(c)
    BY Zenon, <1>1, <1>11 DEF Owns
  <2>2. /\ currentTask[c].pid # 0 /\ ~Queued(currentTask[c].pid)
        /\ currentTask[c].pid < nextPid
        /\ \A d \in Cores \ {c} : Owns(d) => currentTask[d].pid # currentTask[c].pid
    BY Zenon, <2>1, IInvParts DEF LocalInv, UniqueTasks
  <2>3. taskQueue' = Append(taskQueue, currentTask[c])
    BY Zenon, <1>11 DEF SaveTask
  <2>4. nextPid' = nextPid /\ nextPid <= nextPid'
    BY <1>1, IInvParts DEF TypeOK
  <2>5. QED
    BY Zenon, <1>3, <1>6, <1>7, <1>8, <1>9, <2>2, <2>3, <2>4, PushStep
<1>12. QED
  BY Zenon, <1>10, <1>11

(* The scan pops a runnable task.                                          *)
LEMMA ScanPopKeepsIInv ==
  ASSUME IInv, NEW c \in Cores, ScanPop(c)
  PROVE  IInv'
<1> DEFINE t == taskQueue[i[c]]
<1>1. taskQueue \in Seq(Task) /\ i[c] \in 1..Len(taskQueue)
  BY SMTT(30), IInvParts DEF TypeOK, LocalInv, ScanPop
<1>2. t \in Task /\ t.state = "Normal" /\ t.pid < nextPid
  BY <1>1, IInvParts DEF ScanPop, Runnable
<1>3. taskQueue' = Pop(taskQueue, i[c]) /\ taskQueue' \in Seq(Task)
  BY Zenon, <1>1, PopProperties DEF ScanPop
<1>4. /\ currentTask' = [currentTask EXCEPT ![c] = t]
      /\ found' = [found EXCEPT ![c] = TRUE]
      /\ i' = [i EXCEPT ![c] = i[c] + 1]
      /\ pc[c] = "scan"
      /\ UNCHANGED <<taskQueueLock, restoreFrame, timerEntries, currentTimerTime,
                     unblockQueue, nextPid, pc, delta>>
  BY Zenon DEF ScanPop
<1> HIDE DEF t
<1>5. TypeOK'
  <2>1. /\ currentTask' \in [Cores -> Task] /\ found' \in [Cores -> BOOLEAN]
        /\ i' \in [Cores -> Nat]
    BY SMTT(30), <1>2, <1>4, IInvParts DEF TypeOK
  <2>2. QED
    BY Zenon, <1>3, <1>4, <2>1, SMTT(30), IInvParts DEF TypeOK
<1>6. currentTask'[c] = t /\ i'[c] >= 1
  BY <1>1, <1>4, IInvParts DEF TypeOK
<1>7. LocalInv(c)'
  BY Zenon, <1>2, <1>4, <1>6, IInvParts DEF LocalInv, InKernelOfTask
<1>8. OthersSame(c)
  BY Zenon, <1>4, IInvParts DEF TypeOK, OthersSame
<1>9. currentTask'[c].pid = taskQueue[i[c]].pid
  BY Zenon, <1>6 DEF t
<1>10. QED
  BY Zenon, <1>1, <1>3, <1>4, <1>5, <1>7, <1>8, <1>9, RemoveStep

(* A keyboard interrupt wakes the first blocked reader.                    *)
LEMMA KeyboardInterruptKeepsIInv ==
  ASSUME IInv, NEW c \in Cores, KeyboardInterrupt(c)
  PROVE  IInv'
<1> DEFINE pid == Head(unblockQueue)
           ok == CanUnsuspend(pid)
           label == IF ok THEN "user" ELSE "panicUnsuspend"
<1>1. taskQueue' \in Seq(Task) /\ SamePids(taskQueue', taskQueue)
  <2>1. ok => Queued(pid)
    BY Zenon DEF CanUnsuspend
  <2>2. 0 \in Pids
    BY SchedulerAssumption DEF Pids
  <2>3. taskQueue' = IF ok THEN Unsuspended(pid, 0) ELSE taskQueue
    BY Zenon DEF KeyboardInterrupt
  <2> HIDE DEF ok, pid
  <2>4. QED
    BY Zenon, <2>1, <2>2, <2>3, MaybeUnsuspended
<1>2. /\ pc[c] = "user"
      /\ pc' = [pc EXCEPT ![c] = label] /\ label \in {"user", "panicUnsuspend"}
      /\ taskQueueLock' \in Cores \cup {None}
      /\ UNCHANGED <<currentTask, restoreFrame, timerEntries, currentTimerTime, nextPid,
                     i, delta, found>>
  BY Zenon DEF KeyboardInterrupt, Locked, Goto, locals
<1>3. unblockQueue' \in Seq(Pids)
  BY IInvParts DEF TypeOK, KeyboardInterrupt
<1> HIDE DEF label
<1>4. TypeOK'
  BY Zenon, <1>1, <1>2, <1>3, IInvParts DEF TypeOK, Panics
<1>5. Owns(c)' => Owns(c)
  BY Zenon, <1>2, IInvParts DEF TypeOK, Owns, Running, InKernelOfTask
<1>6. LocalInv(c)'
  BY Zenon, <1>2, IInvParts DEF TypeOK, LocalInv, InKernelOfTask
<1>7. QED
  BY Zenon, <1>1, <1>2, <1>4, <1>5, <1>6, LocalStep DEF OthersSame, IInv, TypeOK

-----------------------------------------------------------------------------
(* The same steps lose no wake-up and wake no one by mistake.              *)

(* A timer interrupt moves no task.                                        *)
LEMMA TimerInterruptKeepsWInv ==
  ASSUME WInv, NEW c \in Cores, TimerInterrupt(c)
  PROVE  WInv'
<1>1. IInv /\ IInv'
  BY Zenon, TimerInterruptKeepsIInv, WInvParts
<1>2. /\ pc[c] = "user" /\ pc' = [pc EXCEPT ![c] = "save"]
      /\ UNCHANGED <<taskQueue, currentTask, restoreFrame, timerEntries, unblockQueue,
                     nextPid, found>>
  BY Zenon DEF TimerInterrupt, Goto, locals
<1>3. OthersStay(c) /\ pc'[c] = "save"
  BY Zenon, <1>1, <1>2, IInvParts DEF OthersStay, Owns, Running, TypeOK
<1>4. Owns(c)' <=> Owns(c)
  BY Zenon, <1>1, <1>2, <1>3, IInvParts DEF Owns, Running, InKernelOfTask, LocalInv
<1>5. Waiting' = Waiting /\ SameTimers
  BY Zenon, <1>2 DEF Waiting, SameTimers
<1>6. At(c)' = At(c)
  BY Zenon, <1>2, <1>4, <1>5 DEF At
<1>7. QED
  BY Zenon, <1>1, <1>2, <1>3, <1>4, <1>5, <1>6, MoveStep DEF At

(* UpdateTimerEntries moves no task.                                       *)
LEMMA TimerRunsKeepsWInv ==
  ASSUME WInv, NEW c \in Cores, TimerRuns(c)
  PROVE  WInv'
<1>1. IInv /\ IInv'
  BY TimerRunsKeepsIInv, WInvParts
<1>2. /\ pc[c] = "timers"
      /\ UNCHANGED <<taskQueue, currentTask, restoreFrame, unblockQueue, nextPid, pc, found>>
  BY Zenon DEF TimerRuns
<1>3. OthersStay(c) /\ (Owns(c)' <=> Owns(c))
  BY Zenon, <1>2 DEF OthersStay, Owns, Running
<1>4. SameTimers
  <2> DEFINE s == timerEntries[c]
             r == Charge(s, i[c], delta[c])
  <2>1. s \in Seq(TimerEntry) /\ i[c] \in 1..Len(s)
    BY <1>1, IInvParts DEF TypeOK, LocalInv, TimerRuns
  <2>2. DOMAIN r = DOMAIN s /\ \A k \in DOMAIN s : r[k].pid = s[k].pid
    <3> DEFINE e == [s[i[c]] EXCEPT !.milliseconds = @ - delta[c]]
    <3>1. s[i[c]] \in TimerEntry
      BY <2>1
    <3>2. e.pid = s[i[c]].pid
      BY Zenon, <3>1 DEF TimerEntry
    <3>3. r = [s EXCEPT ![i[c]] = e]
      BY Zenon DEF Charge
    <3> HIDE DEF e
    <3>4. QED
      BY Zenon, <2>1, <3>2, <3>3
  <2>3. timerEntries' = [timerEntries EXCEPT ![c] = r]
    BY Zenon DEF TimerRuns
  <2> HIDE DEF r
  <2>4. QED
    BY Zenon, <1>1, <2>2, <2>3, IInvParts DEF SameTimers, TypeOK
<1>5. QED
  BY Zenon, <1>1, <1>2, <1>3, <1>4, StillStep

(* The scan begins and passes over tasks without moving one.               *)
LEMMA BeginScanKeepsWInv ==
  ASSUME WInv, NEW c \in Cores, BeginScan(c)
  PROVE  WInv'
<1>1. IInv /\ IInv'
  BY BeginScanKeepsIInv, WInvParts
<1>2. /\ pc[c] = "timers" /\ pc' = [pc EXCEPT ![c] = "scan"]
      /\ UNCHANGED <<taskQueue, currentTask, restoreFrame, timerEntries, unblockQueue,
                     nextPid, found>>
  BY Zenon DEF BeginScan, Goto
<1>3. OthersStay(c) /\ pc'[c] = "scan"
  BY Zenon, <1>1, <1>2, IInvParts DEF OthersStay, Owns, Running, TypeOK
<1>4. ~Owns(c)' /\ ~Owns(c)
  BY Zenon, <1>1, <1>2, <1>3, IInvParts DEF Owns, Running, InKernelOfTask, LocalInv
<1>5. SameTimers
  BY Zenon, <1>2 DEF SameTimers
<1>6. QED
  BY Zenon, <1>1, <1>2, <1>3, <1>4, <1>5, StillStep

(* ScanSkip: see above.                                                    *)
LEMMA ScanSkipKeepsWInv ==
  ASSUME WInv, NEW c \in Cores, ScanSkip(c)
  PROVE  WInv'
<1>1. IInv /\ IInv'
  BY ScanSkipKeepsIInv, WInvParts
<1>2. /\ pc[c] = "scan"
      /\ UNCHANGED <<taskQueue, currentTask, restoreFrame, timerEntries, unblockQueue,
                     nextPid, pc, found>>
  BY Zenon DEF ScanSkip
<1>3. OthersStay(c) /\ (Owns(c)' <=> Owns(c)) /\ SameTimers
  BY Zenon, <1>2 DEF OthersStay, Owns, Running, SameTimers
<1>4. QED
  BY Zenon, <1>1, <1>2, <1>3, StillStep

(* The scan takes a Normal task from the queue; the one it took before, if *)
(* any, was Normal too.                                                    *)
LEMMA ScanPopKeepsWInv ==
  ASSUME WInv, NEW c \in Cores, ScanPop(c)
  PROVE  WInv'
<1> DEFINE t == taskQueue[i[c]]
<1>1. IInv /\ IInv'
  BY ScanPopKeepsIInv, WInvParts
<1>2. /\ pc[c] = "scan" /\ i[c] \in 1..Len(taskQueue) /\ t.state = "Normal"
      /\ taskQueue' = Pop(taskQueue, i[c])
      /\ currentTask' = [currentTask EXCEPT ![c] = t]
      /\ found' = [found EXCEPT ![c] = TRUE]
      /\ UNCHANGED <<restoreFrame, timerEntries, unblockQueue, nextPid, pc>>
  BY <1>1, IInvParts DEF ScanPop, Runnable, TypeOK, LocalInv
<1>3. Waiting' = Waiting \ {t} /\ t \in Waiting
  BY Zenon, <1>1, <1>2, WaitingPop
<1>4. OthersStay(c) /\ SameTimers /\ currentTask'[c] = t
  BY Zenon, <1>1, <1>2, IInvParts DEF OthersStay, Owns, Running, SameTimers, TypeOK
<1>5. Owns(c)' /\ (Owns(c) => currentTask[c].state = "Normal")
  BY Zenon, <1>1, <1>2, IInvParts DEF Owns, Running, InKernelOfTask, TypeOK, LocalInv
<1> HIDE DEF t
<1>6. QED
  BY Zenon, <1>1, <1>2, <1>3, <1>4, <1>5, MoveStep DEF At

(* The task that the scan found stays on its core.                         *)
LEMMA DispatchKeepsWInv ==
  ASSUME WInv, NEW c \in Cores, Dispatch(c)
  PROVE  WInv'
<1> DEFINE next == IF found[c] THEN currentTask[c] ELSE Idle
<1>1. IInv /\ IInv'
  BY DispatchKeepsIInv, WInvParts
<1>2. /\ pc[c] = "scan"
      /\ currentTask' = [currentTask EXCEPT ![c] = next]
      /\ pc' = [pc EXCEPT ![c] = next.resume]
      /\ restoreFrame' = [restoreFrame EXCEPT ![c] = found[c]]
      /\ found' = [found EXCEPT ![c] = FALSE]
      /\ UNCHANGED <<taskQueue, timerEntries, unblockQueue, nextPid>>
  BY Zenon DEF Dispatch, Goto
<1>3. /\ Idle.resume = "user" /\ Idle.pid = 0
      /\ currentTask[c].resume \in {"user", "sleep", "read", "wait"}
  BY Zenon, <1>1, IInvParts DEF Idle, NewTask, TypeOK, Task
<1>4. OthersStay(c) /\ SameTimers /\ currentTask'[c] = next /\ pc'[c] = next.resume
  BY Zenon, <1>1, <1>2, IInvParts DEF OthersStay, Owns, Running, SameTimers, TypeOK
<1>5. Owns(c) <=> found[c]
  BY Zenon, <1>1, <1>2 DEF Owns, Running, InKernelOfTask
<1>6. CASE found[c]
  <2>1. currentTask[c].pid # 0
    BY Zenon, <1>1, <1>5, <1>6, IInvParts DEF UniqueTasks
  <2>2. Owns(c)'
    BY Zenon, <1>3, <1>4, <1>6, <2>1 DEF Owns, Running, InKernelOfTask
  <2>3. QED
    BY Zenon, <1>1, <1>2, <1>3, <1>4, <1>5, <1>6, <2>2, StillStep
<1>7. CASE ~found[c]
  <2>1. ~Owns(c)'
    BY Zenon, <1>3, <1>4, <1>7 DEF Owns, Running, InKernelOfTask
  <2>2. QED
    BY Zenon, <1>1, <1>2, <1>3, <1>4, <1>5, <1>7, <2>1, StillStep
<1>8. QED
  BY Zenon, <1>6, <1>7

(* SwitchToNextTask moves its task to the queue.                           *)
LEMMA SaveTaskKeepsWInv ==
  ASSUME WInv, NEW c \in Cores, SaveTask(c)
  PROVE  WInv'
<1>1. IInv /\ IInv'
  BY SaveTaskKeepsIInv, WInvParts
<1>2. /\ pc[c] = "save" /\ pc' = [pc EXCEPT ![c] = "timers"]
      /\ restoreFrame' = [restoreFrame EXCEPT ![c] = TRUE]
      /\ UNCHANGED <<currentTask, timerEntries, unblockQueue, nextPid, found>>
  BY Zenon DEF SaveTask, Locked, Goto
<1>3. OthersStay(c) /\ SameTimers /\ pc'[c] = "timers"
  BY Zenon, <1>1, <1>2, IInvParts DEF OthersStay, Owns, Running, SameTimers, TypeOK
<1>4. ~Owns(c)' /\ (Owns(c) <=> restoreFrame[c])
  BY Zenon, <1>2, <1>3 DEF Owns, Running, InKernelOfTask
<1>5. Waiting' = At(c)
  <2>1. CASE restoreFrame[c]
    <3>1. taskQueue' = Append(taskQueue, currentTask[c]) /\ currentTask[c] \in Task
      BY Zenon, <1>1, <2>1, IInvParts DEF SaveTask, TypeOK
    <3>2. QED
      BY Zenon, <1>1, <1>4, <2>1, <3>1, WaitingPush DEF At
  <2>2. CASE ~restoreFrame[c]
    BY Zenon, <1>4, <2>2 DEF At, SaveTask, Waiting
  <2>3. QED
    BY Zenon, <2>1, <2>2
<1>6. QED
  BY Zenon, <1>1, <1>2, <1>3, <1>4, <1>5, MoveStep DEF At

-----------------------------------------------------------------------------
(* The interrupts that wake a task.                                        *)

(* Unsuspend by an interrupt on core c: g becomes w.                       *)
LEMMA WakeStep ==
  ASSUME WInv, IInv', NEW c \in Cores, OthersStay(c),
         UNCHANGED <<nextPid, currentTask>>,
         pc'[c] # "reap",
         NEW g \in Waiting, g.state = "Blocked",
         NEW w \in Task, w.state = "Normal", w.rax = 0, w.pid = g.pid,
         w.parentPid = g.parentPid, w.childrenPids = g.childrenPids,
         Waiting' = (Waiting \ {g}) \cup {w},
         Owns(c)' <=> Owns(c)
  PROVE  /\ Families' /\ Waits' /\ Reaping'
         /\ \A d \in Cores : \A t \in At(d) : t # g => t \in At(d)'
         /\ \A d \in Cores : Owns(d)' <=> Owns(d)
<1>1. \A d \in Cores : Owns(d)' <=> Owns(d)
  BY Zenon DEF OthersStay
<1>2. Live' \subseteq Live \cup {w}
  BY <1>1 DEF Live, At
<1>3. \A d \in Cores : \A t \in At(d) : t # g => t \in At(d)'
  BY Zenon, <1>1 DEF At
<1>4. g \in Live /\ ChildrenOf(w) = ChildrenOf(g)
  BY LiveProperties, WInvParts DEF ChildrenOf
<1>5. Families'
  <2>1. IInv
    BY Zenon, WInvParts
  <2>2. 0 < nextPid
    BY SMTT(30), <2>1, SchedulerAssumption, IInvParts DEF TypeOK
  <2>3. \A u \in Live : u.pid # 0
    BY Zenon, <2>1, LiveProperties
  <2>4. QED
    BY Zenon, <1>2, <1>4, <2>2, <2>3, FamiliesKept, WInvParts DEF Families
<1>6. Waits'
  BY Zenon, <1>2, WaitsKept, WInvParts
<1>7. Reaping'
  <2>1. \A d \in Cores : pc'[d] = "reap" => pc[d] = "reap"
    BY Zenon DEF OthersStay
  <2>2. QED
    BY Zenon, <2>1, ReapingKept, WInvParts
<1>8. QED
  BY Zenon, <1>1, <1>3, <1>5, <1>6, <1>7

(* An expired timer wakes its task, which is in the queue, asleep.        *)
LEMMA TimerExpiresKeepsWInv ==
  ASSUME WInv, NEW c \in Cores, TimerExpires(c)
  PROVE  WInv'
<1> DEFINE k == i[c]
           e == timerEntries[c]
           pid == e[k].pid
           g == GetTask(pid)
<1>1. IInv /\ IInv'
  BY TimerExpiresKeepsIInv, WInvParts
<1>2. pc[c] = "timers" /\ e \in Seq(TimerEntry) /\ k \in 1..Len(e) /\ DOMAIN e = 1..Len(e)
  BY <1>1, IInvParts DEF TimerExpires, TypeOK, LocalInv
<1>3. ~Owns(c)
  BY <1>2 DEF Owns, Running, InKernelOfTask
<1>4. Queued(pid) /\ g \in Waiting /\ g.pid = pid /\ BlockedIn(g, "sleep")
  BY Zenon, ExpiredTaskIsAsleep
<1>5. CanUnsuspend(pid)
  BY Zenon, ExpiredTaskIsAsleep
<1>6. /\ taskQueue' = Unsuspended(pid, 0)
      /\ pc' = [pc EXCEPT ![c] = "timers"]
      /\ timerEntries' = [timerEntries EXCEPT ![c] = Pop(e, k)]
      /\ UNCHANGED <<currentTask, restoreFrame, unblockQueue, nextPid, found>>
  BY Zenon, <1>5 DEF TimerExpires, Locked, Goto
<1> HIDE DEF g, pid
<1>7. PICK w \in Task :
        /\ Waiting' = (Waiting \ {g}) \cup {w}
        /\ w.state = "Normal" /\ w.rax = 0 /\ w.pid = pid
        /\ w.parentPid = g.parentPid /\ w.childrenPids = g.childrenPids
  <2>1. 0 \in Pids
    BY SchedulerAssumption DEF Pids
  <2>2. QED
    BY <1>1, <1>4, <1>6, <2>1, WaitingUnsuspended DEF g
<1>8. OthersStay(c) /\ pc'[c] = "timers" /\ ~Owns(c)'
  BY Zenon, <1>1, <1>6, IInvParts DEF OthersStay, Owns, Running, InKernelOfTask, TypeOK
<1>9. /\ Families' /\ Waits' /\ Reaping'
      /\ \A d \in Cores : \A t \in At(d) : t # g => t \in At(d)'
      /\ \A d \in Cores : Owns(d)' <=> Owns(d)
  BY Zenon, <1>1, <1>3, <1>4, <1>6, <1>7, <1>8, WakeStep DEF BlockedIn
<1>10. Readers'
  <2>1. \A t \in Live : BlockedIn(t, "read") => t \in Live'
    <3>1. ~BlockedIn(g, "read")
      BY Zenon, <1>4 DEF BlockedIn
    <3>2. QED
      BY Zenon, <1>9, <3>1 DEF Live
  <2>2. QED
    BY Zenon, <1>6, <2>1, WInvParts DEF Readers
(* The entries that are left are the others, in order.                     *)
<1> DEFINE at(d, m) == IF d = c /\ m >= k THEN m + 1 ELSE m
<1>11. \A d \in Cores : \A m \in DOMAIN timerEntries'[d] :
         /\ at(d, m) \in DOMAIN timerEntries[d] /\ ~(d = c /\ at(d, m) = k)
         /\ timerEntries'[d][m] = timerEntries[d][at(d, m)]
  <2>1. timerEntries'[c] = Pop(e, k) /\ \A d \in Cores \ {c} : timerEntries'[d] = timerEntries[d]
    BY Zenon, <1>1, <1>6, IInvParts DEF TypeOK
  <2>2. \A m \in DOMAIN timerEntries'[c] :
          /\ at(c, m) \in DOMAIN e /\ at(c, m) # k /\ timerEntries'[c][m] = e[at(c, m)]
    <3>1. DOMAIN Pop(e, k) = 1..(Len(e) - 1) /\ Len(e) \in Nat
      BY SMTT(30), <1>2 DEF Pop
    <3>2. \A m \in 1..(Len(e) - 1) :
            Pop(e, k)[m] = e[at(c, m)] /\ at(c, m) \in 1..Len(e) /\ at(c, m) # k
      BY <1>2, <3>1 DEF Pop
    <3>3. QED
      BY Zenon, <1>2, <2>1, <3>1, <3>2
  <2>3. QED
    BY Zenon, <2>1, <2>2
<1>12. \A d \in Cores : \A p : HasTimer(d, p) /\ p # pid => HasTimer(d, p)'
  <2>1. \A d \in Cores \ {c} : timerEntries'[d] = timerEntries[d]
    BY Zenon, <1>1, <1>6, IInvParts DEF TypeOK
  <2>2. ASSUME NEW m \in DOMAIN e, m # k
        PROVE  \E n \in DOMAIN timerEntries'[c] : timerEntries'[c][n].pid = e[m].pid
    <3>1. timerEntries'[c] = Pop(e, k) /\ DOMAIN Pop(e, k) = 1..(Len(e) - 1) /\ Len(e) \in Nat
      BY <1>1, <1>2, <1>6, IInvParts DEF TypeOK, Pop
    <3>2. CASE m < k
      <4>1. m \in 1..(Len(e) - 1) /\ Pop(e, k)[m] = e[m]
        BY <1>2, <2>2, <3>1, <3>2 DEF Pop
      <4>2. QED
        BY Zenon, <3>1, <4>1
    <3>3. CASE m > k
      <4>1. m - 1 \in 1..(Len(e) - 1) /\ Pop(e, k)[m - 1] = e[m]
        BY SMTT(30), <1>2, <2>2, <3>1, <3>3 DEF Pop
      <4>2. QED
        BY Zenon, <3>1, <4>1
    <3>4. QED
      BY <1>2, <2>2, <3>2, <3>3
  <2>3. QED
    BY <2>1, <2>2 DEF HasTimer, pid
<1>13. Timers'
  <2>1. \A d \in Cores : \A m \in DOMAIN timerEntries'[d] :
          \E t \in At(d)' : t.pid = timerEntries'[d][m].pid /\ BlockedIn(t, "sleep")
    <3> SUFFICES ASSUME NEW d \in Cores, NEW m \in DOMAIN timerEntries'[d]
                 PROVE  \E t \in At(d)' : /\ t.pid = timerEntries'[d][m].pid
                                          /\ BlockedIn(t, "sleep")
      BY Zenon
    <3> DEFINE n == at(d, m)
    <3>1. /\ n \in DOMAIN timerEntries[d] /\ ~(d = c /\ n = k)
          /\ timerEntries'[d][m] = timerEntries[d][n]
      BY Zenon, <1>11
    <3> HIDE DEF n
    <3>2. PICK t \in At(d) : t.pid = timerEntries[d][n].pid /\ BlockedIn(t, "sleep")
      BY Zenon, <3>1, WInvParts DEF Timers
    <3>3. timerEntries[d][n].pid # pid
      BY <1>2, <3>1, WInvParts DEF Timers, pid
    <3>4. t \in At(d)'
      BY Zenon, <1>4, <1>9, <3>2, <3>3
    <3>5. QED
      BY Zenon, <3>1, <3>2, <3>4
  <2>2. \A a, b \in Cores : \A j \in DOMAIN timerEntries'[a], m \in DOMAIN timerEntries'[b] :
          timerEntries'[a][j].pid = timerEntries'[b][m].pid => a = b /\ j = m
    <3> SUFFICES ASSUME NEW a \in Cores, NEW b \in Cores,
                        NEW j \in DOMAIN timerEntries'[a], NEW m \in DOMAIN timerEntries'[b],
                        timerEntries'[a][j].pid = timerEntries'[b][m].pid
                 PROVE  a = b /\ j = m
      BY Zenon
    <3>1. a = b /\ at(a, j) = at(b, m)
      <4> DEFINE x == at(a, j)
                 y == at(b, m)
      <4>1. /\ x \in DOMAIN timerEntries[a] /\ timerEntries'[a][j] = timerEntries[a][x]
            /\ y \in DOMAIN timerEntries[b] /\ timerEntries'[b][m] = timerEntries[b][y]
        BY Zenon, <1>11
      <4> HIDE DEF x, y
      <4>2. a = b /\ x = y
        BY <4>1, WInvParts DEF Timers
      <4>3. QED
        BY Zenon, <4>2 DEF x, y
    <3>2. j \in Nat /\ m \in Nat /\ k \in Nat
      <4>1. timerEntries'[a] \in Seq(TimerEntry) /\ timerEntries'[b] \in Seq(TimerEntry)
        BY Zenon, <1>1, IInvPartsNext DEF TypeOK
      <4>2. QED
        BY SMTT(30), <1>2, <4>1
    <3>3. QED
      BY <3>1, <3>2
  <2>3. \A s \in Waiting' : BlockedIn(s, "sleep") => \E d \in Cores : HasTimer(d, s.pid)'
    <3>1. \A s \in Waiting' : BlockedIn(s, "sleep") => s \in Waiting /\ s # g
      BY Zenon, <1>4, <1>7 DEF BlockedIn
    <3>2. \A s \in Waiting : s.pid = pid => s = g
      BY Zenon, <1>1, <1>4, GetTaskProperties DEF g
    <3>3. QED
      BY <1>12, <3>1, <3>2, WInvParts DEF Timers
  <2>4. \A d \in Cores : Owns(d)' /\ BlockedIn(currentTask[d], "sleep")
                           => HasTimer(d, currentTask[d].pid)'
    <3>1. \A d \in Cores : Owns(d) => currentTask[d].pid # pid
      BY Zenon, <1>1, <1>4, IInvParts DEF UniqueTasks
    <3>2. QED
      BY Zenon, <1>6, <1>9, <1>12, <3>1, WInvParts DEF Timers
  <2>5. QED
    BY Zenon, <1>6, <2>1, <2>2, <2>3, <2>4 DEF Timers
<1>14. QED
  BY Zenon, <1>1, <1>9, <1>10, <1>13 DEF WInv

(* KeyboardInput takes the first reader from unblockQueue, and only that   *)
(* reader is woken.                                                        *)
LEMMA ReadersTail ==
  ASSUME IInv, Readers, unblockQueue # <<>>, unblockQueue' = Tail(unblockQueue),
         \A t \in Live : BlockedIn(t, "read") /\ t.pid # Head(unblockQueue) => t \in Live'
  PROVE  Readers'
<1>1. unblockQueue \in Seq(Pids)
  BY Zenon, IInvParts DEF TypeOK
<1>2. /\ DOMAIN unblockQueue = 1..Len(unblockQueue) /\ Len(unblockQueue) \in Nat \ {0}
      /\ DOMAIN unblockQueue' = 1..(Len(unblockQueue) - 1)
      /\ \A k \in 1..(Len(unblockQueue) - 1) : unblockQueue'[k] = unblockQueue[k + 1]
      /\ Head(unblockQueue) = unblockQueue[1]
  BY <1>1
<1>3. \A k \in DOMAIN unblockQueue' :
        /\ k + 1 \in DOMAIN unblockQueue /\ unblockQueue'[k] = unblockQueue[k + 1]
        /\ unblockQueue[k + 1] # Head(unblockQueue)
  <2>1. \A k \in DOMAIN unblockQueue' : k + 1 \in DOMAIN unblockQueue /\ k + 1 # 1
    BY <1>2
  <2>2. 1 \in DOMAIN unblockQueue
    BY <1>2
  <2>3. QED
    BY Zenon, <1>2, <2>1, <2>2 DEF Readers
<1>4. \A k \in DOMAIN unblockQueue' :
        \E t \in Live' : t.pid = unblockQueue'[k] /\ BlockedIn(t, "read")
  BY <1>3 DEF Readers
<1>5. \A j, k \in DOMAIN unblockQueue' : unblockQueue'[j] = unblockQueue'[k] => j = k
  BY <1>2, <1>3 DEF Readers
<1>6. QED
  BY Zenon, <1>4, <1>5 DEF Readers

(* A keyboard interrupt wakes a blocked reader, or panics when the reader  *)
(* is still on its core.                                                   *)
LEMMA KeyboardInterruptKeepsWInv ==
  ASSUME WInv, NEW c \in Cores, KeyboardInterrupt(c)
  PROVE  WInv'
<1> DEFINE pid == Head(unblockQueue)
           g == GetTask(pid)
<1>1. IInv /\ IInv'
  BY KeyboardInterruptKeepsIInv, WInvParts
<1>2. /\ pc[c] = "user" /\ unblockQueue # <<>> /\ unblockQueue' = Tail(unblockQueue)
      /\ UNCHANGED <<currentTask, restoreFrame, timerEntries, nextPid, found>>
  BY Zenon DEF KeyboardInterrupt, locals
<1>3. PICK t \in Live : t.pid = pid /\ BlockedIn(t, "read")
  <2>1. unblockQueue \in Seq(Pids)
    BY Zenon, <1>1, IInvParts DEF TypeOK
  <2>2. 1 \in DOMAIN unblockQueue /\ pid = unblockQueue[1]
    BY SMTT(30), <1>2, <2>1
  <2>3. QED
    BY Zenon, <2>2, WInvParts DEF Readers
<1>4. OthersStay(c)
  BY <1>1, <1>2, IInvParts DEF KeyboardInterrupt, Locked, Goto, OthersStay, Owns, Running, TypeOK
<1>5. SameTimers
  BY Zenon, <1>2 DEF SameTimers
<1>6. CASE CanUnsuspend(pid)
  <2>1. taskQueue' = Unsuspended(pid, 0) /\ pc' = [pc EXCEPT ![c] = "user"] /\ pc'[c] = "user"
    BY Zenon, <1>1, <1>6, IInvParts DEF KeyboardInterrupt, Locked, Goto, TypeOK
  <2>2. Queued(pid) /\ g \in Waiting /\ g.pid = pid /\ g = t
    BY <1>1, <1>3, <1>6, GetTaskProperties, LiveProperties DEF CanUnsuspend
  <2>3. 0 \in Pids
    BY SchedulerAssumption DEF Pids
  <2> HIDE DEF pid
  <2>4. PICK w \in Task :
          /\ Waiting' = (Waiting \ {g}) \cup {w}
          /\ w.state = "Normal" /\ w.rax = 0 /\ w.pid = pid
          /\ w.parentPid = g.parentPid /\ w.childrenPids = g.childrenPids
    BY <1>1, <2>1, <2>2, <2>3, WaitingUnsuspended
  <2> HIDE DEF g
  <2>5. Owns(c)' <=> Owns(c)
    BY Zenon, <1>2, <2>1 DEF Owns, Running, InKernelOfTask
  <2>6. /\ Families' /\ Waits' /\ Reaping'
        /\ \A d \in Cores : \A s \in At(d) : s # g => s \in At(d)'
        /\ \A d \in Cores : Owns(d)' <=> Owns(d)
    BY Zenon, <1>1, <1>2, <1>3, <1>4, <2>1, <2>2, <2>4, <2>5, WakeStep DEF BlockedIn
  <2>7. BlockedStay("sleep")
    <3>1. ~BlockedIn(g, "sleep")
      BY Zenon, <1>3, <2>2 DEF BlockedIn
    <3>2. \A s \in Waiting' : BlockedIn(s, "sleep") => s \in Live
      BY Zenon, <1>1, <2>4, LiveProperties DEF BlockedIn
    <3>3. QED
      BY Zenon, <1>2, <2>6, <3>1, <3>2 DEF BlockedStay, Same
  <2>8. Timers'
    BY Zenon, <1>1, <1>5, <2>7, TimersKept, WInvParts
  <2>9. Readers'
    <3>1. \A s \in Live : s.pid # pid => s \in Live'
      BY Zenon, <2>2, <2>6 DEF Live
    <3>2. QED
      BY Zenon, <1>1, <1>2, <3>1, ReadersTail, WInvParts DEF pid
  <2>10. QED
    BY Zenon, <1>1, <2>6, <2>8, <2>9 DEF WInv
<1>7. CASE ~CanUnsuspend(pid)
  <2>1. taskQueue' = taskQueue /\ pc'[c] = "panicUnsuspend"
    BY Zenon, <1>1, <1>7, IInvParts DEF KeyboardInterrupt, Locked, Goto, TypeOK
  <2>2. ~Owns(c)' /\ (Owns(c) => currentTask[c].state = "Normal")
    BY Zenon, <1>1, <1>2, <2>1, IInvParts DEF Owns, Running, InKernelOfTask, LocalInv
  <2>3. Waiting' = Waiting
    BY Zenon, <2>1 DEF Waiting
  <2>4. Families' /\ Reaping' /\ Timers' /\ Waits'
    BY Zenon, <1>1, <1>2, <1>4, <1>5, <2>1, <2>2, <2>3, MoveStep DEF At
  <2>5. \A s \in Live : BlockedIn(s, "read") => s \in Live'
    BY <2>2, <2>3, <1>2, <1>4 DEF Live, At, OthersStay, BlockedIn
  <2>6. Readers'
    BY Zenon, <1>1, <1>2, <2>5, ReadersTail, WInvParts
  <2>7. QED
    BY Zenon, <1>1, <2>4, <2>6 DEF WInv
<1>8. QED
  BY Zenon, <1>6, <1>7

-----------------------------------------------------------------------------
(* The system calls keep both invariants.                                  *)

(* A sleep that the Asserts refuse halts the core, with its task.          *)
LEMMA SleepFailsKeepsIInv ==
  ASSUME IInv, NEW c \in Cores, NEW ms \in SleepTimes, SleepFails(c, ms)
  PROVE  IInv'
<1>1. /\ Running(c) /\ pc' = [pc EXCEPT ![c] = "panicSleep"]
      /\ UNCHANGED <<taskQueue, taskQueueLock, currentTask, restoreFrame, timerEntries,
                     currentTimerTime, unblockQueue, nextPid, i, delta, found>>
  BY Zenon DEF SleepFails, Goto, locals
<1>2. TypeOK'
  BY Zenon, <1>1, IInvParts DEF TypeOK, Panics
<1>3. SamePids(taskQueue', taskQueue)
  BY Zenon, <1>1, IInvParts DEF TypeOK, SamePids
<1>4. "panicSleep" \in Panics
  BY Zenon DEF Panics
<1>5. QED
  BY Zenon, <1>1, <1>2, <1>3, <1>4, LeaveUserKeepsIInv

(* SleepCurrentTask: a timer entry, then the suspension.                   *)
LEMMA SleepCurrentTaskKeepsIInv ==
  ASSUME IInv, NEW c \in Cores, NEW ms \in SleepTimes, SleepCurrentTask(c, ms)
  PROVE  IInv'
<1> DEFINE e == [milliseconds |-> ms, pid |-> currentTask[c].pid]
<1>1. Running(c) /\ Suspend(c, "Blocked", 0, "sleep")
  BY Zenon DEF SleepCurrentTask
<1>2. 0 \in Pids /\ "Blocked" \in States
  BY SchedulerAssumption DEF Pids, States
<1>3. /\ currentTask' \in [Cores -> Task]
      /\ pc' = [pc EXCEPT ![c] = "save"]
      /\ currentTask'[c].pid = currentTask[c].pid
      /\ \A d \in Cores \ {c} : currentTask'[d] = currentTask[d]
  BY Zenon, <1>1, <1>2, SuspendProperties
<1>4. e \in TimerEntry
  <2>1. currentTask[c] \in Task
    BY Zenon, IInvParts DEF TypeOK
  <2>2. QED
    <3>1. ms \in Nat \ {0}
      BY SchedulerAssumption DEF SleepCurrentTask
    <3>2. QED
      BY Zenon, <2>1, <3>1 DEF TimerEntry, Task
<1>5. timerEntries' = [timerEntries EXCEPT ![c] = Append(timerEntries[c], e)]
  BY Zenon DEF SleepCurrentTask
<1> HIDE DEF e
<1>6. Append(timerEntries[c], e) \in Seq(TimerEntry)
  BY <1>4, IInvParts DEF TypeOK
<1>7. TypeOK'
  BY Zenon, <1>3, <1>5, <1>6, IInvParts DEF TypeOK, SleepCurrentTask, locals
<1>8. SamePids(taskQueue', taskQueue)
  BY Zenon, IInvParts DEF TypeOK, SleepCurrentTask, SamePids
<1>9. \A d \in Cores \ {c} : timerEntries'[d] = timerEntries[d]
  BY Zenon, <1>5, IInvParts DEF TypeOK
<1>10. QED
  BY Zenon, <1>1, <1>3, <1>7, <1>8, <1>9, LeaveUserKeepsIInv DEF SleepCurrentTask, locals

(* A read of the terminal that suspends its task.                          *)
LEMMA BlockingReadKeepsIInv ==
  ASSUME IInv, NEW c \in Cores, BlockingRead(c)
  PROVE  IInv'
<1>1. Running(c) /\ Suspend(c, "Blocked", 0, "read")
  BY Zenon DEF BlockingRead
<1>2. 0 \in Pids /\ "Blocked" \in States
  BY SchedulerAssumption DEF Pids, States
<1>3. /\ currentTask' \in [Cores -> Task]
      /\ pc' = [pc EXCEPT ![c] = "save"]
      /\ currentTask'[c].pid = currentTask[c].pid
      /\ \A d \in Cores \ {c} : currentTask'[d] = currentTask[d]
  BY Zenon, <1>1, <1>2, SuspendProperties
<1>4. unblockQueue' \in Seq(Pids)
  <2>1. currentTask[c].pid \in Pids
    BY Zenon, IInvParts DEF TypeOK, Task
  <2>2. QED
    BY <2>1, IInvParts DEF TypeOK, BlockingRead
<1>5. TypeOK'
  BY Zenon, <1>3, <1>4, IInvParts DEF TypeOK, BlockingRead, locals
<1>6. SamePids(taskQueue', taskQueue)
  BY Zenon, IInvParts DEF TypeOK, BlockingRead, SamePids
<1>7. QED
  BY Zenon, <1>1, <1>3, <1>5, <1>6, LeaveUserKeepsIInv DEF BlockingRead, locals

(* ExitCurrentTask of a task without a parent in the queue.                *)
LEMMA ExitInitKeepsIInv ==
  ASSUME IInv, NEW c \in Cores, ExitInit(c)
  PROVE  IInv'
<1>1. /\ currentTask' \in [Cores -> Task]
      /\ currentTask'[c].pid = currentTask[c].pid
      /\ \A d \in Cores \ {c} : currentTask'[d] = currentTask[d]
  <2> DEFINE t == [currentTask[c] EXCEPT !.state = "Terminated"]
  <2>1. currentTask[c] \in Task
    BY Zenon, IInvParts DEF TypeOK
  <2>2. t \in Task /\ t.pid = currentTask[c].pid
    BY Zenon, <2>1 DEF Task, States
  <2>3. currentTask' = [currentTask EXCEPT ![c] = t]
    BY Zenon DEF ExitInit
  <2> HIDE DEF t
  <2>4. QED
    BY Zenon, <2>2, <2>3, IInvParts DEF TypeOK
<1>2. TypeOK'
  BY Zenon, <1>1, IInvParts DEF TypeOK, ExitInit, Goto, locals
<1>3. SamePids(taskQueue', taskQueue)
  BY Zenon, IInvParts DEF TypeOK, ExitInit, SamePids
<1>4. QED
  BY Zenon, <1>1, <1>2, <1>3, LeaveUserKeepsIInv DEF ExitInit, Goto, locals

(* ExitCurrentTask, which may wake the waiting parent.                     *)
LEMMA ExitCurrentTaskKeepsIInv ==
  ASSUME IInv, NEW c \in Cores, ExitCurrentTask(c)
  PROVE  IInv'
<1> DEFINE pid == currentTask[c].pid
           parent == currentTask[c].parentPid
           cond == Queued(parent) /\ WaitsFor(GetTask(parent), pid)
           label == IF Queued(parent) THEN "save" ELSE "panicParent"
<1>1. /\ currentTask' \in [Cores -> Task]
      /\ currentTask'[c].pid = currentTask[c].pid
      /\ \A d \in Cores \ {c} : currentTask'[d] = currentTask[d]
  <2> DEFINE t == [currentTask[c] EXCEPT !.state = "Terminated"]
  <2>1. currentTask[c] \in Task
    BY IInvParts DEF TypeOK
  <2>2. t \in Task /\ t.pid = currentTask[c].pid
    BY <2>1 DEF Task, States
  <2>3. currentTask' = [currentTask EXCEPT ![c] = t]
    BY Zenon DEF ExitCurrentTask
  <2> HIDE DEF t
  <2>4. QED
    BY SMTT(30), <2>2, <2>3, IInvParts DEF TypeOK
<1>2. /\ label \in {"save"} \cup Panics /\ label # "reap"
      /\ pc' = [pc EXCEPT ![c] = label]
      /\ taskQueueLock' \in Cores \cup {None}
  BY Zenon DEF ExitCurrentTask, Locked, Goto, Panics
<1>3. taskQueue' \in Seq(Task) /\ SamePids(taskQueue', taskQueue)
  <2>1. pid \in Pids
    BY Zenon, IInvParts DEF TypeOK, Task
  <2>2. taskQueue' = IF cond THEN Unsuspended(parent, pid) ELSE taskQueue
    BY Zenon DEF ExitCurrentTask
  <2>3. cond => Queued(parent)
    BY Zenon
  <2> HIDE DEF cond, parent, pid
  <2>4. QED
    BY Zenon, <2>1, <2>2, <2>3, MaybeUnsuspended
<1> HIDE DEF label
<1>4. TypeOK'
  BY Zenon, <1>1, <1>2, <1>3, IInvParts DEF TypeOK, ExitCurrentTask, locals
<1>5. Running(c) /\ UNCHANGED <<restoreFrame, found, i, nextPid, timerEntries>>
  BY Zenon DEF ExitCurrentTask, locals
<1>6. QED
  BY Zenon, <1>1, <1>2, <1>3, <1>4, <1>5, LeaveUserKeepsIInv

(* WaitForChild, which finds a zombie or suspends.                         *)
LEMMA WaitForChildKeepsIInv ==
  ASSUME IInv, NEW c \in Cores, NEW pid \in WaitPids, WaitForChild(c, pid)
  PROVE  IInv'
<1> DEFINE children == currentTask[c].childrenPids
           Ends(p) == Queued(p) => GetTask(p).state = "Terminated" /\ pid \in {0, p}
<1>1. Running(c) /\ SamePids(taskQueue', taskQueue)
  BY Zenon, IInvParts DEF TypeOK, WaitForChild, SamePids
<1>2. CASE Suspend(c, "WaitingForChild", pid, "wait") /\ UNCHANGED taskQueueLock
  <2>1. pid \in Pids /\ "WaitingForChild" \in States
    BY Zenon, SchedulerAssumption DEF Pids, States
  <2>2. /\ currentTask' \in [Cores -> Task]
        /\ pc' = [pc EXCEPT ![c] = "save"]
        /\ currentTask'[c].pid = currentTask[c].pid
        /\ \A d \in Cores \ {c} : currentTask'[d] = currentTask[d]
    BY Zenon, <1>1, <1>2, <2>1, SuspendProperties
  <2>3. TypeOK'
    BY Zenon, <1>2, <2>2, IInvParts DEF TypeOK, WaitForChild, locals
  <2>4. QED
    BY Zenon, <1>1, <2>2, <2>3, LeaveUserKeepsIInv DEF WaitForChild, locals
<1>3. ASSUME NEW k \in DOMAIN children,
             Locked(c, Queued(children[k]), "reap", "panicChild"),
             currentTask' = [currentTask EXCEPT ![c].rax = children[k], ![c].home = c]
      PROVE  IInv'
  <2>1. children[k] \in Pids
    BY SMTT(30), IInvParts DEF TypeOK, Task
  <2>2. /\ currentTask' \in [Cores -> Task]
        /\ currentTask'[c].pid = currentTask[c].pid
        /\ currentTask'[c].state = currentTask[c].state
        /\ \A d \in Cores \ {c} : currentTask'[d] = currentTask[d]
    <3> DEFINE t == [currentTask[c] EXCEPT !.rax = children[k], !.home = c]
    <3>1. currentTask[c] \in Task
      BY Zenon, IInvParts DEF TypeOK
    <3>2. /\ t \in Task
          /\ t.pid = currentTask[c].pid
          /\ t.state = currentTask[c].state
      BY Zenon, <3>1, <2>1 DEF Task
    <3>3. currentTask' = [currentTask EXCEPT ![c] = t]
      BY Zenon, <1>3
    <3> HIDE DEF t
    <3>4. QED
      BY Zenon, <3>2, <3>3, IInvParts DEF TypeOK
  <2> DEFINE label == IF Queued(children[k]) THEN "reap" ELSE "panicChild"
  <2>3. /\ label \in {"reap"} \cup Panics
        /\ pc' = [pc EXCEPT ![c] = label]
        /\ taskQueueLock' \in Cores \cup {None}
    BY Zenon, <1>3 DEF Locked, Goto, Panics
  <2> HIDE DEF label
  <2>4. TypeOK'
    BY Zenon, <2>2, <2>3, IInvParts DEF TypeOK, WaitForChild, InKernelOfTask, locals
  <2>5. QED
    BY Zenon, <1>1, <2>2, <2>3, <2>4, LeaveUserKeepsIInv DEF WaitForChild, locals
<1>4. QED
  BY Zenon, <1>2, <1>3 DEF WaitForChild

(* A sleeper or reader returns from SuspendSystemCall.                     *)
LEMMA ResumeBlockedKeepsIInv ==
  ASSUME IInv, NEW c \in Cores, ResumeBlocked(c)
  PROVE  IInv'
<1> DEFINE t == [currentTask[c] EXCEPT !.resume = "user", !.home = Bsp]
           label == IF currentTask[currentTask[c].home].state = "Normal" THEN "user"
                                                                         ELSE "panicResume"
<1>1. currentTask[c] \in Task
  BY IInvParts DEF TypeOK
<1>2. /\ t \in Task /\ t.pid = currentTask[c].pid /\ t.state = currentTask[c].state
      /\ currentTask' = [currentTask EXCEPT ![c] = t]
  BY Zenon, <1>1, SchedulerAssumption DEF Task, ResumeBlocked
<1>3. /\ pc[c] \in InKernelOfTask
      /\ pc' = [pc EXCEPT ![c] = label] /\ label \in {"user", "panicResume"}
      /\ UNCHANGED <<taskQueue, taskQueueLock, restoreFrame, timerEntries, currentTimerTime,
                     unblockQueue, nextPid, i, delta, found>>
  BY Zenon DEF ResumeBlocked, Goto, locals, InKernelOfTask
<1> HIDE DEF t, label
<1>4. /\ currentTask' \in [Cores -> Task] /\ currentTask'[c] = t
      /\ \A d \in Cores \ {c} : currentTask'[d] = currentTask[d]
  BY Zenon, <1>2, IInvParts DEF TypeOK
<1>5. TypeOK'
  BY Zenon, <1>3, <1>4, IInvParts DEF TypeOK, Panics
<1>6. Owns(c)' => Owns(c)
  BY Zenon, <1>3 DEF Owns
<1>7. SamePids(taskQueue', taskQueue)
  BY Zenon, <1>3, IInvParts DEF TypeOK, SamePids
<1>8. LocalInv(c)'
  <2>1. restoreFrame[c] /\ ~found[c] /\ currentTask[c].state = "Normal"
        /\ currentTask[c].pid # 0 /\ currentTask[c].pid < nextPid
    BY Zenon, <1>3, IInvParts DEF LocalInv, UniqueTasks, Owns, InKernelOfTask
  <2>2. pc'[c] \in {"user", "panicResume"}
    BY Zenon, <1>3, IInvParts DEF TypeOK
  <2>3. QED
    BY Zenon, <1>2, <1>3, <1>4, <2>1, <2>2 DEF LocalInv
<1>9. QED
  BY Zenon, <1>2, <1>3, <1>4, <1>5, <1>6, <1>7, <1>8, LocalStep DEF OthersSame, IInv, TypeOK

(* A woken parent returns from SuspendSystemCall.                          *)
LEMMA ResumeWaitKeepsIInv ==
  ASSUME IInv, NEW c \in Cores, ResumeWait(c)
  PROVE  IInv'
<1>1. PICK label \in {"reap", "panicChild", "panicResume"} :
        pc' = [pc EXCEPT ![c] = label] /\ taskQueueLock' \in Cores \cup {None}
  BY IInvParts DEF ResumeWait, Locked, Goto, TypeOK
<1>2. /\ pc[c] \in InKernelOfTask
      /\ UNCHANGED <<taskQueue, currentTask, restoreFrame, timerEntries, currentTimerTime,
                     unblockQueue, nextPid, i, delta, found>>
  BY Zenon DEF ResumeWait, locals, InKernelOfTask
<1>3. TypeOK'
  BY Zenon, <1>1, <1>2, IInvParts DEF TypeOK, Panics, InKernelOfTask
<1>4. Owns(c)' => Owns(c)
  BY Zenon, <1>2 DEF Owns
<1>5. SamePids(taskQueue', taskQueue)
  BY Zenon, <1>2, IInvParts DEF TypeOK, SamePids
<1>6. LocalInv(c)'
  BY Zenon, <1>1, <1>2, IInvParts DEF TypeOK, LocalInv, InKernelOfTask
<1>7. QED
  BY ZenonT(30), <1>1, <1>2, <1>3, <1>4, <1>5, <1>6, LocalStep DEF OthersSame, IInv, TypeOK

(* ForkCurrentTask pushes a copy under a new pid.                          *)
LEMMA ForkCurrentTaskKeepsIInv ==
  ASSUME IInv, NEW c \in Cores, ForkCurrentTask(c)
  PROVE  IInv'
<1> DEFINE child == NewTask(nextPid, currentTask[c].pid)
           t == [currentTask[c] EXCEPT !.childrenPids = Append(currentTask[c].childrenPids, nextPid)]
<1>1. /\ Running(c) /\ nextPid <= MaxPid /\ taskQueueLock' = None
      /\ pc' = [pc EXCEPT ![c] = "user"]
      /\ taskQueue' = Append(taskQueue, child)
      /\ currentTask' = [currentTask EXCEPT ![c] = t]
      /\ nextPid' = nextPid + 1
      /\ UNCHANGED <<restoreFrame, timerEntries, currentTimerTime, unblockQueue, i, delta, found>>
  BY Zenon DEF ForkCurrentTask, Locked, Goto, locals
<1>2. nextPid \in Pids /\ nextPid \in Nat \ {0} /\ nextPid' \in 2..(MaxPid + 1)
  <2>1. nextPid \in 2..(MaxPid + 1) /\ MaxPid \in Nat \ {0}
    BY Zenon, SchedulerAssumption, IInvParts DEF TypeOK
  <2>2. nextPid <= MaxPid /\ nextPid' = nextPid + 1
    BY Zenon, <1>1
  <2>3. QED
    BY <2>1, <2>2 DEF Pids
<1>3. currentTask[c] \in Task /\ taskQueue \in Seq(Task)
  BY Zenon, IInvParts DEF TypeOK
<1>4. t \in Task /\ t.pid = currentTask[c].pid /\ t.state = currentTask[c].state
  <2>1. currentTask[c].childrenPids \in Seq(Pids)
    BY Zenon, <1>3 DEF Task
  <2>2. Append(currentTask[c].childrenPids, nextPid) \in Seq(Pids)
    BY SMTT(30), <1>2, <2>1
  <2>3. QED
    BY Zenon, <1>3, <2>2 DEF Task
<1>5. child \in Task /\ child.pid = nextPid
  BY <1>2, <1>3, SchedulerAssumption DEF NewTask, Task, Pids, States
<1> HIDE DEF child, t
<1>6. taskQueue' \in Seq(Task)
  BY <1>1, <1>3, <1>5
<1>7. TypeOK'
  BY Zenon, <1>1, <1>2, <1>4, <1>6, IInvParts DEF TypeOK
<1>8. currentTask'[c] = t /\ pc'[c] = "user" /\ pc[c] = "user"
  BY Zenon, <1>1, IInvParts DEF TypeOK, Running
<1>9. currentTask[c].pid < nextPid /\ currentTask[c].pid \in Nat
  BY SMTT(30), <1>3, IInvParts DEF LocalInv, Task, Pids
<1>10. LocalInv(c)'
  BY <1>1, <1>2, <1>4, <1>8, <1>9, IInvParts DEF LocalInv
<1>11. OthersSame(c)
  BY Zenon, <1>1, IInvParts DEF TypeOK, OthersSame
<1>12. ~Queued(nextPid)
  BY SMTT(30), <1>2, IInvParts DEF Queued
<1>13. \A d \in Cores : currentTask[d].pid # nextPid
  BY <1>2, IInvParts DEF LocalInv
<1>14. Owns(c) /\ currentTask'[c].pid = currentTask[c].pid
  BY Zenon, <1>1, <1>4, <1>8 DEF Owns
<1>15. child.pid # 0 /\ child.pid < nextPid' /\ nextPid <= nextPid'
  BY <1>1, <1>2, <1>5
<1>16. QED
  BY Zenon, <1>1, <1>5, <1>7, <1>10, <1>11, <1>12, <1>13, <1>14, <1>15, PushStep

(* Execute replaces the task under the same pid.                           *)
LEMMA ExecuteKeepsIInv ==
  ASSUME IInv, NEW c \in Cores, Execute(c)
  PROVE  IInv'
<1> DEFINE t == NewTask(currentTask[c].pid, currentTask[c].parentPid)
<1>1. /\ Running(c) /\ taskQueueLock' = None
      /\ pc' = [pc EXCEPT ![c] = "save"]
      /\ taskQueue' = Append(taskQueue, t)
      /\ restoreFrame' = [restoreFrame EXCEPT ![c] = FALSE]
      /\ UNCHANGED <<currentTask, timerEntries, currentTimerTime, unblockQueue, nextPid,
                     i, delta, found>>
  BY Zenon DEF Execute, Locked, Goto, locals
<1>2. currentTask[c] \in Task /\ taskQueue \in Seq(Task)
  BY SMTT(30), IInvParts DEF TypeOK
<1>3. t \in Task /\ t.pid = currentTask[c].pid
  BY SMTT(30), <1>2, SchedulerAssumption DEF NewTask, Task, Pids, States
<1> HIDE DEF t
<1>4. TypeOK'
  BY SMTT(30), <1>1, <1>2, <1>3, IInvParts DEF TypeOK
<1>5. pc'[c] = "save" /\ ~restoreFrame'[c] /\ pc[c] = "user" /\ currentTask[c].pid # 0
  BY Zenon, <1>1, IInvParts DEF TypeOK, Running
<1>6. ~Owns(c)'
  BY Zenon, <1>1, <1>5 DEF Owns, Running, InKernelOfTask
<1>7. LocalInv(c)'
  BY Zenon, <1>1, <1>5, IInvParts DEF LocalInv, InKernelOfTask
<1>8. OthersSame(c)
  BY Zenon, <1>1, IInvParts DEF TypeOK, OthersSame
<1>9. Owns(c)
  BY Zenon, <1>1 DEF Owns
<1>10. /\ ~Queued(currentTask[c].pid)
       /\ \A d \in Cores \ {c} : Owns(d) => currentTask[d].pid # currentTask[c].pid
       /\ currentTask[c].pid < nextPid
  BY ZenonT(30), <1>9, IInvParts DEF UniqueTasks, LocalInv
<1>11. nextPid' = nextPid /\ nextPid <= nextPid'
  BY <1>1, IInvParts DEF TypeOK
<1>12. QED
  BY Zenon, <1>1, <1>3, <1>4, <1>5, <1>6, <1>7, <1>8, <1>10, <1>11, PushStep

(* WaitForChild removes the zombie from taskQueue.                         *)
LEMMA ReapChildKeepsIInv ==
  ASSUME IInv, NEW c \in Cores, ReapChild(c)
  PROVE  IInv'
<1> DEFINE childPid == currentTask[c].rax
           home == currentTask[c].home
           children == currentTask[home].childrenPids
           k == Position(childPid)
<1>1. /\ pc[c] = "reap"
      /\ UNCHANGED <<taskQueueLock, restoreFrame, timerEntries, currentTimerTime, unblockQueue,
                     nextPid, i, delta, found>>
  BY Zenon DEF ReapChild, locals
<1>2. currentTask[c] \in Task /\ home \in Cores /\ taskQueue \in Seq(Task)
  BY Zenon, IInvParts DEF TypeOK, Task
<1>3. /\ Owns(c) /\ restoreFrame[c] /\ ~found[c]
      /\ currentTask[c].pid # 0 /\ currentTask[c].pid < nextPid
      /\ currentTask[c].state = "Normal"
  BY Zenon, <1>1, IInvParts DEF Owns, LocalInv, UniqueTasks, InKernelOfTask
(* The two outcomes agree on what the invariant is about.                  *)
<1> DEFINE Agree ==
      /\ currentTask' \in [Cores -> Task]
      /\ \A d \in Cores : /\ currentTask'[d].pid = currentTask[d].pid
                          /\ currentTask'[d].state = currentTask[d].state
      /\ pc' = [pc EXCEPT ![c] = "user"] \/ pc' = [pc EXCEPT ![c] = "panicRemoved"]
<1>4. Agree
  <2>1. CASE UNCHANGED currentTask /\ Goto(c, "panicRemoved")
    BY Zenon, <2>1, IInvParts DEF Goto, TypeOK
  <2>2. ASSUME NEW m \in DOMAIN children, Goto(c, "user"),
               currentTask' = [currentTask EXCEPT
                 ![home].childrenPids = Pop(@, m),
                 ![c].resume = "user", ![c].rax = 0, ![c].home = Bsp]
        PROVE  Agree
    <3> DEFINE rest == Pop(children, m)
               th == [currentTask[home] EXCEPT !.childrenPids = rest]
               f == [currentTask EXCEPT ![home] = th]
               tc == [f[c] EXCEPT !.resume = "user", !.rax = 0, !.home = Bsp]
    <3>1. currentTask \in [Cores -> Task] /\ children \in Seq(Pids)
      BY Zenon, <1>2, IInvParts DEF TypeOK, Task
    <3>2. rest \in Seq(Pids)
      BY <3>1, PopProperties
    <3> HIDE DEF rest
    <3>3. /\ th \in Task /\ th.pid = currentTask[home].pid
          /\ th.state = currentTask[home].state
      BY Zenon, <1>2, <3>1, <3>2 DEF Task
    <3>4. currentTask' = [f EXCEPT ![c] = tc]
      BY Zenon, <2>2, <1>2, <3>1 DEF rest
    <3> HIDE DEF th
    <3>5. /\ f \in [Cores -> Task]
          /\ \A d \in Cores : f[d].pid = currentTask[d].pid /\ f[d].state = currentTask[d].state
      BY Zenon, <1>2, <3>1, <3>3
    <3> HIDE DEF f
    <3>6. tc \in Task /\ tc.pid = f[c].pid /\ tc.state = f[c].state
      <4>1. f[c] \in Task
        BY Zenon, <3>5
      <4>2. 0 \in Pids /\ Bsp \in Cores
        BY SchedulerAssumption DEF Pids
      <4>3. QED
        BY Zenon, <4>1, <4>2 DEF Task
    <3> HIDE DEF tc
    <3>7. /\ currentTask' \in [Cores -> Task] /\ currentTask'[c] = tc
          /\ \A d \in Cores \ {c} : currentTask'[d] = f[d]
      BY Zenon, <3>4, <3>5, <3>6
    <3>8. \A d \in Cores : /\ currentTask'[d].pid = currentTask[d].pid
                           /\ currentTask'[d].state = currentTask[d].state
      BY Zenon, <3>5, <3>6, <3>7
    <3>9. QED
      BY Zenon, <2>2, <3>7, <3>8 DEF Goto
  <2>3. QED
    BY Zenon, <2>1, <2>2 DEF ReapChild
<1>5. taskQueue' \in Seq(Task)
  <2>1. Queued(childPid) => k \in 1..Len(taskQueue)
    BY Zenon, PositionProperties, IInvParts
  <2>2. taskQueue' = IF Queued(childPid) THEN Pop(taskQueue, k) ELSE taskQueue
    BY Zenon DEF ReapChild
  <2> HIDE DEF k
  <2>3. QED
    BY Zenon, <1>2, <2>1, <2>2, PopProperties
<1>6. TypeOK'
  BY Zenon, <1>1, <1>4, <1>5, IInvParts DEF TypeOK, Panics
<1>7. pc'[c] \in {"user", "panicRemoved"} /\ \A d \in Cores \ {c} : pc'[d] = pc[d]
  BY Zenon, <1>4, IInvParts DEF TypeOK
<1>8. LocalInv(c)'
  BY Zenon, <1>1, <1>3, <1>4, <1>7 DEF LocalInv, InKernelOfTask
<1>9. OthersSame(c)
  BY Zenon, <1>1, <1>4, <1>7 DEF OthersSame
<1>10. CASE Queued(childPid)
  <2>1. k \in 1..Len(taskQueue)
    BY Zenon, <1>10, PositionProperties, IInvParts
  <2>2. taskQueue' = Pop(taskQueue, k)
    BY Zenon, <1>10 DEF ReapChild
  <2> HIDE DEF k
  <2>3. QED
    BY Zenon, <1>1, <1>3, <1>4, <1>6, <1>8, <1>9, <2>1, <2>2, RemoveStep
<1>11. CASE ~Queued(childPid)
  <2>1. taskQueue' = taskQueue
    BY Zenon, <1>11 DEF ReapChild
  <2>2. SamePids(taskQueue', taskQueue)
    BY Zenon, <2>1 DEF SamePids
  <2>3. QED
    BY Zenon, <1>1, <1>3, <1>4, <1>6, <1>8, <1>9, <2>2, LocalStep
<1>12. QED
  BY Zenon, <1>10, <1>11

-----------------------------------------------------------------------------
(* System calls, made by a Normal task that its core owns.                 *)

(* A system call that pushes nothing but Normal tasks.                     *)
LEMMA CallStep ==
  ASSUME WInv, NEW c \in Cores, OthersStay(c),
         Owns(c), currentTask[c].state = "Normal",
         Waiting \subseteq Waiting',
         \A s \in Waiting' \ Waiting : s.state = "Normal"
  PROVE  /\ \A kind : (Owns(c)' => ~BlockedIn(currentTask'[c], kind)) => BlockedStay(kind)
         /\ (Owns(c)' => currentTask'[c].state \notin {"WaitingForChild", "Terminated"}) => Waits'
         /\ pc'[c] # "reap" => Reaping'
<1>1. IInv
  BY Zenon, WInvParts
<1>2. ASSUME NEW kind, Owns(c)' => ~BlockedIn(currentTask'[c], kind)
      PROVE  BlockedStay(kind)
  <2>1. \A d \in Cores : \A t \in At(d) : BlockedIn(t, kind) => t \in At(d)'
    BY Zenon DEF At, OthersStay, BlockedIn
  <2>2. \A s \in Waiting' : BlockedIn(s, kind) => s \in Live
    BY Zenon, <1>1, LiveProperties DEF BlockedIn
  <2>3. QED
    BY Zenon, <1>2, <2>1, <2>2 DEF BlockedStay, Same, OthersStay
<1>3. ASSUME Owns(c)' => currentTask'[c].state \notin {"WaitingForChild", "Terminated"}
      PROVE  Waits'
  <2>1. \A s \in Live' : s.state \in {"WaitingForChild", "Terminated"} => s \in Live
    <3>1. \A s \in Live' : s \in Waiting' \/ \E d \in Cores : Owns(d)' /\ s = currentTask'[d]
      BY Zenon DEF Live, At
    <3>2. QED
      BY <1>1, <1>3, <3>1, LiveProperties DEF OthersStay
  <2>2. QED
    BY Zenon, <2>1, WaitsKept, WInvParts
<1>4. pc'[c] # "reap" => Reaping'
  <2>1. \A d \in Cores \ {c} : pc'[d] = pc[d] /\ currentTask'[d] = currentTask[d]
    BY Zenon DEF OthersStay
  <2>2. QED
    BY Zenon, <2>1, ReapingKept, WInvParts
<1>5. QED
  BY Zenon, <1>2, <1>3, <1>4

(* A step in which the task of core c gets no new child, and has in rax    *)
(* what it had, nothing, or one of its children.                           *)
LEMMA OwnFamily ==
  ASSUME WInv, NEW c \in Cores, OthersStay(c), Owns(c), Waiting' \subseteq Waiting,
         nextPid' = nextPid,
         Owns(c)' => LET s == currentTask'[c]
                         t == currentTask[c] IN
                       /\ s.pid = t.pid /\ s.parentPid = t.parentPid
                       /\ ChildrenOf(s) \subseteq ChildrenOf(t)
                       /\ s.rax \in {t.rax, 0} \cup ChildrenOf(t)
  PROVE  Families'
<1>1. IInv /\ Families
  BY Zenon, WInvParts
<1>2. nextPid \in Nat /\ 0 < nextPid
  BY <1>1, SchedulerAssumption DEF IInv, TypeOK
<1>3. ASSUME NEW s \in Live'
      PROVE  \E t \in Live : /\ t.pid = s.pid /\ t.parentPid = s.parentPid
                             /\ ChildrenOf(s) \subseteq ChildrenOf(t)
                             /\ s.rax \in {t.rax, 0} \cup ChildrenOf(t)
  <2>1. s \in Waiting' \/ \E d \in Cores : Owns(d)' /\ s = currentTask'[d]
    BY Zenon DEF Live, At
  <2>2. CASE s \in Live
    BY Zenon, <2>2
  <2>3. CASE s = currentTask'[c] /\ Owns(c)'
    BY Zenon, <1>1, <2>3, LiveProperties
  <2>4. QED
    BY Zenon, <1>1, <2>1, <2>2, <2>3, LiveProperties DEF OthersStay
<1>4. ASSUME NEW s \in Live'
      PROVE  /\ s.rax < nextPid
             /\ \A u \in Live : u.pid = s.rax => u.parentPid = s.pid
  <2>1. PICK t \in Live : t.pid = s.pid /\ s.rax \in {t.rax, 0} \cup ChildrenOf(t)
    BY Zenon, <1>3
  <2>2. \A u \in Live : u.pid # 0
    BY Zenon, <1>1, LiveProperties
  <2>3. QED
    BY <1>1, <1>2, <2>1, <2>2 DEF Families
<1>5. QED
  BY Zenon, <1>1, <1>3, <1>4, FamiliesKept

(* A core that halts in a refused sleep takes its task, and nothing else.  *)
LEMMA SleepFailsKeepsWInv ==
  ASSUME WInv, NEW c \in Cores, NEW ms \in SleepTimes, SleepFails(c, ms)
  PROVE  WInv'
<1>1. IInv /\ IInv'
  BY Zenon, SleepFailsKeepsIInv, WInvParts
<1>2. /\ Running(c) /\ pc' = [pc EXCEPT ![c] = "panicSleep"]
      /\ UNCHANGED <<taskQueue, currentTask, restoreFrame, timerEntries, unblockQueue,
                     nextPid, found>>
  BY Zenon DEF SleepFails, Goto, locals
<1>3. pc'[c] = "panicSleep" /\ \A d \in Cores \ {c} : pc'[d] = pc[d]
  BY Zenon, <1>1, <1>2, IInvParts DEF TypeOK
<1>4. /\ OthersStay(c) /\ Waiting' = Waiting /\ Owns(c) /\ ~Owns(c)'
      /\ currentTask[c].state = "Normal"
  <2>1. Waiting' = Waiting /\ Owns(c) /\ ~Owns(c)'
    BY Zenon, <1>2, <1>3 DEF Waiting, Owns, Running, InKernelOfTask
  <2>2. OthersStay(c)
    BY Zenon, <1>2, <1>3 DEF OthersStay, Owns, Running
  <2>3. QED
    BY Zenon, <1>1, <1>2, <2>1, <2>2, IInvParts DEF LocalInv, Running
<1>5. Families'
  BY Zenon, <1>2, <1>4, OwnFamily
<1>6. Waits' /\ Reaping' /\ \A kind : BlockedStay(kind)
  BY Zenon, <1>3, <1>4, CallStep
<1>7. Timers' /\ Readers'
  BY Zenon, <1>1, <1>2, <1>6, TimersKept, ReadersKept, WInvParts DEF SameTimers
<1>8. QED
  BY Zenon, <1>1, <1>5, <1>6, <1>7 DEF WInv

(* SleepCurrentTask gives the task that it suspends a timer of its own.    *)
LEMMA SleepCurrentTaskKeepsWInv ==
  ASSUME WInv, NEW c \in Cores, NEW ms \in SleepTimes, SleepCurrentTask(c, ms)
  PROVE  WInv'
<1> DEFINE pid == currentTask[c].pid
           n == Len(timerEntries[c])
           e == [milliseconds |-> ms, pid |-> pid]
<1>1. IInv /\ IInv'
  BY Zenon, SleepCurrentTaskKeepsIInv, WInvParts
<1>2. /\ Running(c) /\ Suspend(c, "Blocked", 0, "sleep")
      /\ timerEntries' = [timerEntries EXCEPT ![c] = Append(timerEntries[c], e)]
      /\ UNCHANGED <<taskQueue, restoreFrame, unblockQueue, nextPid, found>>
  BY Zenon DEF SleepCurrentTask, locals
<1>3. 0 \in Pids /\ "Blocked" \in States
  BY SchedulerAssumption DEF Pids, States
<1>4. /\ OthersStay(c) /\ Waiting' = Waiting
      /\ Owns(c) /\ Owns(c)' /\ pc'[c] = "save" /\ currentTask[c].state = "Normal"
      /\ LET s == currentTask'[c]
             t == currentTask[c] IN
           /\ s.pid = t.pid /\ s.parentPid = t.parentPid
           /\ s.childrenPids = t.childrenPids /\ s.rax = t.rax
           /\ s.state = "Blocked" /\ s.suspensionArg = 0 /\ s.resume = "sleep"
  BY Zenon, <1>1, <1>2, <1>3, SuspendTask
<1>5. Families'
  BY Zenon, <1>2, <1>4, OwnFamily DEF ChildrenOf
<1>6. Waits' /\ Reaping' /\ BlockedStay("read")
  BY Zenon, <1>4, CallStep DEF BlockedIn
<1>7. Readers'
  BY Zenon, <1>2, <1>6, ReadersKept, WInvParts
(* Until now the task had no timer: it was not asleep.                     *)
<1>8. \A d \in Cores : ~HasTimer(d, pid)
  <2>1. \A d \in Cores : \A t \in At(d) : t.pid = pid => t = currentTask[c]
    <3>1. currentTask[c] \in Live /\ \A d \in Cores : \A t \in At(d) : t \in Live
      BY Zenon, <1>1, <1>4, LiveProperties DEF Live
    <3>2. QED
      BY Zenon, <1>1, <3>1, LiveProperties
  <2>2. SUFFICES ASSUME NEW d \in Cores, NEW k \in DOMAIN timerEntries[d],
                        timerEntries[d][k].pid = pid
                 PROVE  FALSE
    BY Zenon DEF HasTimer
  <2>3. \A b \in Cores : \A j \in DOMAIN timerEntries[b] :
          \E t \in At(b) : t.pid = timerEntries[b][j].pid /\ BlockedIn(t, "sleep")
    BY Zenon, WInvParts DEF Timers
  <2>4. PICK t \in At(d) : t.pid = timerEntries[d][k].pid /\ BlockedIn(t, "sleep")
    BY Zenon, <2>3
  <2>5. QED
    BY Zenon, <1>4, <2>1, <2>2, <2>4 DEF BlockedIn
<1>9. /\ n \in Nat /\ DOMAIN timerEntries[c] = 1..n
      /\ DOMAIN timerEntries'[c] = 1..(n + 1) /\ timerEntries'[c][n + 1].pid = pid
      /\ \A k \in 1..n : timerEntries'[c][k] = timerEntries[c][k]
      /\ \A d \in Cores \ {c} : timerEntries'[d] = timerEntries[d]
  <2>1. timerEntries[c] \in Seq(TimerEntry) /\ e.pid = pid
    BY Zenon, <1>1, IInvParts DEF TypeOK
  <2>2. timerEntries'[c] = Append(timerEntries[c], e)
        /\ \A d \in Cores \ {c} : timerEntries'[d] = timerEntries[d]
    BY Zenon, <1>1, <1>2, IInvParts DEF TypeOK
  <2> HIDE DEF e, pid
  <2>3. QED
    BY SMTT(30), <2>1, <2>2
<1> HIDE DEF n, e
<1>10. \A d \in Cores : \A k \in DOMAIN timerEntries'[d] :
         \/ d = c /\ k = n + 1 /\ timerEntries'[d][k].pid = pid
         \/ k \in DOMAIN timerEntries[d] /\ timerEntries'[d][k] = timerEntries[d][k]
  <2>1. \A k \in 1..(n + 1) : k = n + 1 \/ k \in 1..n
    BY <1>9
  <2>2. QED
    BY Zenon, <1>9, <2>1
<1>11. \A d \in Cores : \A p : HasTimer(d, p) => HasTimer(d, p)'
  <2>1. 1..n \subseteq 1..(n + 1)
    BY <1>9
  <2>2. QED
    BY Zenon, <1>9, <2>1 DEF HasTimer
<1>12. Timers'
  <2>1. \A d \in Cores : \A k \in DOMAIN timerEntries'[d] :
          \E t \in At(d)' : t.pid = timerEntries'[d][k].pid /\ BlockedIn(t, "sleep")
    <3>1. currentTask'[c] \in At(c)' /\ BlockedIn(currentTask'[c], "sleep")
      BY Zenon, <1>4 DEF At, BlockedIn
    <3>2. \A d \in Cores : \A t \in At(d) : BlockedIn(t, "sleep") => t \in At(d)'
      BY Zenon, <1>4 DEF At, OthersStay, BlockedIn
    <3>3. \A d \in Cores : \A k \in DOMAIN timerEntries[d] :
            \E t \in At(d)' : t.pid = timerEntries[d][k].pid /\ BlockedIn(t, "sleep")
      BY Zenon, <3>2, WInvParts DEF Timers
    <3>4. currentTask'[c].pid = pid
      BY Zenon, <1>4
    <3>5. QED
      BY <1>10, <3>1, <3>3, <3>4
  <2>2. \A a, b \in Cores : \A j \in DOMAIN timerEntries'[a], k \in DOMAIN timerEntries'[b] :
          timerEntries'[a][j].pid = timerEntries'[b][k].pid => a = b /\ j = k
    BY SMTT(30), <1>8, <1>10, WInvParts DEF Timers, HasTimer
  <2>3. \A s \in Waiting' : BlockedIn(s, "sleep") => \E d \in Cores : HasTimer(d, s.pid)'
    BY ZenonT(30), <1>4, <1>11, WInvParts DEF Timers
  <2>4. \A d \in Cores : Owns(d)' /\ BlockedIn(currentTask'[d], "sleep") =>
          \E k \in DOMAIN timerEntries'[d] : timerEntries'[d][k].pid = currentTask'[d].pid
    <3>1. n + 1 \in DOMAIN timerEntries'[c]
      BY SMTT(30), <1>9
    <3>2. \A d \in Cores \ {c} : Owns(d)' /\ BlockedIn(currentTask'[d], "sleep")
                                   => HasTimer(d, currentTask[d].pid)
      BY Zenon, <1>4, WInvParts DEF OthersStay, Timers
    <3>3. QED
      BY SMTT(30), <1>4, <1>9, <3>1, <3>2 DEF HasTimer, OthersStay
  <2>5. QED
    BY Zenon, <2>1, <2>2, <2>3, <2>4 DEF Timers, HasTimer
<1>13. QED
  BY Zenon, <1>1, <1>5, <1>6, <1>7, <1>12 DEF WInv

(* A read that suspends its task puts it in unblockQueue, once.            *)
LEMMA BlockingReadKeepsWInv ==
  ASSUME WInv, NEW c \in Cores, BlockingRead(c)
  PROVE  WInv'
<1> DEFINE pid == currentTask[c].pid
           n == Len(unblockQueue)
<1>1. IInv /\ IInv'
  BY Zenon, BlockingReadKeepsIInv, WInvParts
<1>2. /\ Running(c) /\ Suspend(c, "Blocked", 0, "read")
      /\ unblockQueue' = Append(unblockQueue, pid)
      /\ UNCHANGED <<taskQueue, restoreFrame, timerEntries, nextPid, found>>
  BY Zenon DEF BlockingRead, locals
<1>3. 0 \in Pids /\ "Blocked" \in States
  BY SchedulerAssumption DEF Pids, States
<1>4. /\ OthersStay(c) /\ Waiting' = Waiting
      /\ Owns(c) /\ Owns(c)' /\ pc'[c] = "save" /\ currentTask[c].state = "Normal"
      /\ LET s == currentTask'[c]
             t == currentTask[c] IN
           /\ s.pid = t.pid /\ s.parentPid = t.parentPid
           /\ s.childrenPids = t.childrenPids /\ s.rax = t.rax
           /\ s.state = "Blocked" /\ s.suspensionArg = 0 /\ s.resume = "read"
  BY Zenon, <1>1, <1>2, <1>3, SuspendTask
<1>5. Families'
  BY Zenon, <1>2, <1>4, OwnFamily DEF ChildrenOf
<1>6. Waits' /\ Reaping' /\ BlockedStay("sleep")
  BY Zenon, <1>4, CallStep DEF BlockedIn
<1>7. Timers'
  BY Zenon, <1>1, <1>2, <1>6, TimersKept, WInvParts DEF SameTimers
<1>8. \A t \in Live : BlockedIn(t, "read") => t \in Live' /\ t.pid # pid
  <2>1. \A t \in Live : BlockedIn(t, "read") => t \in Live'
    BY <1>4 DEF Live, At, OthersStay, BlockedIn
  <2>2. \A t \in Live : t.pid = pid => t = currentTask[c]
    BY Zenon, <1>1, <1>4, LiveProperties
  <2>3. QED
    BY Zenon, <1>4, <2>1, <2>2 DEF BlockedIn
<1>9. Readers'
  <2>1. /\ n \in Nat /\ DOMAIN unblockQueue = 1..n /\ DOMAIN unblockQueue' = 1..(n + 1)
        /\ unblockQueue'[n + 1] = pid
        /\ \A k \in 1..n : unblockQueue'[k] = unblockQueue[k]
    <3>1. unblockQueue \in Seq(Pids)
      BY Zenon, <1>1, IInvParts DEF TypeOK
    <3> HIDE DEF pid
    <3>2. QED
      BY SMTT(30), <1>2, <3>1
  <2> HIDE DEF n
  <2>2. \A k \in DOMAIN unblockQueue' : k = n + 1 \/ k \in DOMAIN unblockQueue
    BY SMTT(30), <2>1
  <2>3. currentTask'[c] \in Live' /\ BlockedIn(currentTask'[c], "read")
    BY <1>1, <1>4, LiveProperties DEF Live, At, BlockedIn
  <2>4. \A k \in DOMAIN unblockQueue : unblockQueue[k] # pid
    BY Zenon, <1>8, WInvParts DEF Readers
  <2>5. \A k \in DOMAIN unblockQueue' :
          \E t \in Live' : t.pid = unblockQueue'[k] /\ BlockedIn(t, "read")
    BY SMTT(30), <1>4, <1>8, <2>1, <2>2, <2>3, WInvParts DEF Readers
  <2>6. \A j, k \in DOMAIN unblockQueue' : unblockQueue'[j] = unblockQueue'[k] => j = k
    BY Zenon, <2>1, <2>2, <2>4, WInvParts DEF Readers
  <2>7. QED
    BY Zenon, <2>5, <2>6 DEF Readers
<1>10. QED
  BY Zenon, <1>1, <1>5, <1>6, <1>7, <1>9 DEF WInv

(* Sleep and Read return: a Normal task goes on.                           *)
LEMMA ResumeBlockedKeepsWInv ==
  ASSUME WInv, NEW c \in Cores, ResumeBlocked(c)
  PROVE  WInv'
<1> DEFINE t == [currentTask[c] EXCEPT !.resume = "user", !.home = Bsp]
<1>1. IInv /\ IInv'
  BY ResumeBlockedKeepsIInv, WInvParts
<1>2. /\ pc[c] \in {"sleep", "read"}
      /\ currentTask' = [currentTask EXCEPT ![c] = t]
      /\ UNCHANGED <<taskQueue, restoreFrame, timerEntries, unblockQueue, nextPid, found>>
  BY Zenon DEF ResumeBlocked, locals
<1>3. /\ t.pid = currentTask[c].pid /\ t.parentPid = currentTask[c].parentPid
      /\ t.childrenPids = currentTask[c].childrenPids /\ t.rax = currentTask[c].rax
      /\ t.state = currentTask[c].state
  <2>1. currentTask[c] \in Task
    BY Zenon, <1>1, IInvParts DEF TypeOK
  <2>2. QED
    BY Zenon, <2>1 DEF Task
<1> HIDE DEF t
<1>4. /\ currentTask'[c] = t /\ pc'[c] # "reap"
      /\ \A d \in Cores \ {c} : currentTask'[d] = currentTask[d] /\ pc'[d] = pc[d]
  BY ZenonT(30), <1>1, <1>2, IInvParts DEF ResumeBlocked, Goto, TypeOK
<1>5. OthersStay(c) /\ Waiting' = Waiting /\ SameTimers
  BY Zenon, <1>2, <1>4 DEF OthersStay, Owns, Running, Waiting, SameTimers
<1>6. Owns(c) /\ currentTask[c].state = "Normal"
  BY ZenonT(30), <1>1, <1>2, IInvParts DEF Owns, InKernelOfTask, LocalInv
<1>7. Families'
  BY <1>2, <1>3, <1>4, <1>5, <1>6, OwnFamily DEF ChildrenOf
<1>8. Waits' /\ Reaping' /\ BlockedStay("sleep") /\ BlockedStay("read")
  BY Zenon, <1>3, <1>4, <1>5, <1>6, CallStep DEF BlockedIn
<1>9. Timers' /\ Readers'
  BY Zenon, <1>1, <1>2, <1>5, <1>8, TimersKept, ReadersKept, WInvParts
<1>10. QED
  BY Zenon, <1>1, <1>7, <1>8, <1>9 DEF WInv

(* A woken WaitForChild goes on to reap only a zombie.                     *)
LEMMA ResumeWaitKeepsWInv ==
  ASSUME WInv, NEW c \in Cores, ResumeWait(c)
  PROVE  WInv'
<1>1. IInv /\ IInv'
  BY ResumeWaitKeepsIInv, WInvParts
<1>2. /\ pc[c] = "wait"
      /\ UNCHANGED <<taskQueue, currentTask, restoreFrame, timerEntries, unblockQueue, nextPid,
                     found>>
  BY Zenon DEF ResumeWait, locals
<1>3. \A d \in Cores \ {c} : pc'[d] = pc[d]
  BY Zenon, <1>1, IInvParts DEF ResumeWait, Locked, Goto, TypeOK
<1>4. pc'[c] = "reap" =>
        Queued(currentTask[c].rax) /\ GetTask(currentTask[c].rax).state = "Terminated"
  BY Zenon, <1>1, IInvParts DEF ResumeWait, Locked, Goto, TypeOK
<1>5. OthersStay(c) /\ Waiting' = Waiting /\ SameTimers
  BY Zenon, <1>2, <1>3 DEF OthersStay, Owns, Running, Waiting, SameTimers
<1>6. Owns(c) /\ currentTask[c].state = "Normal"
  BY Zenon, <1>1, <1>2, IInvParts DEF Owns, InKernelOfTask, LocalInv
<1>7. Families'
  BY Zenon, <1>2, <1>5, <1>6, OwnFamily DEF ChildrenOf
<1>8. Waits' /\ BlockedStay("sleep") /\ BlockedStay("read")
  BY Zenon, <1>2, <1>5, <1>6, CallStep DEF BlockedIn
<1>9. Timers' /\ Readers'
  BY Zenon, <1>1, <1>2, <1>5, <1>8, TimersKept, ReadersKept, WInvParts
<1>10. Reaping'
  <2>1. pc'[c] = "reap" =>
          \E z \in Waiting : z.pid = currentTask[c].rax /\ z.state = "Terminated"
    BY Zenon, <1>1, <1>4, GetTaskProperties
  <2>2. QED
    BY Zenon, <1>2, <1>3, <1>5, <2>1, WInvParts DEF Reaping
<1>11. QED
  BY Zenon, <1>1, <1>7, <1>8, <1>9, <1>10 DEF WInv

(* WaitForChild suspends the task only when no child it waits for has      *)
(* exited, and otherwise goes on to reap a zombie.                         *)
LEMMA WaitForChildKeepsWInv ==
  ASSUME WInv, NEW c \in Cores, NEW pid \in WaitPids, WaitForChild(c, pid)
  PROVE  WInv'
<1> DEFINE children == currentTask[c].childrenPids
           Ends(p) == Queued(p) => GetTask(p).state = "Terminated" /\ pid \in {0, p}
<1>1. IInv /\ IInv'
  BY WaitForChildKeepsIInv, WInvParts
<1>2. /\ Running(c)
      /\ UNCHANGED <<taskQueue, restoreFrame, timerEntries, unblockQueue, nextPid, found>>
  BY Zenon DEF WaitForChild, locals
<1>3. Owns(c) /\ currentTask[c].state = "Normal" /\ SameTimers
  BY Zenon, <1>1, <1>2, IInvParts DEF Owns, Running, LocalInv, SameTimers
<1>4. ASSUME \A k \in DOMAIN children : ~Ends(children[k]),
             Suspend(c, "WaitingForChild", pid, "wait")
      PROVE  WInv'
  <2>1. pid \in Pids /\ "WaitingForChild" \in States
    BY SMTT(30), SchedulerAssumption DEF Pids, States
  <2>2. /\ OthersStay(c) /\ Waiting' = Waiting
        /\ Owns(c)' /\ pc'[c] = "save"
        /\ LET s == currentTask'[c]
               t == currentTask[c] IN
             /\ s.pid = t.pid /\ s.parentPid = t.parentPid
             /\ s.childrenPids = t.childrenPids /\ s.rax = t.rax
             /\ s.state = "WaitingForChild" /\ s.suspensionArg = pid /\ s.resume = "wait"
    BY <1>1, <1>2, <1>4, <2>1, SuspendTask
  <2>3. Families'
    BY Zenon, <1>2, <1>3, <2>2, OwnFamily DEF ChildrenOf
  <2>4. Reaping' /\ BlockedStay("sleep") /\ BlockedStay("read")
    BY Zenon, <1>3, <2>2, CallStep DEF BlockedIn
  <2>5. Timers' /\ Readers'
    BY ZenonT(30), <1>1, <1>2, <1>3, <2>4, TimersKept, ReadersKept, WInvParts
  <2>6. \A s \in Live' : s = currentTask'[c] \/ s \in Live
    <3>1. \A s \in Live' : s \in Waiting' \/ \E d \in Cores : Owns(d)' /\ s = currentTask'[d]
      BY Zenon DEF Live, At
    <3>2. QED
      BY <1>1, <2>2, <3>1, LiveProperties DEF OthersStay
  <2>7. ASSUME NEW u \in Live, u.state = "Terminated", u.pid \in ChildrenOf(currentTask[c])
        PROVE  pid \notin {0, u.pid}
    <3>1. ~Ends(u.pid)
      BY Zenon, <1>4, <2>7 DEF ChildrenOf
    <3>2. GetTask(u.pid) \in Waiting /\ GetTask(u.pid).pid = u.pid
      BY Zenon, <1>1, <3>1, GetTaskProperties
    <3>3. u = GetTask(u.pid)
      BY Zenon, <1>1, <3>2, LiveProperties
    <3>4. QED
      BY Zenon, <2>7, <3>1, <3>3
  <2>8. Waits'
    <3> SUFFICES ASSUME NEW s \in Live', NEW u \in Live', s.state = "WaitingForChild",
                        u.state = "Terminated", u.pid \in ChildrenOf(s)
                 PROVE  s.suspensionArg \notin {0, u.pid}
      BY Zenon DEF Waits, ChildrenOf
    <3>1. u \in Live
      BY ZenonT(30), <2>2, <2>6
    <3>2. CASE s = currentTask'[c]
      BY <2>2, <2>7, <3>1, <3>2 DEF ChildrenOf
    <3>3. CASE s \in Live
      BY Zenon, <3>1, <3>3, WInvParts DEF Waits
    <3>4. QED
      BY Zenon, <2>6, <3>2, <3>3
  <2>9. QED
    BY Zenon, <1>1, <2>3, <2>4, <2>5, <2>8 DEF WInv
<1>5. ASSUME NEW k \in DOMAIN children, Ends(children[k]),
             Locked(c, Queued(children[k]), "reap", "panicChild"),
             currentTask' = [currentTask EXCEPT ![c].rax = children[k], ![c].home = c]
      PROVE  WInv'
  <2> DEFINE t == [currentTask[c] EXCEPT !.rax = children[k], !.home = c]
  <2>1. currentTask[c] \in Task
    BY Zenon, <1>1, IInvParts DEF TypeOK
  <2>2. /\ t.pid = currentTask[c].pid /\ t.parentPid = currentTask[c].parentPid
        /\ t.childrenPids = children /\ t.rax = children[k] /\ t.state = currentTask[c].state
    BY Zenon, <2>1 DEF Task
  <2>3. currentTask' = [currentTask EXCEPT ![c] = t]
    BY Zenon, <1>5
  <2> HIDE DEF t
  <2>4. /\ currentTask'[c] = t
        /\ \A d \in Cores \ {c} : currentTask'[d] = currentTask[d] /\ pc'[d] = pc[d]
        /\ pc'[c] = "reap" => Queued(children[k])
    BY ZenonT(30), <1>1, <1>5, <2>3, IInvParts DEF Locked, Goto, TypeOK
  <2>5. OthersStay(c) /\ Waiting' = Waiting
    BY ZenonT(30), <1>2, <2>4 DEF OthersStay, Owns, Running, Waiting
  <2>6. Families'
    BY <1>2, <1>3, <2>2, <2>4, <2>5, OwnFamily DEF ChildrenOf
  <2>7. Waits' /\ BlockedStay("sleep") /\ BlockedStay("read")
    BY Zenon, <1>3, <2>2, <2>4, <2>5, CallStep DEF BlockedIn
  <2>8. Timers' /\ Readers'
    BY ZenonT(30), <1>1, <1>2, <1>3, <2>7, TimersKept, ReadersKept, WInvParts
  <2>9. Reaping'
    <3>1. pc'[c] = "reap" =>
            \E z \in Waiting : z.pid = children[k] /\ z.state = "Terminated"
      BY Zenon, <1>1, <1>5, <2>4, GetTaskProperties
    <3>2. QED
      BY <2>2, <2>4, <2>5, <3>1, WInvParts DEF Reaping
  <2>10. QED
    BY Zenon, <1>1, <2>6, <2>7, <2>8, <2>9 DEF WInv
<1>6. QED
  BY ZenonT(30), <1>4, <1>5 DEF WaitForChild, IsFirst

(* The first task exits: it is nobody's child, so nobody waits for it.     *)
LEMMA ExitInitKeepsWInv ==
  ASSUME WInv, NEW c \in Cores, ExitInit(c)
  PROVE  WInv'
<1> DEFINE t == [currentTask[c] EXCEPT !.state = "Terminated"]
<1>1. IInv /\ IInv'
  BY ExitInitKeepsIInv, WInvParts
<1>2. /\ Running(c) /\ currentTask[c].pid = 1
      /\ currentTask' = [currentTask EXCEPT ![c] = t]
      /\ pc' = [pc EXCEPT ![c] = "save"]
      /\ UNCHANGED <<taskQueue, restoreFrame, timerEntries, unblockQueue, nextPid, found>>
  BY Zenon DEF ExitInit, Goto, locals
<1>3. currentTask[c] \in Task
  BY <1>1, IInvParts DEF TypeOK
<1>4. /\ t.pid = currentTask[c].pid /\ t.parentPid = currentTask[c].parentPid
      /\ t.childrenPids = currentTask[c].childrenPids /\ t.rax = currentTask[c].rax
      /\ t.state = "Terminated"
  BY Zenon, <1>3 DEF Task
<1> HIDE DEF t
<1>5. /\ currentTask'[c] = t /\ pc'[c] = "save"
      /\ \A d \in Cores \ {c} : currentTask'[d] = currentTask[d] /\ pc'[d] = pc[d]
  BY Zenon, <1>1, <1>2, IInvParts DEF TypeOK
<1>6. OthersStay(c) /\ Waiting' = Waiting /\ SameTimers
  BY <1>2, <1>5 DEF OthersStay, Owns, Running, Waiting, SameTimers
<1>7. Owns(c) /\ currentTask[c].state = "Normal"
  BY Zenon, <1>1, <1>2, IInvParts DEF Owns, Running, LocalInv
<1>8. Families'
  <2>1. /\ ChildrenOf(currentTask'[c]) = ChildrenOf(currentTask[c])
        /\ currentTask'[c].pid = currentTask[c].pid
        /\ currentTask'[c].parentPid = currentTask[c].parentPid
        /\ currentTask'[c].rax = currentTask[c].rax
    BY Zenon, <1>4, <1>5 DEF ChildrenOf
  <2>2. nextPid' = nextPid /\ Waiting' \subseteq Waiting
    BY Zenon, <1>2, <1>6
  <2>3. QED
    BY Zenon, <1>6, <1>7, <2>1, <2>2, OwnFamily
<1>9. Reaping' /\ BlockedStay("sleep") /\ BlockedStay("read")
  BY Zenon, <1>4, <1>5, <1>6, <1>7, CallStep DEF BlockedIn
<1>10. Timers' /\ Readers'
  BY Zenon, <1>1, <1>2, <1>6, <1>9, TimersKept, ReadersKept, WInvParts
<1>11. \A s \in Live' : s = t \/ s \in Live
  <2>1. \A s \in Live' : s \in Waiting' \/ \E d \in Cores : Owns(d)' /\ s = currentTask'[d]
    BY Zenon DEF Live, At
  <2>2. QED
    BY <1>1, <1>5, <1>6, <2>1, LiveProperties DEF OthersStay
<1>12. Waits'
  <2> SUFFICES ASSUME NEW s \in Live', NEW u \in Live', s.state = "WaitingForChild",
                      u.state = "Terminated", u.pid \in ChildrenOf(s)
               PROVE  s.suspensionArg \notin {0, u.pid}
    BY Zenon DEF Waits, ChildrenOf
  <2>1. s \in Live
    BY Zenon, <1>4, <1>11
  <2>2. CASE u = t
    BY <1>2, <1>4, <2>1, <2>2, WInvParts DEF Families
  <2>3. CASE u \in Live
    BY Zenon, <2>1, <2>3, WInvParts DEF Waits
  <2>4. QED
    BY Zenon, <1>11, <2>2, <2>3
<1>13. QED
  BY Zenon, <1>1, <1>8, <1>9, <1>10, <1>12 DEF WInv

(* A task that exits wakes its parent, if that waits for it.  A parent     *)
(* that is on its way to the queue is not found there: the core panics,    *)
(* and the zombie never appears.                                           *)
LEMMA ExitCurrentTaskKeepsWInv ==
  ASSUME WInv, NEW c \in Cores, ExitCurrentTask(c)
  PROVE  WInv'
<1> DEFINE pid == currentTask[c].pid
           parent == currentTask[c].parentPid
           g == GetTask(parent)
           t == [currentTask[c] EXCEPT !.state = "Terminated"]
<1>1. IInv /\ IInv'
  BY ExitCurrentTaskKeepsIInv, WInvParts
<1>2. /\ Running(c)
      /\ currentTask' = [currentTask EXCEPT ![c] = t]
      /\ pc' = [pc EXCEPT ![c] = IF Queued(parent) THEN "save" ELSE "panicParent"]
      /\ taskQueue' = IF Queued(parent) /\ WaitsFor(g, pid) THEN Unsuspended(parent, pid)
                                                           ELSE taskQueue
      /\ UNCHANGED <<restoreFrame, timerEntries, unblockQueue, nextPid, found>>
  BY Zenon DEF ExitCurrentTask, Locked, Goto, locals
<1>3. currentTask[c] \in Task
  BY <1>1, IInvParts DEF TypeOK
<1>4. /\ t.pid = pid /\ t.parentPid = parent
      /\ t.childrenPids = currentTask[c].childrenPids /\ t.rax = currentTask[c].rax
      /\ t.state = "Terminated"
  BY Zenon, <1>3 DEF Task
<1> HIDE DEF t
<1>5. /\ currentTask'[c] = t /\ pc'[c] = IF Queued(parent) THEN "save" ELSE "panicParent"
      /\ \A d \in Cores \ {c} : currentTask'[d] = currentTask[d] /\ pc'[d] = pc[d]
  BY Zenon, <1>1, <1>2, IInvParts DEF TypeOK
<1>6. OthersStay(c) /\ SameTimers
  BY Zenon, <1>2, <1>5 DEF OthersStay, Owns, Running, SameTimers
<1>7. Owns(c) /\ currentTask[c].state = "Normal" /\ currentTask[c] \in Live
  BY ZenonT(30), <1>1, <1>2, LiveProperties, IInvParts DEF Owns, Running, LocalInv
<1>8. Queued(parent) => g \in Waiting /\ g \in Live /\ g.pid = parent
  BY Zenon, <1>1, GetTaskProperties, LiveProperties
<1>9. CASE ~(Queued(parent) /\ WaitsFor(g, pid))
  <2>1. Waiting' = Waiting
    BY Zenon, <1>2, <1>9 DEF Waiting
  <2>2. Families'
    <3>1. /\ ChildrenOf(currentTask'[c]) = ChildrenOf(currentTask[c])
          /\ currentTask'[c].pid = currentTask[c].pid
          /\ currentTask'[c].parentPid = currentTask[c].parentPid
          /\ currentTask'[c].rax = currentTask[c].rax
      BY Zenon, <1>4, <1>5 DEF ChildrenOf
    <3>2. nextPid' = nextPid /\ Waiting' \subseteq Waiting
      BY Zenon, <1>2, <2>1
    <3>3. QED
      BY Zenon, <1>6, <1>7, <3>1, <3>2, OwnFamily
  <2>3. /\ Reaping' /\ BlockedStay("sleep") /\ BlockedStay("read")
        /\ ~Owns(c)' => Waits'
    BY Zenon, <1>4, <1>5, <1>6, <1>7, <2>1, CallStep DEF BlockedIn
  <2>4. Timers' /\ Readers'
    BY Zenon, <1>1, <1>2, <1>6, <2>3, TimersKept, ReadersKept, WInvParts
  <2>5. CASE Queued(parent)
    <3>1. \A s \in Live' : s = t \/ s \in Live
      <4>1. \A s \in Live' : s \in Waiting' \/ \E d \in Cores : Owns(d)' /\ s = currentTask'[d]
        BY DEF Live, At
      <4>2. QED
        BY <1>1, <1>5, <1>6, <2>1, <4>1, LiveProperties DEF OthersStay
    <3> SUFFICES ASSUME NEW s \in Live', NEW u \in Live', s.state = "WaitingForChild",
                        u.state = "Terminated", u.pid \in ChildrenOf(s)
                 PROVE  s.suspensionArg \notin {0, u.pid}
      BY Zenon, <1>1, <2>2, <2>3, <2>4 DEF WInv, Waits, ChildrenOf
    <3>2. s \in Live
      BY Zenon, <1>4, <3>1
    <3>3. CASE u = t
      <4>1. s.pid = parent
        BY Zenon, <1>4, <1>7, <3>2, <3>3, WInvParts DEF Families
      <4>2. s = g
        BY Zenon, <1>1, <1>8, <2>5, <3>2, <4>1, LiveProperties
      <4>3. QED
        BY Zenon, <1>4, <1>9, <2>5, <3>3, <4>2 DEF WaitsFor
    <3>4. CASE u \in Live
      BY <3>2, <3>4, WInvParts DEF Waits
    <3>5. QED
      BY SMTT(30), <3>1, <3>3, <3>4
  <2>6. CASE ~Queued(parent)
    <3>1. ~Owns(c)'
      BY Zenon, <1>5, <2>6 DEF Owns, Running, InKernelOfTask
    <3>2. QED
      BY Zenon, <1>1, <2>2, <2>3, <2>4, <3>1 DEF WInv
  <2>7. QED
    BY Zenon, <2>5, <2>6
<1>10. CASE Queued(parent) /\ WaitsFor(g, pid)
  <2>1. pid \in Pids /\ pid < nextPid
    BY Zenon, <1>1, <1>3, IInvParts DEF Task, LocalInv
  <2>2. taskQueue' = Unsuspended(parent, pid)
    BY Zenon, <1>2, <1>10
  <2>3. g \in Waiting /\ g \in Live /\ g.pid = parent /\ g.state = "WaitingForChild"
    BY Zenon, <1>8, <1>10 DEF WaitsFor
  <2> HIDE DEF pid, parent
  <2>4. PICK w \in Task :
          /\ Waiting' = (Waiting \ {g}) \cup {w}
          /\ w.state = "Normal" /\ w.rax = pid /\ w.pid = parent
          /\ w.parentPid = g.parentPid /\ w.childrenPids = g.childrenPids
    <3>1. IInv /\ Queued(parent) /\ pid \in Pids
      BY Zenon, <1>1, <1>10, <2>1
    <3>2. \E w \in Task :
            /\ Waiting' = (Waiting \ {GetTask(parent)}) \cup {w}
            /\ w.state = "Normal" /\ w.rax = pid /\ w.pid = parent
            /\ w.parentPid = GetTask(parent).parentPid
            /\ w.childrenPids = GetTask(parent).childrenPids
            /\ w.resume = GetTask(parent).resume
            /\ w.suspensionArg = GetTask(parent).suspensionArg
      BY Zenon, <2>2, <3>1, WaitingUnsuspended
    <3>3. QED
      BY Zenon, <3>2
  <2> HIDE DEF g
  <2>5. \A s \in Live' : s = t \/ s = w \/ s \in Live \ {g}
    <3>1. \A s \in Live' : s \in Waiting' \/ \E d \in Cores : Owns(d)' /\ s = currentTask'[d]
      BY Zenon DEF Live, At
    <3>2. \A d \in Cores : Owns(d) => currentTask[d] \in Live \ {g}
      BY Zenon, <1>1, <2>3, LiveProperties
    <3>3. \A s \in Waiting' : s = w \/ s \in Live \ {g}
      BY Zenon, <1>1, <2>4, LiveProperties
    <3>4. QED
      BY <1>5, <1>6, <3>1, <3>2, <3>3 DEF OthersStay
  <2>6. Families'
    <3>1. \A u \in Live : u.pid = pid => u = currentTask[c]
      BY Zenon, <1>1, <1>7, LiveProperties DEF pid
    <3>2. /\ ChildrenOf(w) = ChildrenOf(g) /\ ChildrenOf(t) = ChildrenOf(currentTask[c])
      BY Zenon, <1>4, <2>4 DEF ChildrenOf
    <3>3. \A s \in Live' :
            \E v \in Live : /\ v.pid = s.pid /\ v.parentPid = s.parentPid
                            /\ ChildrenOf(s) \subseteq ChildrenOf(v)
      BY Zenon, <1>4, <1>7, <2>3, <2>4, <2>5, <3>2 DEF pid, parent
    <3>4. \A s \in Live' : s.rax < nextPid /\ \A u \in Live : u.pid = s.rax => u.parentPid = s.pid
      <4>1. \A s \in Live : s.rax < nextPid /\ \A u \in Live : u.pid = s.rax => u.parentPid = s.pid
        BY Zenon, WInvParts DEF Families
      <4>2. w.rax < nextPid /\ \A u \in Live : u.pid = w.rax => u.parentPid = w.pid
        BY Zenon, <2>1, <2>4, <3>1 DEF parent
      <4>3. t.rax < nextPid /\ \A u \in Live : u.pid = t.rax => u.parentPid = t.pid
        BY Zenon, <1>4, <1>7, <4>1 DEF pid
      <4>4. QED
        BY Zenon, <2>5, <4>1, <4>2, <4>3
    <3>5. QED
      BY Zenon, <1>1, <1>2, <3>3, <3>4, FamiliesKept, WInvParts
  <2>7. Waits'
    <3> SUFFICES ASSUME NEW s \in Live', NEW u \in Live', s.state = "WaitingForChild",
                        u.state = "Terminated", u.pid \in ChildrenOf(s)
                 PROVE  s.suspensionArg \notin {0, u.pid}
      BY Zenon DEF Waits, ChildrenOf
    <3>1. s \in Live \ {g} /\ u # w
      BY Zenon, <1>4, <2>4, <2>5
    <3>2. u # t
      <4>1. u = t => s.pid = parent
        BY Zenon, <1>4, <1>7, <3>1, WInvParts DEF Families, pid, parent
      <4>2. s.pid = parent => s = g
        BY Zenon, <1>1, <2>3, <3>1, LiveProperties
      <4>3. QED
        BY Zenon, <3>1, <4>1, <4>2
    <3>3. u \in Live
      BY Zenon, <2>5, <3>1, <3>2
    <3>4. QED
      BY Zenon, <3>1, <3>3, WInvParts DEF Waits
  <2>8. ASSUME NEW kind PROVE BlockedStay(kind)
    <3>1. \A d \in Cores : \A s \in At(d) : BlockedIn(s, kind) => s \in At(d)'
      BY Zenon, <1>6, <1>7, <2>3, <2>4 DEF At, OthersStay, BlockedIn
    <3>2. \A s \in Waiting' : BlockedIn(s, kind) => s \in Live
      BY Zenon, <1>1, <2>4, LiveProperties DEF BlockedIn
    <3>3. QED
      BY Zenon, <1>4, <1>5, <1>6, <3>1, <3>2 DEF BlockedStay, BlockedIn, Same, OthersStay
  <2>9. Timers' /\ Readers'
    BY Zenon, <1>1, <1>2, <1>6, <2>8, TimersKept, ReadersKept, WInvParts
  <2>10. Reaping'
    <3>1. pc'[c] # "reap" /\ \A z \in Waiting : z.state = "Terminated" => z \in Waiting'
      BY Zenon, <1>5, <2>3, <2>4
    <3>2. \A d \in Cores \ {c} : pc'[d] = pc[d] /\ currentTask'[d] = currentTask[d]
      BY Zenon, <1>5
    <3>3. QED
      BY Zenon, <3>1, <3>2, ReapingKept, WInvParts
  <2>11. QED
    BY Zenon, <1>1, <2>6, <2>7, <2>9, <2>10 DEF WInv
<1>11. QED
  BY Zenon, <1>9, <1>10

(* Fork creates a Normal task with a fresh pid, under the task that forks. *)
LEMMA ForkCurrentTaskKeepsWInv ==
  ASSUME WInv, NEW c \in Cores, ForkCurrentTask(c)
  PROVE  WInv'
<1> DEFINE child == NewTask(nextPid, currentTask[c].pid)
           children == currentTask[c].childrenPids
           t == [currentTask[c] EXCEPT !.childrenPids = Append(children, nextPid)]
<1>1. IInv /\ IInv'
  BY ForkCurrentTaskKeepsIInv, WInvParts
<1>2. /\ Running(c) /\ nextPid <= MaxPid
      /\ pc' = [pc EXCEPT ![c] = "user"]
      /\ taskQueue' = Append(taskQueue, child)
      /\ currentTask' = [currentTask EXCEPT ![c] = t]
      /\ nextPid' = nextPid + 1
      /\ UNCHANGED <<restoreFrame, timerEntries, unblockQueue, found>>
  BY Zenon DEF ForkCurrentTask, Locked, Goto, locals
<1>3. nextPid \in Pids /\ nextPid \in Nat /\ nextPid >= 2
  BY SMTT(30), <1>1, <1>2, SchedulerAssumption, IInvParts DEF TypeOK, Pids
<1>4. currentTask[c] \in Task /\ children \in Seq(Pids)
  BY Zenon, <1>1, IInvParts DEF TypeOK, Task
<1>5. /\ t.pid = currentTask[c].pid /\ t.parentPid = currentTask[c].parentPid
      /\ t.childrenPids = Append(children, nextPid)
      /\ t.rax = currentTask[c].rax /\ t.state = currentTask[c].state
  BY Zenon, <1>4 DEF Task
<1>6. ChildrenOf(t) = ChildrenOf(currentTask[c]) \cup {nextPid}
  <2> DEFINE s == Append(children, nextPid)
  <2>1. /\ DOMAIN children = 1..Len(children) /\ Len(children) \in Nat
        /\ DOMAIN s = 1..(Len(children) + 1) /\ s[Len(children) + 1] = nextPid
        /\ \A j \in 1..Len(children) : s[j] = children[j]
    BY SMTT(30), <1>3, <1>4
  <2>2. \A j \in DOMAIN s : j \in DOMAIN children \/ j = Len(children) + 1
    BY <2>1
  <2>3. DOMAIN children \subseteq DOMAIN s /\ Len(children) + 1 \in DOMAIN s
    BY SMTT(30), <2>1
  <2> HIDE DEF s
  <2>4. QED
    BY SMTT(30), <1>5, <2>1, <2>2, <2>3 DEF ChildrenOf, s
<1>7. /\ child \in Task /\ child.pid = nextPid /\ child.parentPid = currentTask[c].pid
      /\ child.state = "Normal" /\ child.rax = 0 /\ child.childrenPids = <<>>
  BY <1>3, <1>4, SchedulerAssumption DEF NewTask, Task, Pids, States
<1> HIDE DEF child, t
<1>8. Waiting' = Waiting \cup {child}
  BY Zenon, <1>1, <1>2, <1>7, WaitingPush
<1>9. /\ currentTask'[c] = t /\ pc'[c] = "user"
      /\ \A d \in Cores \ {c} : currentTask'[d] = currentTask[d] /\ pc'[d] = pc[d]
  BY Zenon, <1>1, <1>2, IInvParts DEF TypeOK
<1>10. OthersStay(c) /\ SameTimers
  BY Zenon, <1>2, <1>9 DEF OthersStay, Owns, Running, SameTimers
<1>11. Owns(c) /\ currentTask[c].state = "Normal" /\ currentTask[c] \in Live
  BY ZenonT(30), <1>1, <1>2, LiveProperties, IInvParts DEF Owns, Running, LocalInv
<1>12. Waits' /\ Reaping' /\ BlockedStay("sleep") /\ BlockedStay("read")
  BY Zenon, <1>5, <1>7, <1>8, <1>9, <1>10, <1>11, CallStep DEF BlockedIn
<1>13. Timers' /\ Readers'
  BY Zenon, <1>1, <1>2, <1>10, <1>12, TimersKept, ReadersKept, WInvParts
<1>14. Families'
  <2>1. \A s \in Live' : s = t \/ s = child \/ s \in Live
    <3>1. \A s \in Live' : s \in Waiting' \/ \E d \in Cores : Owns(d)' /\ s = currentTask'[d]
      BY DEF Live, At
    <3>2. QED
      BY SMTT(30), <1>1, <1>8, <1>9, <1>10, <3>1, LiveProperties DEF OthersStay
  <2>2. ChildrenOf(child) = {}
    BY <1>7 DEF ChildrenOf
  <2>3. \A s \in Live : /\ s.pid \in Nat /\ s.pid < nextPid /\ s.pid # 0
                        /\ s.rax \in Nat /\ s.rax < nextPid
                        /\ ChildrenOf(s) \subseteq 2..(nextPid - 1)
    <3>1. \A s \in Task : s.pid \in Nat /\ s.rax \in Nat
      BY SMTT(30) DEF Task, Pids
    <3>2. QED
      BY Zenon, <1>1, <3>1, LiveProperties, WInvParts DEF Families
  <2>4. \A s \in Live' : ChildrenOf(s) \subseteq 2..(nextPid' - 1) /\ s.rax < nextPid'
    BY SMTT(30), <1>2, <1>3, <1>5, <1>6, <1>7, <1>11, <2>1, <2>2, <2>3
  <2>5. ASSUME NEW s \in Live', NEW u \in Live', u.pid \in ChildrenOf(s) \/ u.pid = s.rax
        PROVE  u.parentPid = s.pid
    <3>1. PICK v \in Live : u = child \/ (v.pid = u.pid /\ v.parentPid = u.parentPid)
      BY Zenon, <1>5, <1>11, <2>1
    <3>2. CASE u = child
      <4>1. s \in Live => nextPid \notin ChildrenOf(s) /\ nextPid # s.rax
        BY <1>3, <2>3
      <4>2. s = child => nextPid \notin ChildrenOf(s) /\ nextPid # s.rax
        BY SMTT(30), <1>3, <1>7, <2>2
      <4>3. s = t
        BY Zenon, <1>7, <2>1, <2>5, <3>2, <4>1, <4>2
      <4>4. QED
        BY Zenon, <1>5, <1>7, <3>2, <4>3
    <3>3. CASE u # child
      <4>1. v.pid = u.pid /\ v.parentPid = u.parentPid
        BY Zenon, <3>1, <3>3
      <4>2. CASE s \in Live
        BY Zenon, <2>5, <4>1, <4>2, WInvParts DEF Families
      <4>3. CASE s = child
        BY Zenon, <1>7, <2>2, <2>3, <2>5, <4>1, <4>3
      <4>4. CASE s = t
        <5>1. v.pid \in ChildrenOf(currentTask[c]) \/ v.pid = currentTask[c].rax
          BY SMTT(30), <1>3, <1>5, <1>6, <2>3, <2>5, <4>1, <4>4
        <5>2. QED
          BY Zenon, <1>5, <1>11, <4>1, <4>4, <5>1, WInvParts DEF Families
      <4>5. QED
        BY Zenon, <2>1, <4>2, <4>3, <4>4
    <3>4. QED
      BY Zenon, <3>2, <3>3
  <2>6. QED
    BY ZenonT(30), <2>4, <2>5 DEF Families, ChildrenOf
<1>15. QED
  BY Zenon, <1>1, <1>12, <1>13, <1>14 DEF WInv

(* Execute replaces a Normal task by one that has no children.             *)
LEMMA ExecuteKeepsWInv ==
  ASSUME WInv, NEW c \in Cores, Execute(c)
  PROVE  WInv'
<1> DEFINE t == NewTask(currentTask[c].pid, currentTask[c].parentPid)
<1>1. IInv /\ IInv'
  BY ExecuteKeepsIInv, WInvParts
<1>2. /\ Running(c)
      /\ pc' = [pc EXCEPT ![c] = "save"]
      /\ taskQueue' = Append(taskQueue, t)
      /\ restoreFrame' = [restoreFrame EXCEPT ![c] = FALSE]
      /\ UNCHANGED <<currentTask, timerEntries, unblockQueue, nextPid, found>>
  BY Zenon DEF Execute, Locked, Goto, locals
<1>3. currentTask[c] \in Task
  BY <1>1, IInvParts DEF TypeOK
<1>4. /\ t \in Task /\ t.pid = currentTask[c].pid /\ t.parentPid = currentTask[c].parentPid
      /\ t.state = "Normal" /\ t.rax = 0 /\ t.childrenPids = <<>>
  BY SMTT(30), <1>3, SchedulerAssumption DEF NewTask, Task, Pids, States
<1> HIDE DEF t
<1>5. Waiting' = Waiting \cup {t}
  BY Zenon, <1>1, <1>2, <1>4, WaitingPush
<1>6. /\ pc'[c] = "save" /\ ~restoreFrame'[c]
      /\ \A d \in Cores \ {c} : pc'[d] = pc[d] /\ restoreFrame'[d] = restoreFrame[d]
  BY Zenon, <1>1, <1>2, IInvParts DEF TypeOK
<1>7. OthersStay(c) /\ SameTimers /\ ~Owns(c)'
  BY Zenon, <1>2, <1>6 DEF OthersStay, Owns, Running, SameTimers, InKernelOfTask
<1>8. Owns(c) /\ currentTask[c].state = "Normal" /\ currentTask[c] \in Live
  BY ZenonT(30), <1>1, <1>2, LiveProperties, IInvParts DEF Owns, Running, LocalInv
<1>9. Waits' /\ Reaping' /\ BlockedStay("sleep") /\ BlockedStay("read")
  BY Zenon, <1>4, <1>5, <1>6, <1>7, <1>8, CallStep DEF BlockedIn
<1>10. Timers' /\ Readers'
  BY Zenon, <1>1, <1>2, <1>7, <1>9, TimersKept, ReadersKept, WInvParts
<1>11. Families'
  <2>1. \A s \in Live' : s = t \/ s \in Live
    <3>1. \A s \in Live' : s \in Waiting' \/ \E d \in Cores : Owns(d)' /\ s = currentTask'[d]
      BY DEF Live, At
    <3>2. QED
      BY Zenon, <1>1, <1>2, <1>5, <1>7, <3>1, LiveProperties DEF OthersStay
  <2>2. ChildrenOf(t) = {}
    BY SMTT(30), <1>4 DEF ChildrenOf
  <2>3. 0 < nextPid /\ \A u \in Live : u.pid # 0
    <3>1. 0 < nextPid
      BY <1>1, SchedulerAssumption, IInvParts DEF TypeOK
    <3>2. QED
      BY Zenon, <1>1, <3>1, LiveProperties
  <2>4. QED
    BY Zenon, <1>1, <1>2, <1>4, <1>8, <2>1, <2>2, <2>3, FamiliesKept, WInvParts DEF Families
<1>12. QED
  BY <1>1, <1>9, <1>10, <1>11 DEF WInv

(* WaitForChild takes its zombie from the queue.  The scheduler it started *)
(* on may by now have another task, which can only lose a child.           *)
ReapAgrees(c) ==
  /\ pc'[c] \in {"user", "panicRemoved"} /\ \A d \in Cores \ {c} : pc'[d] = pc[d]
  /\ \A d \in Cores :
       LET s == currentTask'[d]
           t == currentTask[d] IN
         /\ s.pid = t.pid /\ s.parentPid = t.parentPid /\ s.state = t.state
         /\ s.suspensionArg = t.suspensionArg /\ ChildrenOf(s) \subseteq ChildrenOf(t)
         /\ d # c => s.rax = t.rax /\ s.resume = t.resume
         /\ s.rax \in {t.rax, 0}

(* Vector::Pop leaves no element that was not there.                       *)
LEMMA ReapChildAgrees ==
  ASSUME IInv, NEW c \in Cores, ReapChild(c)
  PROVE  ReapAgrees(c)
<1> DEFINE childPid == currentTask[c].rax
           home == currentTask[c].home
           children == currentTask[home].childrenPids
<1>1. currentTask \in [Cores -> Task] /\ pc[c] = "reap" /\ DOMAIN pc = Cores
  BY Zenon, IInvParts DEF TypeOK, ReapChild
<1>2. home \in Cores /\ children \in Seq(Pids)
  BY Zenon, <1>1 DEF Task
<1>3. CASE UNCHANGED currentTask /\ Goto(c, "panicRemoved")
  BY Zenon, <1>1, <1>3, IInvParts DEF Goto, ReapAgrees, TypeOK
<1>4. ASSUME NEW m \in DOMAIN children, Goto(c, "user"),
             currentTask' = [currentTask EXCEPT
               ![home].childrenPids = Pop(@, m),
               ![c].resume = "user", ![c].rax = 0, ![c].home = Bsp]
      PROVE  ReapAgrees(c)
  <2> DEFINE rest == Pop(children, m)
             th == [currentTask[home] EXCEPT !.childrenPids = rest]
             f == [currentTask EXCEPT ![home] = th]
             tc == [f[c] EXCEPT !.resume = "user", !.rax = 0, !.home = Bsp]
             Agree(s, t) == /\ s.pid = t.pid /\ s.parentPid = t.parentPid /\ s.state = t.state
                            /\ s.suspensionArg = t.suspensionArg
                            /\ ChildrenOf(s) \subseteq ChildrenOf(t)
  <2>1. rest \in Seq(Pids)
        /\ \A j \in DOMAIN rest : \E n \in DOMAIN children : rest[j] = children[n]
    <3>1. m \in 1..Len(children) /\ Len(children) \in Nat /\ DOMAIN children = 1..Len(children)
      BY SMTT(30), <1>2, <1>4
    <3>2. /\ rest \in Seq(Pids) /\ Len(rest) = Len(children) - 1
          /\ \A j \in 1..(Len(children) - 1) :
               rest[j] = IF j < m THEN children[j] ELSE children[j + 1]
      BY ZenonT(30), <1>2, <3>1, PopProperties
    <3>3. DOMAIN rest = 1..(Len(children) - 1)
      BY <3>1, <3>2
    <3> HIDE DEF rest, children
    <3>4. QED
      BY SMTT(30), <3>1, <3>2, <3>3
  <2> HIDE DEF rest
  <2>2. /\ th \in Task /\ th.pid = currentTask[home].pid
        /\ th.parentPid = currentTask[home].parentPid /\ th.state = currentTask[home].state
        /\ th.suspensionArg = currentTask[home].suspensionArg /\ th.childrenPids = rest
        /\ th.rax = currentTask[home].rax /\ th.resume = currentTask[home].resume
    <3>1. currentTask[home] \in Task /\ rest \in Seq(Pids)
      BY Zenon, <1>1, <1>2, <2>1
    <3> HIDE DEF home
    <3>2. th \in Task
      BY Zenon, <3>1 DEF Task
    <3>3. QED
      BY Zenon, <3>1, <3>2 DEF Task
  <2>3. currentTask' = [f EXCEPT ![c] = tc]
    BY Zenon, <1>1, <1>2, <1>4 DEF rest
  <2> HIDE DEF th
  <2>4. /\ f \in [Cores -> Task]
        /\ \A d \in Cores : /\ Agree(f[d], currentTask[d])
                            /\ f[d].rax = currentTask[d].rax
                            /\ f[d].resume = currentTask[d].resume
    <3>1. ChildrenOf(th) \subseteq ChildrenOf(currentTask[home])
      BY SMTT(30), <2>1, <2>2 DEF ChildrenOf
    <3>2. f \in [Cores -> Task] /\ f[home] = th
          /\ \A d \in Cores \ {home} : f[d] = currentTask[d]
      BY Zenon, <1>1, <1>2, <2>2
    <3>3. QED
      BY ZenonT(30), <2>2, <3>1, <3>2
  <2> HIDE DEF f
  <2>5. /\ tc.pid = f[c].pid /\ tc.parentPid = f[c].parentPid /\ tc.state = f[c].state
        /\ tc.suspensionArg = f[c].suspensionArg /\ tc.childrenPids = f[c].childrenPids
        /\ tc.rax = 0
    <3>1. f[c] \in Task
      BY Zenon, <2>4
    <3>2. QED
      BY Zenon, <3>1 DEF Task
  <2>6. ChildrenOf(tc) = ChildrenOf(f[c])
    BY SMTT(30), <2>5 DEF ChildrenOf
  <2> HIDE DEF tc
  <2>7. currentTask'[c] = tc /\ \A d \in Cores \ {c} : currentTask'[d] = f[d]
    BY Zenon, <2>3, <2>4
  <2>8. pc'[c] = "user" /\ \A d \in Cores \ {c} : pc'[d] = pc[d]
    BY Zenon, <1>4, IInvParts DEF Goto, TypeOK
  <2>9. Agree(currentTask'[c], currentTask[c]) /\ currentTask'[c].rax = 0
    BY Zenon, <2>4, <2>5, <2>6, <2>7
  <2>10. ASSUME NEW d \in Cores
         PROVE  /\ Agree(currentTask'[d], currentTask[d])
                /\ currentTask'[d].rax \in {currentTask[d].rax, 0}
                /\ d # c => /\ currentTask'[d].rax = currentTask[d].rax
                            /\ currentTask'[d].resume = currentTask[d].resume
    <3>1. CASE d = c
      BY Zenon, <2>9, <3>1
    <3>2. CASE d # c
      BY <2>4, <2>7, <3>2
    <3>3. QED
      BY ZenonT(30), <3>1, <3>2
  <2>11. QED
    BY Zenon, <2>8, <2>10 DEF ReapAgrees
<1>5. QED
  BY Zenon, <1>3, <1>4 DEF ReapChild

(* ReapChild: the zombie goes, and the other reapers have another one,     *)
(* since the parent of a task is one task and runs on one core.            *)
LEMMA ReapChildKeepsWInv ==
  ASSUME WInv, NEW c \in Cores, ReapChild(c)
  PROVE  WInv'
<1> DEFINE pid == currentTask[c].rax
           z == GetTask(pid)
<1>1. IInv /\ IInv' /\ ReapAgrees(c)
  BY Zenon, ReapChildKeepsIInv, ReapChildAgrees, WInvParts
<1>2. pc[c] = "reap" /\ UNCHANGED <<restoreFrame, timerEntries, unblockQueue, nextPid, found>>
  BY Zenon DEF ReapChild, locals
<1>3. Queued(pid) /\ z \in Waiting /\ z.pid = pid /\ z.state = "Terminated"
  BY Zenon, <1>1, <1>2, GetTaskProperties, WInvParts DEF Reaping
<1>4. Waiting' = Waiting \ {z}
  <2>1. taskQueue' = Pop(taskQueue, Position(pid))
    BY Zenon, <1>3 DEF ReapChild
  <2>2. Position(pid) \in 1..Len(taskQueue)
    BY Zenon, <1>1, <1>3, PositionProperties, IInvParts
  <2>3. QED
    BY Zenon, <1>1, <2>1, <2>2, WaitingPop DEF GetTask
<1>5. Owns(c) /\ currentTask[c].state = "Normal" /\ currentTask[c] \in Live
  BY ZenonT(30), <1>1, <1>2, LiveProperties, IInvParts DEF Owns, InKernelOfTask, LocalInv
<1>6. \A d \in Cores : d # c => (Owns(d)' <=> Owns(d))
  BY Zenon, <1>1, <1>2 DEF Owns, Running, ReapAgrees
<1> HIDE DEF z
<1>7. ASSUME NEW s \in Live'
      PROVE  \/ s \in Waiting
             \/ \E d \in Cores : Owns(d) /\ Owns(d)' /\ s = currentTask'[d]
  <2>1. s \in Waiting' \/ \E d \in Cores : Owns(d)' /\ s = currentTask'[d]
    BY Zenon DEF Live, At
  <2>2. QED
    BY Zenon, <1>4, <1>5, <1>6, <2>1
<1>8. \A s \in Live' :
        \E t \in Live : /\ t.pid = s.pid /\ t.parentPid = s.parentPid /\ t.state = s.state
                        /\ t.suspensionArg = s.suspensionArg
                        /\ ChildrenOf(s) \subseteq ChildrenOf(t)
                        /\ s.rax \in {t.rax, 0}
  BY SMTT(30), <1>1, <1>7, LiveProperties DEF ReapAgrees
<1>9. Families'
  <2>1. 0 < nextPid /\ \A u \in Live : u.pid # 0
    <3>1. 0 < nextPid
      BY <1>1, SchedulerAssumption, IInvParts DEF TypeOK
    <3>2. QED
      BY ZenonT(30), <1>1, <3>1, LiveProperties
  <2>2. \A s \in Live' : s.rax < nextPid /\ \A u \in Live : u.pid = s.rax => u.parentPid = s.pid
    BY <1>8, <2>1, WInvParts DEF Families
  <2>3. QED
    BY Zenon, <1>1, <1>2, <1>8, <2>2, FamiliesKept, WInvParts
<1>10. Waits'
  BY Zenon, <1>8, WaitsKept, WInvParts
<1>11. ASSUME NEW kind PROVE BlockedStay(kind)
  <2>1. \A d \in Cores : \A t \in At(d) : BlockedIn(t, kind) => \E s \in At(d)' : Same(s, t)
    <3> SUFFICES ASSUME NEW d \in Cores, NEW t \in At(d), BlockedIn(t, kind)
                 PROVE  \E s \in At(d)' : Same(s, t)
      BY Zenon
    <3>1. CASE t \in Waiting
      <4>1. t \in At(d)'
        BY Zenon, <1>3, <1>4, <3>1 DEF BlockedIn, At
      <4>2. QED
        BY Zenon, <4>1 DEF Same
    <3>2. CASE Owns(d) /\ t = currentTask[d]
      <4>1. d # c
        BY Zenon, <1>5, <3>2 DEF BlockedIn
      <4>2. currentTask'[d] \in At(d)'
        BY Zenon, <1>6, <3>2, <4>1 DEF At
      <4>3. QED
        BY Zenon, <1>1, <3>2, <4>1, <4>2 DEF Same, ReapAgrees
    <3>3. QED
      BY Zenon, <3>1, <3>2 DEF At
  <2>2. \A s \in Waiting' : s \in Live
    BY Zenon, <1>1, <1>4, LiveProperties
  <2>3. \A d \in Cores : Owns(d)' /\ BlockedIn(currentTask'[d], kind)
                           => Owns(d) /\ Same(currentTask'[d], currentTask[d])
    <3>1. \A d \in Cores : BlockedIn(currentTask'[d], kind) => d # c
      BY Zenon, <1>1, <1>5 DEF BlockedIn, ReapAgrees
    <3>2. QED
      BY Zenon, <1>1, <1>6, <3>1 DEF Same, ReapAgrees
  <2>4. QED
    BY Zenon, <2>1, <2>2, <2>3 DEF BlockedStay, Same
<1>12. Timers' /\ Readers'
  BY Zenon, <1>1, <1>2, <1>11, TimersKept, ReadersKept, WInvParts DEF SameTimers
<1>13. Reaping'
  <2> SUFFICES ASSUME NEW d \in Cores, pc'[d] = "reap"
               PROVE  \E y \in Waiting' : y.pid = currentTask'[d].rax /\ y.state = "Terminated"
    BY Zenon DEF Reaping
  <2>1. d # c /\ pc[d] = "reap" /\ currentTask'[d].rax = currentTask[d].rax
    BY Zenon, <1>1 DEF ReapAgrees
  <2>2. PICK y \in Waiting : y.pid = currentTask[d].rax /\ y.state = "Terminated"
    BY Zenon, <2>1, WInvParts DEF Reaping
  <2>3. Owns(d) /\ currentTask[d] \in Live /\ y \in Live /\ z \in Live
    BY Zenon, <1>1, <1>3, <2>1, LiveProperties DEF Owns, InKernelOfTask
  <2>4. y # z
    <3>1. y.parentPid = currentTask[d].pid /\ z.parentPid = currentTask[c].pid
      BY Zenon, <1>3, <1>5, <2>2, <2>3, WInvParts DEF Families
    <3>2. currentTask[c].pid # currentTask[d].pid
      BY Zenon, <1>1, <1>5, <2>1, <2>3, IInvParts DEF UniqueTasks
    <3>3. QED
      BY Zenon, <3>1, <3>2
  <2>5. QED
    BY Zenon, <1>4, <2>1, <2>2, <2>4
<1>14. QED
  BY Zenon, <1>1, <1>9, <1>10, <1>12, <1>13 DEF WInv

-----------------------------------------------------------------------------
(* The theorems                                                            *)

(* Every step of the scheduler keeps the invariant.                        *)
LEMMA NextKeepsIInv == IInv /\ [Next]_vars => IInv'
<1> SUFFICES ASSUME IInv, [Next]_vars PROVE IInv'
  BY Zenon
<1>1. CASE UNCHANGED vars
  <2>1. TypeOK' = TypeOK /\ UniqueTasks' = UniqueTasks
    <3>1. UNCHANGED <<taskQueue, taskQueueLock, currentTask, restoreFrame, timerEntries,
                      currentTimerTime, unblockQueue, nextPid, pc, i, delta, found>>
      BY Zenon, <1>1 DEF vars, locals
    <3>2. QED
      BY <3>1 DEF TypeOK, UniqueTasks, Queued, Owns, Running
  <2>2. QED
    BY ZenonT(30), <1>1, <2>1 DEF IInv, LocalInv, vars, locals
<1>2. ASSUME NEW c \in Cores, Kernel(c) PROVE IInv'
  BY Zenon, <1>2, SaveTaskKeepsIInv, TimerRunsKeepsIInv, TimerExpiresKeepsIInv, BeginScanKeepsIInv,
     ScanSkipKeepsIInv, ScanPopKeepsIInv, DispatchKeepsIInv, ResumeBlockedKeepsIInv,
     ResumeWaitKeepsIInv, ReapChildKeepsIInv DEF Kernel
<1>3. ASSUME NEW c \in Cores, UserCall(c) PROVE IInv'
  BY Zenon, <1>3, SleepFailsKeepsIInv, SleepCurrentTaskKeepsIInv, BlockingReadKeepsIInv,
     ForkCurrentTaskKeepsIInv, ExecuteKeepsIInv, ExitInitKeepsIInv, ExitCurrentTaskKeepsIInv, WaitForChildKeepsIInv
     DEF UserCall
<1>4. QED
  BY Zenon, <1>1, <1>2, <1>3, TimerInterruptKeepsIInv, KeyboardInterruptKeepsIInv DEF Next

(* The invariant holds in every reachable state.                           *)
LEMMA SpecIInv == Spec => []IInv
BY InitIInv, NextKeepsIInv, PTL DEF Spec

(* The variables of every scheduler, and the queue they share, keep their  *)
(* types in every run of the kernel.                                       *)
THEOREM SchedulerTypes == Spec => []TypeOK
<1>1. IInv => TypeOK
  BY Zenon, IInvParts
<1>2. QED
  BY <1>1, SpecIInv, PTL

(* SwitchToNextTask, fork, exec and wait never duplicate a task, whatever  *)
(* the number of cores and the order in which they take taskQueueLock.     *)
THEOREM TasksAreUnique == Spec => []UniqueTasks
<1>1. IInv => UniqueTasks
  BY Zenon, IInvParts
<1>2. QED
  BY <1>1, SpecIInv, PTL

(* A core in user mode, or back in a suspended system call, has a Normal   *)
(* task: SwitchToNextTask never dispatches a blocked one or a zombie.      *)
THEOREM CoresRunNormalTasks == Spec => []RunsOnlyNormal
<1>1. IInv => RunsOnlyNormal
  BY Zenon, IInvParts DEF LocalInv, RunsOnlyNormal
<1>2. QED
  BY <1>1, SpecIInv, PTL

-----------------------------------------------------------------------------

(* At boot one task is queued, with no children and no timer.              *)
LEMMA InitWInv == Init => WInv
<1> SUFFICES ASSUME Init PROVE WInv
  BY Zenon
<1> DEFINE t == NewTask(1, 0)
<1>1. IInv
  BY Zenon, InitIInv
<1>2. /\ Waiting = {t} /\ nextPid = 2 /\ unblockQueue = <<>>
      /\ \A c \in Cores : /\ pc[c] = "user" /\ timerEntries[c] = <<>>
                          /\ currentTask[c] = Idle
  <2>1. taskQueue = <<t>>
    BY Zenon DEF Init
  <2> HIDE DEF t
  <2>2. QED
    BY <2>1 DEF Init, Waiting
<1>3. /\ t.pid = 1 /\ t.rax = 0 /\ t.childrenPids = <<>> /\ t.state = "Normal"
      /\ Idle.pid = 0
  BY Zenon DEF NewTask, Idle
<1> HIDE DEF t
<1>4. \A c \in Cores : ~Owns(c)
  BY Zenon, <1>2, <1>3 DEF Owns, Running, InKernelOfTask
<1>5. Live = {t} /\ \A c \in Cores : At(c) = {t}
  BY SMTT(30), <1>2, <1>4, SchedulerAssumption DEF Live, At
<1>6. Families /\ Waits
  BY SMTT(30), <1>2, <1>3, <1>5 DEF Families, Waits, ChildrenOf
<1>7. Reaping /\ Readers
  BY SMTT(30), <1>2 DEF Reaping, Readers
<1>8. Timers
  BY <1>2, <1>3, <1>4 DEF Timers, BlockedIn
<1>9. QED
  BY Zenon, <1>1, <1>6, <1>7, <1>8 DEF WInv

(* Every step of the scheduler keeps the invariant.                        *)
LEMMA NextKeepsWInv == WInv /\ [Next]_vars => WInv'
<1> SUFFICES ASSUME WInv, [Next]_vars PROVE WInv'
  OBVIOUS
<1>1. CASE UNCHANGED vars
  <2>1. IInv'
    BY Zenon, <1>1, NextKeepsIInv, WInvParts
  <2>2. UNCHANGED <<taskQueue, currentTask, timerEntries, unblockQueue, nextPid, pc,
                    restoreFrame, found>>
    BY Zenon, <1>1 DEF vars, locals
  <2>3. Waiting' = Waiting /\ \A c \in Cores : Owns(c)' = Owns(c)
    BY Zenon, <2>2 DEF Waiting, Owns, Running
  <2>4. Live' = Live /\ \A c \in Cores : At(c)' = At(c)
    BY SMTT(30), <2>2, <2>3 DEF Live, At
  <2>5. Families' /\ Waits' /\ Readers' /\ Reaping'
    BY SMTT(30), <2>2, <2>3, <2>4, WInvParts DEF Families, Waits, Readers, Reaping, ChildrenOf, BlockedIn
  <2>6. Timers'
    BY <2>2, <2>3, <2>4, WInvParts DEF Timers, HasTimer, BlockedIn
  <2>7. QED
    BY Zenon, <2>1, <2>5, <2>6 DEF WInv
<1>2. ASSUME NEW c \in Cores, Kernel(c) PROVE WInv'
  BY Zenon, <1>2, SaveTaskKeepsWInv, TimerRunsKeepsWInv, TimerExpiresKeepsWInv, BeginScanKeepsWInv,
     ScanSkipKeepsWInv, ScanPopKeepsWInv, DispatchKeepsWInv, ResumeBlockedKeepsWInv,
     ResumeWaitKeepsWInv, ReapChildKeepsWInv DEF Kernel
<1>3. ASSUME NEW c \in Cores, UserCall(c) PROVE WInv'
  BY Zenon, <1>3, SleepFailsKeepsWInv, SleepCurrentTaskKeepsWInv, BlockingReadKeepsWInv,
     ForkCurrentTaskKeepsWInv, ExecuteKeepsWInv, ExitInitKeepsWInv, ExitCurrentTaskKeepsWInv, WaitForChildKeepsWInv
     DEF UserCall
<1>4. QED
  BY <1>1, <1>2, <1>3, TimerInterruptKeepsWInv, KeyboardInterruptKeepsWInv DEF Next

(* The invariant holds in every reachable state.                           *)
LEMMA SpecWInv == Spec => []WInv
BY InitWInv, NextKeepsWInv, PTL DEF Spec

(* UpdateTimerEntries wakes only sleepers, each once: every timer entry is *)
(* for a distinct task in SleepCurrentTask, on any number of cores.        *)
THEOREM TimersWakeSleepers == Spec => []TimersAreOwed
<1>1. WInv => TimersAreOwed
  <2> SUFFICES ASSUME WInv PROVE TimersAreOwed
    BY Zenon
  <2>1. \A c \in Cores : \A k \in DOMAIN timerEntries[c] : Asleep(c, timerEntries[c][k].pid, "sleep")
    <3>1. \A c \in Cores : Owns(c) /\ currentTask[c].state = "Blocked"
                             => pc[c] = "save" /\ restoreFrame[c]
      BY Zenon, IInvParts, WInvParts DEF LocalInv, Owns, Running
    <3>2. \A c \in Cores : \A t \in At(c) : BlockedIn(t, "sleep") => Asleep(c, t.pid, "sleep")
      BY Zenon, <3>1 DEF At, Waiting, Asleep, BlockedIn
    <3>3. QED
      BY <3>2, WInvParts DEF Timers
  <2>2. QED
    BY Zenon, <2>1, WInvParts DEF Timers, TimersAreOwed
<1>2. QED
  BY <1>1, SpecWInv, PTL

(* SleepCurrentTask and the switch that follows it forget no sleeper: one  *)
(* in the queue has a timer entry on some core.                            *)
THEOREM SleepersAreTimed == Spec => []SleepersHaveTimers
<1>1. WInv => SleepersHaveTimers
  BY WInvParts DEF Timers, SleepersHaveTimers, Waiting, BlockedIn, HasTimer
<1>2. QED
  BY <1>1, SpecWInv, PTL

(* WaitForChild and ExitCurrentTask lose no wake-up, whatever the programs *)
(* do and on any number of cores: no waiting parent in the queue has a     *)
(* zombie child that its call would have returned.                         *)
THEOREM NoExitIsMissed == Spec => []NoMissedExit
<1>1. WInv => NoMissedExit
  <2> SUFFICES ASSUME WInv, NEW k \in DOMAIN taskQueue,
                      taskQueue[k].state = "WaitingForChild",
                      NEW j \in DOMAIN taskQueue[k].childrenPids,
                      taskQueue[k].suspensionArg \in {0, taskQueue[k].childrenPids[j]},
                      IsZombie(taskQueue[k].childrenPids[j])
               PROVE  FALSE
    BY Zenon DEF NoMissedExit
  <2> DEFINE t == taskQueue[k]
             p == t.childrenPids[j]
             u == GetTask(p)
  <2>1. IInv
    BY Zenon, WInvParts
  <2>2. t \in Live /\ u \in Live /\ u.pid = p /\ u.state = "Terminated"
    BY Zenon, <2>1, GetTaskProperties, LiveProperties DEF IsZombie, Waiting
  <2>3. p \in ChildrenOf(t)
    BY Zenon DEF ChildrenOf
  <2>4. QED
    BY Zenon, <2>2, <2>3, WInvParts DEF Waits
<1>2. QED
  BY <1>1, SpecWInv, PTL

(* IsZombie in terms of the queue as a set, now and after a step.          *)
LEMMA ZombieProperties == IInv => \A pid : IsZombie(pid) <=>
                            \E z \in Waiting : z.pid = pid /\ z.state = "Terminated"
<1> SUFFICES ASSUME IInv, NEW pid
             PROVE  IsZombie(pid) <=>
                      \E z \in Waiting : z.pid = pid /\ z.state = "Terminated"
  BY Zenon
<1>1. QED
  BY Zenon, GetTaskProperties DEF IsZombie

(* The same after a step.                                                  *)
LEMMA ZombiePropertiesNext == IInv' => (\A pid : IsZombie(pid) <=>
                                \E z \in Waiting : z.pid = pid /\ z.state = "Terminated")'
BY ZombieProperties, PTL

(* Only ReapChild takes a zombie out of the queue or changes one: the scan *)
(* pops Normal tasks, and Unsuspend wakes suspended ones.                  *)
LEMMA ZombiesStay ==
  ASSUME IInv, NEW c \in Cores,
         Kernel(c) \/ UserCall(c) \/ TimerInterrupt(c) \/ KeyboardInterrupt(c),
         NEW z \in Waiting, z.state = "Terminated"
  PROVE  z \in Waiting' \/ ReapChild(c)
<1>1. CASE taskQueue' = taskQueue
  BY Zenon, <1>1 DEF Waiting
<1>2. ASSUME NEW t \in Task, taskQueue' = Append(taskQueue, t) PROVE z \in Waiting'
  BY Zenon, <1>2, WaitingPush
<1>3. ASSUME NEW pid, Queued(pid), NEW value \in Pids,
             taskQueue' = Unsuspended(pid, value),
             GetTask(pid).state \in {"Blocked", "WaitingForChild"}
      PROVE  z \in Waiting'
  BY SMTT(30), <1>3, WaitingUnsuspended
<1>4. currentTask[c] \in Task /\ 0 \in Pids
  BY SchedulerAssumption, IInvParts DEF TypeOK, Pids
<1>5. CASE SaveTask(c)
  BY Zenon, <1>1, <1>2, <1>4, <1>5 DEF SaveTask
<1>6. CASE TimerExpires(c)
  BY Zenon, <1>1, <1>3, <1>4, <1>6 DEF TimerExpires, CanUnsuspend
<1>7. CASE KeyboardInterrupt(c)
  BY Zenon, <1>1, <1>3, <1>4, <1>7 DEF KeyboardInterrupt, CanUnsuspend
<1>8. CASE ExitCurrentTask(c)
  <2>1. currentTask[c].pid \in Pids
    BY Zenon, <1>4 DEF Task
  <2>2. QED
    BY Zenon, <1>1, <1>3, <1>8, <2>1 DEF ExitCurrentTask, WaitsFor
<1>9. CASE ScanPop(c)
  <2>1. i[c] \in Nat /\ i[c] >= 1 /\ i[c] <= Len(taskQueue) /\ taskQueue \in Seq(Task)
    BY Zenon, <1>9, IInvParts DEF ScanPop, TypeOK, LocalInv
  <2>2. i[c] \in 1..Len(taskQueue)
    BY <2>1
  <2>3. taskQueue[i[c]].state = "Normal" /\ taskQueue' = Pop(taskQueue, i[c])
    BY Zenon, <1>9 DEF ScanPop, Runnable
  <2>4. QED
    BY Zenon, <2>2, <2>3, WaitingPop
<1>10. CASE ForkCurrentTask(c)
  <2>1. nextPid \in Pids
    <3>1. nextPid \in 2..(MaxPid + 1) /\ nextPid <= MaxPid /\ MaxPid \in Nat
      BY Zenon, <1>10, SchedulerAssumption, IInvParts DEF ForkCurrentTask, TypeOK
    <3>2. QED
      BY <3>1 DEF Pids
  <2>2. NewTask(nextPid, currentTask[c].pid) \in Task
    BY <1>4, <2>1, SchedulerAssumption DEF NewTask, Task, States
  <2>3. QED
    BY Zenon, <1>2, <1>10, <2>2 DEF ForkCurrentTask
<1>11. CASE Execute(c)
  <2>1. NewTask(currentTask[c].pid, currentTask[c].parentPid) \in Task
    BY <1>4, SchedulerAssumption DEF NewTask, Task, States
  <2>2. QED
    BY ZenonT(30), <1>2, <1>11, <2>1 DEF Execute
<1>12. CASE \/ TimerRuns(c) \/ BeginScan(c) \/ ScanSkip(c) \/ Dispatch(c)
            \/ ResumeBlocked(c) \/ ResumeWait(c) \/ TimerInterrupt(c)
            \/ BlockingRead(c) \/ ExitInit(c)
            \/ \E ms \in SleepTimes : SleepFails(c, ms) \/ SleepCurrentTask(c, ms)
            \/ \E pid \in WaitPids : WaitForChild(c, pid)
  <2>1. taskQueue' = taskQueue
    BY Zenon, <1>12 DEF TimerRuns, BeginScan, ScanSkip, Dispatch, ResumeBlocked, ResumeWait,
       TimerInterrupt, BlockingRead, ExitInit, SleepFails, SleepCurrentTask, WaitForChild
  <2>2. QED
    BY Zenon, <1>1, <2>1
<1>13. QED
  BY Zenon, <1>5, <1>6, <1>7, <1>8, <1>9, <1>10, <1>11, <1>12 DEF Kernel, UserCall

(* A zombie leaves the queue only when its parent is in WaitForChild for   *)
(* it, on any number of cores: no switch, wake-up or other task takes it.  *)
THEOREM ZombiesAreReaped == Spec => ZombiesWaitForParent
<1> DEFINE Reaped(pid) == \E c \in Cores : /\ pc[c] = "reap"
                                           /\ currentTask[c].rax = pid
                                           /\ currentTask[c].pid = GetTask(pid).parentPid
<1>1. ASSUME WInv, WInv', [Next]_vars, NEW pid \in Pids, IsZombie(pid), ~IsZombie(pid)'
      PROVE  Reaped(pid)
  <2>1. IInv /\ IInv'
    BY Zenon, <1>1 DEF WInv
  <2> DEFINE z == GetTask(pid)
  <2>2. z \in Waiting /\ z.pid = pid /\ z.state = "Terminated" /\ z \in Live
    BY Zenon, <1>1, <2>1, GetTaskProperties, LiveProperties DEF IsZombie
  <2> HIDE DEF z
  <2>3. z \notin Waiting'
    BY Zenon, <1>1, <2>1, <2>2, ZombiePropertiesNext
  <2>4. PICK c \in Cores : Kernel(c) \/ UserCall(c) \/ TimerInterrupt(c) \/ KeyboardInterrupt(c)
    BY Zenon, <1>1, <2>2, <2>3 DEF Next, vars, Waiting
  <2>5. ReapChild(c)
    BY Zenon, <2>1, <2>2, <2>3, <2>4, ZombiesStay
  <2>6. pc[c] = "reap" /\ Owns(c) /\ currentTask[c] \in Live
    BY Zenon, <2>1, <2>5, LiveProperties DEF ReapChild, Owns, InKernelOfTask
  <2>7. currentTask[c].rax = pid
    <3> DEFINE p == currentTask[c].rax
    <3>1. PICK y \in Waiting : y.pid = p /\ y.state = "Terminated"
      BY Zenon, <1>1, <2>6, WInvParts DEF Reaping
    <3>2. Queued(p) /\ GetTask(p).pid = p
      BY Zenon, <2>1, <3>1, GetTaskProperties
    <3>3. taskQueue' = Pop(taskQueue, Position(p)) /\ Position(p) \in 1..Len(taskQueue)
      BY Zenon, <2>1, <2>5, <3>2, PositionProperties, IInvParts DEF ReapChild
    <3>4. Waiting' = Waiting \ {GetTask(p)}
      BY Zenon, <2>1, <3>3, WaitingPop DEF GetTask
    <3>5. QED
      BY Zenon, <2>2, <2>3, <3>2, <3>4
  <2>8. z.parentPid = currentTask[c].pid
    BY Zenon, <1>1, <2>2, <2>6, <2>7, WInvParts DEF Families
  <2>9. QED
    BY Zenon, <2>6, <2>7, <2>8 DEF z
<1>2. WInv /\ WInv' /\ [Next]_vars =>
        [\A pid \in Pids : IsZombie(pid) /\ ~IsZombie(pid)' => Reaped(pid)]_vars
  BY Zenon, <1>1
<1>3. QED
  BY <1>2, SpecWInv, PTL DEF Spec, ZombiesWaitForParent
-----------------------------------------------------------------------------
(* The Assert of Unsuspend, when a timer expires, and the one at the start *)
(* of SuspendSystemCall.                                                   *)
NoSwitchFails == \A c \in Cores : pc[c] \notin {"panicTimer", "panicSuspend"}

(* No step of a core makes one of these fail.                              *)
LEMMA NextKeepsNoSwitchFails == WInv /\ NoSwitchFails /\ [Next]_vars => NoSwitchFails'
<1> SUFFICES ASSUME WInv, NoSwitchFails, [Next]_vars PROVE NoSwitchFails'
  BY Zenon
<1> USE SchedulerAssumption
<1>1. IInv
  BY Zenon, WInvParts
<1>2. CASE pc' = pc
  BY Zenon, <1>2 DEF NoSwitchFails
<1>3. ASSUME NEW c \in Cores, NEW label, label \notin {"panicTimer", "panicSuspend"},
             pc' = [pc EXCEPT ![c] = label]
      PROVE  NoSwitchFails'
  BY Zenon, <1>1, <1>3, IInvParts DEF NoSwitchFails, TypeOK
<1>4. CASE UNCHANGED vars
  BY Zenon, <1>2, <1>4 DEF vars
<1>5. ASSUME NEW c \in Cores,
             \/ SaveTask(c) \/ BeginScan(c) \/ ResumeBlocked(c) \/ ResumeWait(c)
             \/ ReapChild(c) \/ TimerInterrupt(c) \/ KeyboardInterrupt(c)
             \/ ForkCurrentTask(c) \/ Execute(c) \/ ExitInit(c) \/ ExitCurrentTask(c)
             \/ \E ms \in SleepTimes : SleepFails(c, ms)
      PROVE  NoSwitchFails'
  <2>1. \E label \in {"timers", "scan", "user", "reap", "save", "panicResume", "panicChild",
                      "panicRemoved", "panicUnsuspend", "panicParent", "panicSleep"} :
          pc' = [pc EXCEPT ![c] = label]
    BY Zenon, <1>5 DEF SaveTask, BeginScan, ResumeBlocked, ResumeWait, ReapChild, TimerInterrupt,
       KeyboardInterrupt, ForkCurrentTask, Execute, ExitInit, ExitCurrentTask, SleepFails,
       Locked, Goto
  <2>2. QED
    BY Zenon, <1>3, <2>1
<1>6. ASSUME NEW c \in Cores, TimerRuns(c) \/ ScanSkip(c) \/ ScanPop(c) PROVE NoSwitchFails'
  BY Zenon, <1>2, <1>6 DEF TimerRuns, ScanSkip, ScanPop
<1>7. ASSUME NEW c \in Cores, TimerExpires(c) PROVE NoSwitchFails'
  <2>1. CanUnsuspend(timerEntries[c][i[c]].pid)
    BY Zenon, <1>7, ExpiredTaskIsAsleep
  <2>2. pc' = [pc EXCEPT ![c] = "timers"]
    BY Zenon, <1>7, <2>1 DEF TimerExpires, Locked, Goto
  <2>3. QED
    BY Zenon, <1>3, <2>2
<1>8. ASSUME NEW c \in Cores, Dispatch(c) PROVE NoSwitchFails'
  <2>1. PICK t \in {currentTask[c], Idle} : pc' = [pc EXCEPT ![c] = t.resume]
    BY Zenon, <1>8 DEF Dispatch, Goto
  <2>2. currentTask[c] \in Task /\ Idle.resume = "user"
    BY Zenon, <1>1, IInvParts DEF TypeOK, Idle, NewTask
  <2>3. t.resume \in {"user", "sleep", "read", "wait"}
    BY Zenon, <2>1, <2>2 DEF Task
  <2>4. QED
    BY Zenon, <1>3, <2>1, <2>3
<1>9. ASSUME NEW c \in Cores, Running(c), NEW state \in States, NEW arg \in Pids,
             NEW kind \in {"sleep", "read", "wait"}, Suspend(c, state, arg, kind)
      PROVE  NoSwitchFails'
  BY SMTT(30), <1>1, <1>3, <1>9, SuspendProperties
<1>10. "Blocked" \in States /\ "WaitingForChild" \in States /\ 0 \in Pids /\ WaitPids \subseteq Pids
  BY DEF States, Pids
<1>11. ASSUME NEW c \in Cores,
              BlockingRead(c) \/ \E ms \in SleepTimes : SleepCurrentTask(c, ms)
       PROVE  NoSwitchFails'
  BY Zenon, <1>9, <1>10, <1>11 DEF BlockingRead, SleepCurrentTask
<1>12. ASSUME NEW c \in Cores, NEW pid \in WaitPids, WaitForChild(c, pid) PROVE NoSwitchFails'
  <2>1. \/ Suspend(c, "WaitingForChild", pid, "wait")
        \/ \E ok : Locked(c, ok, "reap", "panicChild")
    BY Zenon, <1>12 DEF WaitForChild
  <2>2. ASSUME NEW ok, Locked(c, ok, "reap", "panicChild") PROVE NoSwitchFails'
    <3>1. \E label \in {"reap", "panicChild"} : pc' = [pc EXCEPT ![c] = label]
      BY Zenon, <2>2 DEF Locked, Goto
    <3>2. QED
      BY Zenon, <1>3, <3>1
  <2>3. QED
    BY Zenon, <1>9, <1>10, <1>12, <2>1, <2>2 DEF WaitForChild
<1>13. QED
  BY Zenon, <1>4, <1>5, <1>6, <1>7, <1>8, <1>11, <1>12 DEF Next, Kernel, UserCall

(* UpdateTimerEntries always finds the task of an expired timer in the     *)
(* queue and suspended, and SuspendSystemCall always finds its own task    *)
(* Normal, on any number of cores: these two Asserts never fail.           *)
THEOREM SwitchesNeverFail == Spec => []NoSwitchFails
<1>1. Init => NoSwitchFails
  BY Zenon DEF Init, NoSwitchFails
<1>2. QED
  BY <1>1, NextKeepsNoSwitchFails, SpecWInv, PTL DEF Spec
=============================================================================
