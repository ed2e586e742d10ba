-------------------------- MODULE SchedulerOneCore --------------------------
(***************************************************************************)
(* The scheduler on one core with at most two unfinished tasks, whose      *)
(* programs wait for their children before they exit or exec: the          *)
(* inductive invariant under which no Assert fails and the processes       *)
(* behave as ProcessTable says, and what each action does to both.         *)
(***************************************************************************)
EXTENDS SchedulerProofs

OneCore == Cores = {Bsp} /\ MaxOthers = 0 /\ ReapFirst = {"exit", "exec"}

(* The first task is the parent of all others: its childrenPids lists them *)
(* once each, and it exits only when there are none.                       *)
OneFamily ==
  /\ \E r \in Live : r.pid = 1
  /\ \A t \in Live : t.pid # 1 => t.parentPid = 1 /\ t.childrenPids = <<>>
  /\ \A r \in Live : r.pid = 1 =>
       /\ r.parentPid = 0
       /\ \A t \in Live : t.pid # 1 => t.pid \in ChildrenOf(r)
       /\ \A p \in ChildrenOf(r) : \E t \in Live : t.pid = p
       /\ \A j, k \in DOMAIN r.childrenPids : r.childrenPids[j] = r.childrenPids[k] => j = k
       /\ r.state = "Terminated" => r.childrenPids = <<>>

Unfinished(k) == taskQueue[k].state # "Terminated"

(* The scan pops every Normal task it meets and keeps the last, but skips  *)
(* the one behind each: no task is lost because two unfinished ones are    *)
(* neighbours at the end of the queue, and one is last when the core has   *)
(* the other.                                                              *)
QueueOrder ==
  /\ \A j, k \in DOMAIN taskQueue :
       j < k /\ Unfinished(j) /\ Unfinished(k) => k = Len(taskQueue) /\ k = j + 1
  /\ Owns(Bsp) => \A k \in DOMAIN taskQueue : Unfinished(k) => k = Len(taskQueue)
  /\ pc[Bsp] = "scan" /\ found[Bsp] =>
       \A k \in DOMAIN taskQueue : k >= i[Bsp] => ~Unfinished(k)

(* A parent that a child has woken finds that child in rax, a zombie that  *)
(* its call waits for.                                                     *)
WokenByChild ==
  \A t \in Live : t.state = "Normal" /\ t.resume = "wait" =>
    /\ t.suspensionArg \in {0, t.rax}
    /\ \E z \in Live : z.pid = t.rax /\ z.state = "Terminated"

(* A core in user mode, or back in WaitForChild, is where the frame of its *)
(* task says.                                                              *)
FrameAgrees == pc[Bsp] \in {"user", "wait"} => currentTask[Bsp].resume = pc[Bsp]

OInv == OneFamily /\ QueueOrder /\ WokenByChild /\ FrameAgrees /\ NoPanic

(* The parts of the invariant.                                             *)
LEMMA OInvParts ==
  OInv => OneFamily /\ QueueOrder /\ WokenByChild /\ FrameAgrees /\ NoPanic
BY Zenon DEF OInv

-----------------------------------------------------------------------------
(* The processes as ProcessTable sees them.                                *)

Mine(t) == Owns(Bsp) /\ t = currentTask[Bsp]
Shown(t) == Status(t, IF Mine(t) THEN "running" ELSE "ready")

(* On one core a task is in the queue or on that core, never both.         *)
LEMMA OneCoreLive ==
  IInv /\ OneCore => /\ \A t : t \in Live <=> t \in Waiting \/ Mine(t)
                     /\ \A t \in Waiting : ~Mine(t)
<1> SUFFICES ASSUME IInv, OneCore
             PROVE  /\ \A t : t \in Live <=> t \in Waiting \/ Mine(t)
                    /\ \A t \in Waiting : ~Mine(t)
  BY Zenon
<1>1. Bsp \in Cores /\ \A c \in Cores : c = Bsp
  BY DEF OneCore
<1>2. \A t : t \in Live <=> t \in Waiting \/ Mine(t)
  BY Zenon, <1>1, LiveProperties DEF Mine
<1>3. QED
  BY Zenon, <1>1, <1>2, LiveProperties DEF Mine

(* The same after a step.                                                  *)
LEMMA OneCoreLiveNext ==
  IInv' /\ OneCore => (/\ \A t : t \in Live <=> t \in Waiting \/ Mine(t)
                       /\ \A t \in Waiting : ~Mine(t))'
<1>1. ASSUME OneCore PROVE IInv => /\ \A t : t \in Live <=> t \in Waiting \/ Mine(t)
                                   /\ \A t \in Waiting : ~Mine(t)
  BY Zenon, <1>1, OneCoreLive
<1>2. ASSUME OneCore PROVE IInv' => (/\ \A t : t \in Live <=> t \in Waiting \/ Mine(t)
                                     /\ \A t \in Waiting : ~Mine(t))'
  BY <1>1, <1>2, PTL
<1>3. QED
  BY Zenon, <1>2

(* The pid of every task is in the table.                                  *)
LEMMA PidsInTable ==
  ASSUME IInv, NEW t \in Live
  PROVE  t.pid \in 1..MaxPid /\ t.pid < nextPid
<1>1. t \in Task /\ t.pid # 0 /\ t.pid < nextPid
  BY Zenon, LiveProperties
<1>2. t.pid \in 0..MaxPid
  BY Zenon, <1>1 DEF Task, Pids
<1>3. QED
  BY <1>1, <1>2, SchedulerAssumption

(* What the table shows of each pid.                                       *)
View ==
  /\ \A t \in Live : ProcessStatus[t.pid] = Shown(t) /\ ProcessParent[t.pid] = t.parentPid
  /\ \A p \in 1..MaxPid : p >= nextPid => ProcessStatus[p] = "unborn"
  /\ \A p \in 1..MaxPid : (\A t \in Live : t.pid # p) =>
       ProcessParent[p] = 0 /\ (p >= nextPid \/ ProcessStatus[p] = "gone")

(* The table shows a live task by its state and place, and nothing else.   *)
LEMMA TableView == IInv /\ OneCore => View
<1> SUFFICES ASSUME IInv, OneCore PROVE View
  BY Zenon
<1>1. \A c \in Cores : c = Bsp
  BY DEF OneCore
<1>2. Bsp \in Cores
  BY Zenon, SchedulerAssumption
<1>3. ASSUME NEW t \in Live
      PROVE  ProcessStatus[t.pid] = Shown(t) /\ ProcessParent[t.pid] = t.parentPid
  <2>1. t.pid \in 1..MaxPid /\ ~(t.pid >= nextPid)
    <3>1. nextPid \in Nat
      BY IInvParts DEF TypeOK
    <3>2. QED
      BY <3>1, PidsInTable
  <2>2. CASE Mine(t)
    <3>1. Owners(t.pid) = {Bsp}
      BY <1>1, <1>2, <2>2 DEF Owners, Mine
    <3>2. (CHOOSE c \in Owners(t.pid) : TRUE) = Bsp /\ Owners(t.pid) # {}
      BY Zenon, <3>1
    <3>3. OwnedTask(t.pid) = t
      BY Zenon, <2>2, <3>2 DEF OwnedTask, Mine
    <3>4. QED
      BY Zenon, <2>1, <2>2, <3>2, <3>3 DEF ProcessStatus, ProcessParent, Shown
  <2>3. CASE ~Mine(t)
    <3>1. t \in Waiting
      BY Zenon, <2>3, OneCoreLive
    <3>2. Owners(t.pid) = {}
      BY Zenon, <3>1, LiveProperties DEF Owners
    <3>3. Queued(t.pid) /\ GetTask(t.pid) = t
      BY Zenon, <3>1, GetTaskProperties
    <3>4. QED
      BY Zenon, <2>1, <2>3, <3>2, <3>3 DEF ProcessStatus, ProcessParent, Shown
  <2>4. QED
    BY Zenon, <2>2, <2>3
<1>4. ASSUME NEW p \in 1..MaxPid, \A t \in Live : t.pid # p
      PROVE  ProcessParent[p] = 0 /\ (p >= nextPid \/ ProcessStatus[p] = "gone")
  <2>1. Owners(p) = {}
    BY Zenon, <1>4, LiveProperties DEF Owners
  <2>2. ~Queued(p)
    BY Zenon, <1>4, GetTaskProperties, LiveProperties
  <2>3. QED
    BY Zenon, <2>1, <2>2 DEF ProcessStatus, ProcessParent
<1>5. \A p \in 1..MaxPid : p >= nextPid => ProcessStatus[p] = "unborn"
  BY Zenon DEF ProcessStatus
<1>6. QED
  BY Zenon, <1>3, <1>4, <1>5 DEF View

(* The same after a step.                                                  *)
LEMMA TableViewNext == IInv' /\ OneCore => View'
<1>1. ASSUME OneCore PROVE IInv => View
  BY Zenon, <1>1, TableView
<1>2. ASSUME OneCore PROVE IInv' => View'
  BY <1>1, <1>2, PTL
<1>3. QED
  BY Zenon, <1>2

-----------------------------------------------------------------------------
(* A step that changes or moves one task.                                  *)

Follows(s, t) ==
  s.pid = t.pid /\ s.parentPid = t.parentPid /\ s.childrenPids = t.childrenPids

(* Task t becomes s, in the queue or on the core, and all others stay.     *)
Becomes(t, s) ==
  /\ t \in Live /\ Follows(s, t)
  /\ \A u : u \in Live' <=> u = s \/ (u \in Live /\ u # t)
  /\ \A u \in Live : u # t => (Mine(u)' <=> Mine(u))

(* The table does not change at a pid whose task, if any, stays in place.  *)
LEMMA ShownElsewhere ==
  ASSUME IInv, IInv', OneCore, NEW p \in 1..MaxPid,
         p >= nextPid' <=> p >= nextPid,
         \A u \in Live : u.pid = p => u \in Live' /\ (Mine(u)' <=> Mine(u)),
         \A u \in Live' : u.pid = p => u \in Live
  PROVE  ProcessStatus'[p] = ProcessStatus[p] /\ ProcessParent'[p] = ProcessParent[p]
<1>1. View /\ View'
  BY Zenon, TableView, TableViewNext
<1>2. ASSUME NEW u \in Live, u.pid = p
      PROVE  ProcessStatus'[p] = ProcessStatus[p] /\ ProcessParent'[p] = ProcessParent[p]
  <2>1. u \in Live' /\ (Mine(u)' <=> Mine(u))
    BY Zenon, <1>2
  <2>2. Shown(u)' = Shown(u)
    BY Zenon, <2>1 DEF Shown
  <2>3. QED
    BY <1>1, <1>2, <2>1, <2>2 DEF View
<1>3. ASSUME \A u \in Live : u.pid # p
      PROVE  ProcessStatus'[p] = ProcessStatus[p] /\ ProcessParent'[p] = ProcessParent[p]
  <2>1. \A u \in Live' : u.pid # p
    BY Zenon, <1>3
  <2>2. QED
    BY Zenon, <1>1, <1>3, <2>1 DEF View
<1>4. QED
  BY Zenon, <1>2, <1>3

(* The table has a row for every pid.                                      *)
LEMMA TableShape ==
  /\ ProcessStatus = [p \in 1..MaxPid |-> ProcessStatus[p]]
  /\ ProcessParent = [p \in 1..MaxPid |-> ProcessParent[p]]
  /\ ProcessStatus' = [p \in 1..MaxPid |-> ProcessStatus'[p]]
  /\ ProcessParent' = [p \in 1..MaxPid |-> ProcessParent'[p]]
BY Zenon DEF ProcessStatus, ProcessParent

(* The table changes at the pid of that task only.                         *)
LEMMA BecomesShown ==
  ASSUME IInv, IInv', OneCore, nextPid' = nextPid, NEW t, NEW s, Becomes(t, s)
  PROVE  /\ ProcessStatus' = [ProcessStatus EXCEPT ![t.pid] = Shown(s)']
         /\ ProcessParent' = ProcessParent
         /\ ProcessStatus[t.pid] = Shown(t) /\ t.pid \in 1..MaxPid
<1>1. View /\ View'
  BY Zenon, TableView, TableViewNext
<1>2. t.pid \in 1..MaxPid /\ s \in Live' /\ s.pid = t.pid /\ s.parentPid = t.parentPid /\ t \in Live
  BY Zenon, PidsInTable DEF Becomes, Follows
<1>3. ASSUME NEW p \in 1..MaxPid, p # t.pid
      PROVE  ProcessStatus'[p] = ProcessStatus[p] /\ ProcessParent'[p] = ProcessParent[p]
  <2>1. \A u \in Live : u.pid = p => u \in Live' /\ (Mine(u)' <=> Mine(u))
    BY Zenon, <1>3 DEF Becomes
  <2>2. \A u \in Live' : u.pid = p => u \in Live
    BY Zenon, <1>2, <1>3 DEF Becomes
  <2>3. QED
    BY Zenon, <2>1, <2>2, ShownElsewhere
<1>4. /\ ProcessStatus'[t.pid] = Shown(s)' /\ ProcessStatus[t.pid] = Shown(t)
      /\ ProcessParent'[t.pid] = ProcessParent[t.pid]
  BY ZenonT(30), <1>1, <1>2 DEF View
<1>5. ProcessStatus' = [ProcessStatus EXCEPT ![t.pid] = Shown(s)']
  BY <1>2, <1>3, <1>4, TableShape
<1>6. ProcessParent' = ProcessParent
  BY <1>3, <1>4, TableShape
<1>7. QED
  BY Zenon, <1>2, <1>4, <1>5, <1>6

(* The steps of ProcessTable, and the stutters.                            *)
TableStep == Table!Next \/ UNCHANGED <<ProcessStatus, ProcessParent>>

(* The changes of one process that ProcessTable allows.                    *)
Allowed(from, to) ==
  \/ from = to
  \/ from = "ready" /\ to = "running"
  \/ from = "running" /\ to \in {"ready", "asleep", "reading", "waiting", "zombie"}
  \/ from \in {"asleep", "reading"} /\ to = "ready"

(* Such a change of one task is a step of ProcessTable.                    *)
LEMMA BecomesTable ==
  ASSUME IInv, IInv', OneCore, nextPid' = nextPid, NEW t, NEW s, Becomes(t, s),
         Allowed(Shown(t), Shown(s)')
  PROVE  TableStep
<1> DEFINE p == t.pid
           to == Shown(s)'
<1>1. /\ ProcessStatus' = [ProcessStatus EXCEPT ![p] = to] /\ ProcessParent' = ProcessParent
      /\ ProcessStatus[p] = Shown(t) /\ p \in 1..MaxPid
  BY Zenon, BecomesShown
<1>2. DOMAIN ProcessStatus = 1..MaxPid
  BY Zenon DEF ProcessStatus
<1>3. Allowed(ProcessStatus[p], to)
  BY Zenon, <1>1
<1> HIDE DEF p, to
<1>4. ASSUME NEW from, ProcessStatus[p] \in from PROVE Table!Move(p, from, to)
  BY Zenon, <1>1, <1>4 DEF Table!Move
<1>5. CASE ProcessStatus[p] = to
  <2>1. ProcessStatus' = ProcessStatus
    BY Zenon, <1>1, <1>2, <1>5 DEF ProcessStatus
  <2>2. QED
    BY Zenon, <1>1, <2>1 DEF TableStep
<1>6. CASE ProcessStatus[p] = "ready" /\ to = "running"
  <2>1. Table!Schedule(p)
    BY Zenon, <1>1, <1>4, <1>6 DEF Table!Schedule
  <2>2. QED
    BY Zenon, <1>1, <2>1 DEF TableStep, Table!Next
<1>7. CASE ProcessStatus[p] = "running" /\ to = "ready"
  <2>1. Table!Preempt(p)
    BY Zenon, <1>1, <1>4, <1>7 DEF Table!Preempt
  <2>2. QED
    BY Zenon, <1>1, <2>1 DEF TableStep, Table!Next
<1>8. CASE ProcessStatus[p] = "running" /\ to \in {"asleep", "reading", "waiting"}
  <2>1. Table!Block(p)
    BY Zenon, <1>1, <1>4, <1>8 DEF Table!Block
  <2>2. QED
    BY Zenon, <1>1, <2>1 DEF TableStep, Table!Next
<1>9. CASE ProcessStatus[p] \in {"asleep", "reading"} /\ to = "ready"
  <2>1. Table!Wake(p)
    BY Zenon, <1>1, <1>4, <1>9 DEF Table!Wake
  <2>2. QED
    BY Zenon, <1>1, <2>1 DEF TableStep, Table!Next
<1>10. CASE ProcessStatus[p] = "running" /\ to = "zombie"
  <2>1. ProcessStatus' = [q \in DOMAIN ProcessStatus |->
           IF q = p THEN "zombie" ELSE IF q \in {} THEN "ready" ELSE ProcessStatus[q]]
    BY Zenon, <1>1, <1>2, <1>10
  <2>2. Table!Exit(p)
    BY Zenon, <1>1, <1>10, <2>1 DEF Table!Exit
  <2>3. QED
    BY Zenon, <1>1, <2>2 DEF TableStep, Table!Next
<1>11. QED
  BY Zenon, <1>3, <1>5, <1>6, <1>7, <1>8, <1>9, <1>10 DEF Allowed

(* What the first task is to the others.                                   *)
LEMMA RootFacts ==
  ASSUME OneFamily, NEW r \in Live, r.pid = 1
  PROVE  /\ r.parentPid = 0
         /\ \A t \in Live : t.pid # 1 => t.pid \in ChildrenOf(r)
         /\ \A p \in ChildrenOf(r) : \E t \in Live : t.pid = p
         /\ \A j, k \in DOMAIN r.childrenPids : r.childrenPids[j] = r.childrenPids[k] => j = k
         /\ r.state = "Terminated" => r.childrenPids = <<>>
BY Zenon DEF OneFamily

(* A family stays one when no task comes or goes and no parent exits.      *)
LEMMA FamilyKept ==
  ASSUME OneFamily,
         \A u \in Live' :
           \E v \in Live : /\ Follows(u, v)
                           /\ u.state = "Terminated" =>
                                v.state = "Terminated" \/ v.childrenPids = <<>>,
         \A v \in Live : \E u \in Live' : u.pid = v.pid
  PROVE  OneFamily'
<1>1. \E r \in Live' : r.pid = 1
  BY Zenon DEF OneFamily
<1>2. \A u \in Live' : u.pid # 1 => u.parentPid = 1 /\ u.childrenPids = <<>>
  BY DEF OneFamily, Follows
<1>3. ASSUME NEW r \in Live', r.pid = 1
      PROVE  /\ r.parentPid = 0
             /\ \A u \in Live' : u.pid # 1 => u.pid \in ChildrenOf(r)
             /\ \A p \in ChildrenOf(r) : \E u \in Live' : u.pid = p
             /\ \A j, k \in DOMAIN r.childrenPids :
                  r.childrenPids[j] = r.childrenPids[k] => j = k
             /\ r.state = "Terminated" => r.childrenPids = <<>>
  <2>1. PICK v \in Live : /\ Follows(r, v)
                          /\ r.state = "Terminated" =>
                               v.state = "Terminated" \/ v.childrenPids = <<>>
    OBVIOUS
  <2>2. v.pid = 1 /\ r.childrenPids = v.childrenPids /\ r.parentPid = v.parentPid
    BY Zenon, <1>3, <2>1 DEF Follows
  <2>3. ChildrenOf(r) = ChildrenOf(v)
    BY Zenon, <2>2 DEF ChildrenOf
  <2>4. /\ \A t \in Live : t.pid # 1 => t.pid \in ChildrenOf(r)
        /\ \A p \in ChildrenOf(r) : \E t \in Live : t.pid = p
    BY <2>2, <2>3, RootFacts
  <2>5. \A u \in Live' : u.pid # 1 => u.pid \in ChildrenOf(r)
    <3>1. \A u \in Live' : \E w \in Live : u.pid = w.pid
      BY DEF Follows
    <3>2. QED
      BY Zenon, <2>4, <3>1
  <2>6. \A p \in ChildrenOf(r) : \E u \in Live' : u.pid = p
    BY Zenon, <2>4
  <2>7. QED
    BY <2>1, <2>2, <2>5, <2>6, RootFacts
<1>4. QED
  BY Zenon, <1>1, <1>2, <1>3 DEF OneFamily, ChildrenOf

(* The family stays one when such a task does not exit, or has no child.   *)
LEMMA BecomesFamily ==
  ASSUME IInv, OneFamily, NEW t, NEW s, Becomes(t, s),
         s.state = "Terminated" => t.state = "Terminated" \/ t.childrenPids = <<>>
  PROVE  OneFamily'
<1>1. ASSUME NEW u \in Live'
      PROVE  \E v \in Live : /\ Follows(u, v)
                             /\ u.state = "Terminated" =>
                                  v.state = "Terminated" \/ v.childrenPids = <<>>
  BY Zenon DEF Becomes, Follows
<1>2. \A v \in Live : \E u \in Live' : u.pid = v.pid
  BY Zenon DEF Becomes, Follows
<1>3. QED
  BY Zenon, <1>1, <1>2, FamilyKept

(* Woken parents keep their zombie when no task is woken by such a step.   *)
LEMMA BecomesWoken ==
  ASSUME WokenByChild, NEW t, NEW s, Becomes(t, s),
         s.state = "Normal" /\ s.resume = "wait" =>
           /\ t.state = "Normal" /\ t.resume = "wait"
           /\ t.rax = s.rax /\ t.suspensionArg = s.suspensionArg,
         t.state = "Terminated" => s.state = "Terminated"
  PROVE  WokenByChild'
<1>1. \A u \in Live' : u.state = "Normal" /\ u.resume = "wait" =>
        \E v \in Live : /\ v.state = "Normal" /\ v.resume = "wait"
                        /\ v.rax = u.rax /\ v.suspensionArg = u.suspensionArg
  BY Zenon DEF Becomes
<1>2. \A z \in Live : z.state = "Terminated" =>
        \E y \in Live' : y.pid = z.pid /\ y.state = "Terminated"
  BY Zenon DEF Becomes, Follows
<1>3. QED
  BY <1>1, <1>2 DEF WokenByChild

-----------------------------------------------------------------------------
(* The order of the queue.                                                 *)

(* A step that pushes and pops nothing, finishes no queued task, and gives *)
(* the core none.                                                          *)
LEMMA SameOrder ==
  ASSUME QueueOrder, DOMAIN taskQueue' = DOMAIN taskQueue, Len(taskQueue') = Len(taskQueue),
         \A k \in DOMAIN taskQueue : Unfinished(k)' => Unfinished(k),
         Owns(Bsp)' => Owns(Bsp),
         pc'[Bsp] = "scan" /\ found'[Bsp] =>
           /\ pc[Bsp] = "scan" /\ found[Bsp]
           /\ \A k \in DOMAIN taskQueue : k >= i'[Bsp] => k >= i[Bsp]
  PROVE  QueueOrder'
BY Zenon DEF QueueOrder

(* The queue is a vector of tasks.                                         *)
LEMMA QueueShape ==
  IInv => /\ taskQueue \in Seq(Task) /\ Len(taskQueue) \in Nat
          /\ DOMAIN taskQueue = 1..Len(taskQueue)
<1> SUFFICES ASSUME IInv PROVE /\ taskQueue \in Seq(Task) /\ Len(taskQueue) \in Nat
                               /\ DOMAIN taskQueue = 1..Len(taskQueue)
  BY Zenon
<1>1. taskQueue \in Seq(Task)
  BY Zenon, IInvParts DEF TypeOK
<1>2. QED
  BY <1>1

(* The core pushes a task: the one it had, or a new one when no queued     *)
(* task is unfinished.                                                     *)
LEMMA PushOrder ==
  ASSUME IInv, QueueOrder, NEW t \in Task, taskQueue' = Append(taskQueue, t),
         Owns(Bsp), pc'[Bsp] # "scan",
         Owns(Bsp)' => \A k \in DOMAIN taskQueue : ~Unfinished(k)
  PROVE  QueueOrder'
<1> DEFINE n == Len(taskQueue)
<1>1. taskQueue \in Seq(Task) /\ n \in Nat /\ DOMAIN taskQueue = 1..n
  BY Zenon, QueueShape
<1>2. /\ DOMAIN taskQueue' = 1..(n + 1) /\ Len(taskQueue') = n + 1
      /\ \A k \in 1..n : taskQueue'[k] = taskQueue[k]
  BY <1>1
<1>3. \A k \in 1..n : Unfinished(k)' <=> Unfinished(k)
  BY Zenon, <1>2 DEF Unfinished
<1>4. \A k \in 1..n : Unfinished(k) => k = n
  BY Zenon, <1>1 DEF QueueOrder
<1> HIDE DEF n
<1>5. ASSUME NEW j \in 1..(n + 1), NEW k \in 1..(n + 1), j < k, Unfinished(j)'
      PROVE  k = n + 1 /\ k = j + 1
  <2>1. j \in 1..n
    BY <1>1, <1>5
  <2>2. j = n
    BY Zenon, <1>3, <1>4, <1>5, <2>1
  <2>3. QED
    BY <1>1, <1>5, <2>2
<1>6. Owns(Bsp)' => \A k \in 1..(n + 1) : Unfinished(k)' => k = n + 1
  <2>1. \A k \in 1..(n + 1) : k \in 1..n \/ k = n + 1
    BY <1>1
  <2>2. QED
    BY Zenon, <1>1, <1>3, <2>1
<1>7. QED
  BY Zenon, <1>2, <1>5, <1>6 DEF QueueOrder

(* The scan pops a task, and leaves at most one that is unfinished: the    *)
(* last one, which it has passed.                                          *)
LEMMA ScanPopOrder ==
  ASSUME IInv, QueueOrder, ScanPop(Bsp), ~found[Bsp], Bsp \in Cores
  PROVE  QueueOrder'
<1> DEFINE n == Len(taskQueue)
           p == i[Bsp]
<1>1. taskQueue \in Seq(Task) /\ n \in Nat /\ DOMAIN taskQueue = 1..n
  BY Zenon, QueueShape
<1>2. p \in 1..n /\ Unfinished(p) /\ taskQueue' = Pop(taskQueue, p) /\ i'[Bsp] = p + 1
  <2>1. p \in Nat /\ p >= 1 /\ p <= n
    BY IInvParts DEF ScanPop, LocalInv, TypeOK
  <2>2. p \in 1..n
    BY <1>1, <2>1
  <2>3. Unfinished(p) /\ taskQueue' = Pop(taskQueue, p)
    BY DEF ScanPop, Runnable, Unfinished
  <2>4. i'[Bsp] = p + 1
    BY IInvParts DEF ScanPop, TypeOK
  <2>5. QED
    BY Zenon, <2>2, <2>3, <2>4
<1>3. /\ DOMAIN taskQueue' = 1..(n - 1) /\ Len(taskQueue') = n - 1
      /\ \A k \in 1..(n - 1) : \E m \in 1..n :
           m # p /\ m \in {k, k + 1} /\ (m = k <=> k < p) /\ taskQueue'[k] = taskQueue[m]
  <2>1. /\ taskQueue' \in Seq(Task) /\ Len(taskQueue') = n - 1
        /\ \A k \in 1..(n - 1) :
             taskQueue'[k] = IF k < p THEN taskQueue[k] ELSE taskQueue[k + 1]
    BY Zenon, <1>1, <1>2, PopProperties
  <2> HIDE DEF n, p
  <2>2. DOMAIN taskQueue' = 1..(n - 1)
    BY <2>1
  <2>3. QED
    BY <1>1, <1>2, <2>1, <2>2
<1> HIDE DEF n, p
<1>4. \A j, k \in 1..n : j < k /\ Unfinished(j) /\ Unfinished(k) => k = n /\ k = j + 1
  BY Zenon, <1>1 DEF QueueOrder, n
<1>5. ASSUME NEW k \in 1..(n - 1), Unfinished(k)' PROVE k = n - 1 /\ ~(k >= p + 1)
  <2>1. PICK m \in 1..n :
          m # p /\ m \in {k, k + 1} /\ (m = k <=> k < p) /\ taskQueue'[k] = taskQueue[m]
    BY Zenon, <1>3
  <2>2. Unfinished(m)
    BY Zenon, <1>5, <2>1 DEF Unfinished
  <2>3. CASE m < p
    <3>1. p = n /\ p = m + 1
      BY Zenon, <1>2, <1>4, <2>2, <2>3
    <3>2. QED
      BY <1>1, <1>2, <2>1, <2>3, <3>1
  <2>4. CASE p < m
    <3>1. m = n /\ m = p + 1
      BY Zenon, <1>2, <1>4, <2>2, <2>4
    <3>2. QED
      BY SMTT(30), <1>1, <1>2, <2>1, <2>4, <3>1
  <2>5. QED
    BY <1>1, <1>2, <2>1, <2>3, <2>4
<1>6. \A j, k \in 1..(n - 1) : ~(j < k /\ j = n - 1 /\ k = n - 1)
  BY <1>1
<1>7. QED
  BY Zenon, <1>2, <1>3, <1>5, <1>6 DEF QueueOrder

(* WaitForChild pops a zombie while the core has the parent.               *)
LEMMA ReapOrder ==
  ASSUME IInv, QueueOrder, NEW p \in 1..Len(taskQueue), ~Unfinished(p),
         taskQueue' = Pop(taskQueue, p), Owns(Bsp), pc'[Bsp] # "scan"
  PROVE  QueueOrder'
<1> DEFINE n == Len(taskQueue)
<1>1. taskQueue \in Seq(Task) /\ n \in Nat /\ DOMAIN taskQueue = 1..n
  BY Zenon, QueueShape
<1>2. /\ DOMAIN taskQueue' = 1..(n - 1) /\ Len(taskQueue') = n - 1
      /\ \A k \in 1..(n - 1) :
           taskQueue'[k] = IF k < p THEN taskQueue[k] ELSE taskQueue[k + 1]
  <2>1. /\ taskQueue' \in Seq(Task) /\ Len(taskQueue') = n - 1
        /\ \A k \in 1..(n - 1) :
             taskQueue'[k] = IF k < p THEN taskQueue[k] ELSE taskQueue[k + 1]
    BY Zenon, <1>1, PopProperties
  <2>2. QED
    BY <2>1
<1>3. \A k \in 1..n : Unfinished(k) => k = n
  BY Zenon, <1>1 DEF QueueOrder
<1>4. p \in 1..n
  OBVIOUS
<1> HIDE DEF n
<1>5. ASSUME NEW k \in 1..(n - 1), Unfinished(k)' PROVE k = n - 1
  <2>1. CASE k < p
    <3>1. k \in 1..n /\ k # n
      BY <1>1
    <3>2. QED
      BY Zenon, <1>2, <1>3, <1>5, <2>1, <3>1 DEF Unfinished
  <2>2. CASE ~(k < p)
    <3>1. k + 1 \in 1..n
      BY <1>1
    <3>2. k + 1 = n
      BY Zenon, <1>2, <1>3, <1>5, <2>2, <3>1 DEF Unfinished
    <3>3. QED
      BY <1>1, <3>2
  <2>3. QED
    BY Zenon, <2>1, <2>2
<1>6. \A j, k \in 1..(n - 1) : ~(j < k /\ j = n - 1 /\ k = n - 1)
  BY <1>1
<1>7. QED
  BY Zenon, <1>2, <1>5, <1>6 DEF QueueOrder

-----------------------------------------------------------------------------
(* The steps of SwitchToNextTask.                                          *)

(* The invariant after a step, and the step of the table.                  *)
Kept == OInv' /\ TableStep

(* The parts that every step has to show.                                  *)
LEMMA KeptByParts ==
  ASSUME OneCore, OneFamily', QueueOrder', WokenByChild', FrameAgrees',
         pc'[Bsp] \notin Panics, TableStep
  PROVE  Kept
BY DEF Kept, OInv, NoPanic, OneCore

(* A step that changes one task, but finishes no parent and wakes none.    *)
LEMMA BecomesKept ==
  ASSUME OneCore, IInv, IInv', OInv, nextPid' = nextPid, NEW t, NEW s, Becomes(t, s),
         Allowed(Shown(t), Shown(s)'),
         s.state = "Terminated" => t.state = "Terminated" \/ t.childrenPids = <<>>,
         s.state = "Normal" /\ s.resume = "wait" =>
           /\ t.state = "Normal" /\ t.resume = "wait"
           /\ t.rax = s.rax /\ t.suspensionArg = s.suspensionArg,
         t.state = "Terminated" => s.state = "Terminated",
         QueueOrder', FrameAgrees', pc'[Bsp] \notin Panics
  PROVE  Kept
<1>1. OneFamily'
  BY Zenon, BecomesFamily, OInvParts
<1>2. WokenByChild'
  BY Zenon, BecomesWoken, OInvParts
<1>3. TableStep
  BY Zenon, BecomesTable
<1>4. QED
  BY Zenon, <1>1, <1>2, <1>3, KeptByParts

(* The task of the core, wherever it goes: the queue stays as a set or     *)
(* gets the task.                                                          *)
LEMMA CoreTaskBecomes ==
  ASSUME OneCore, IInv, IInv', Owns(Bsp), NEW s, Follows(s, currentTask[Bsp]),
         \/ /\ Waiting' = Waiting
            /\ Owns(Bsp)' /\ currentTask'[Bsp] = s
         \/ /\ Waiting' = Waiting \cup {s}
            /\ ~Owns(Bsp)'
  PROVE  Becomes(currentTask[Bsp], s)
<1> DEFINE t == currentTask[Bsp]
<1>1. /\ \A u : u \in Live <=> u \in Waiting \/ u = t
      /\ t \notin Waiting
  BY Zenon, OneCoreLive DEF Mine
<1>2. \A u : u \in Live' <=> u \in Waiting' \/ Mine(u)'
  BY Zenon, OneCoreLiveNext
<1>3. \A u : u \in Live' <=> u \in Waiting \/ u = s
  BY <1>2 DEF Mine
<1>4. \A u : u \in Live' <=> u = s \/ (u \in Live /\ u # t)
  BY Zenon, <1>1, <1>3
<1>5. ASSUME NEW u \in Live, u # t PROVE Mine(u)' <=> Mine(u)
  <2>1. u \in Waiting /\ ~Mine(u)
    BY Zenon, <1>1, <1>5 DEF Mine
  <2>2. u \in Waiting'
    BY <2>1
  <2>3. ~Mine(u)'
    BY Zenon, <2>2, OneCoreLiveNext
  <2>4. QED
    BY Zenon, <2>1, <2>3
<1>6. QED
  BY Zenon, <1>1, <1>4, <1>5 DEF Becomes

(* A task of the queue, changed or taken by the core.                      *)
LEMMA QueuedTaskBecomes ==
  ASSUME OneCore, IInv, IInv', NEW t \in Waiting, NEW s, Follows(s, t),
         \/ /\ \A u : u \in Waiting' <=> u = s \/ (u \in Waiting /\ u # t)
            /\ Owns(Bsp)' <=> Owns(Bsp)
            /\ Owns(Bsp) => currentTask'[Bsp] = currentTask[Bsp]
         \/ /\ \A u : u \in Waiting' <=> u \in Waiting /\ u # t
            /\ ~Owns(Bsp) /\ Owns(Bsp)' /\ currentTask'[Bsp] = s
  PROVE  Becomes(t, s)
<1>1. /\ \A u : u \in Live <=> u \in Waiting \/ Mine(u)
      /\ \A u \in Waiting : ~Mine(u)
  BY Zenon, OneCoreLive
<1>2. /\ \A u : u \in Live' <=> u \in Waiting' \/ Mine(u)'
      /\ \A u \in Waiting' : ~Mine(u)'
  BY Zenon, OneCoreLiveNext
<1>3. CASE /\ \A u : u \in Waiting' <=> u = s \/ (u \in Waiting /\ u # t)
           /\ Owns(Bsp)' <=> Owns(Bsp)
           /\ Owns(Bsp) => currentTask'[Bsp] = currentTask[Bsp]
  <2>1. \A u : Mine(u)' <=> Mine(u)
    BY Zenon, <1>3 DEF Mine
  <2>2. QED
    BY Zenon, <1>1, <1>2, <1>3, <2>1 DEF Becomes
<1>4. CASE /\ \A u : u \in Waiting' <=> u \in Waiting /\ u # t
           /\ ~Owns(Bsp) /\ Owns(Bsp)' /\ currentTask'[Bsp] = s
  <2>1. \A u : Mine(u)' <=> u = s
    BY Zenon, <1>4 DEF Mine
  <2>2. \A u : ~Mine(u)
    BY Zenon, <1>4 DEF Mine
  <2>3. QED
    BY Zenon, <1>1, <1>2, <1>4, <2>1, <2>2 DEF Becomes
<1>5. QED
  BY Zenon, <1>3, <1>4

(* A step that leaves the queue alone, and changes at most how the task of *)
(* the core goes on.                                                       *)
LEMMA QuietStep ==
  ASSUME OneCore, IInv, IInv', OInv, UNCHANGED <<taskQueue, nextPid>>,
         Owns(Bsp)' <=> Owns(Bsp),
         Owns(Bsp) => LET s == currentTask'[Bsp]
                          t == currentTask[Bsp] IN
           /\ Follows(s, t) /\ s.state = t.state
           /\ s.state = "Blocked" => s.resume = t.resume
           /\ s.resume = "wait" =>
                t.resume = "wait" /\ t.rax = s.rax /\ t.suspensionArg = s.suspensionArg,
         pc'[Bsp] = "scan" /\ found'[Bsp] =>
           /\ pc[Bsp] = "scan" /\ found[Bsp]
           /\ \A k \in DOMAIN taskQueue : k >= i'[Bsp] => k >= i[Bsp],
         FrameAgrees', pc'[Bsp] \notin Panics
  PROVE  Kept
<1>1. QueueOrder'
  BY Zenon, SameOrder, OInvParts DEF Unfinished
<1>2. Waiting' = Waiting
  BY Zenon DEF Waiting
<1>3. CASE Owns(Bsp)
  <2>0. PICK t, s : t = currentTask[Bsp] /\ s = currentTask'[Bsp]
    BY Zenon
  <2>1. Becomes(t, s)
    BY Zenon, <1>2, <1>3, <2>0, CoreTaskBecomes
  <2>2. Shown(s)' = Shown(t)
    <3>1. Mine(s)' /\ Mine(t) /\ s.state = t.state /\ (s.state = "Blocked" => s.resume = t.resume)
      BY Zenon, <1>3, <2>0 DEF Mine
    <3>2. QED
      BY <3>1 DEF Shown, Status
  <2>3. s.state = "Terminated" => t.state = "Terminated" \/ t.childrenPids = <<>>
    BY Zenon, <1>3, <2>0
  <2>4. s.state = "Normal" /\ s.resume = "wait" =>
          /\ t.state = "Normal" /\ t.resume = "wait"
          /\ t.rax = s.rax /\ t.suspensionArg = s.suspensionArg
    BY Zenon, <1>3, <2>0
  <2>5. t.state = "Terminated" => s.state = "Terminated"
    BY Zenon, <1>3, <2>0
  <2>6. Allowed(Shown(t), Shown(s)')
    BY Zenon, <2>2 DEF Allowed
  <2>7. QED
    BY Zenon, <1>1, <2>1, <2>3, <2>4, <2>5, <2>6, BecomesKept
<1>4. CASE ~Owns(Bsp)
  <2>1. PICK r \in Live : r.pid = 1
    BY Zenon, OInvParts DEF OneFamily
  <2>2. r \in Waiting
    BY Zenon, <1>4, <2>1, OneCoreLive DEF Mine
  <2>3. Becomes(r, r)
    BY Zenon, <1>2, <1>4, <2>2, QueuedTaskBecomes DEF Follows
  <2>4. Shown(r)' = Shown(r)
    BY Zenon, <1>4 DEF Shown, Mine
  <2>5. QED
    BY Zenon, <1>1, <2>3, <2>4, BecomesKept DEF Allowed
<1>5. QED
  BY Zenon, <1>3, <1>4

(* What every step on the one core starts from.                            *)
LEMMA OneCoreFacts ==
  ASSUME OneCore, WInv, OInv
  PROVE  /\ Bsp \in Cores /\ IInv /\ TypeOK /\ LocalInv(Bsp)
         /\ currentTask[Bsp] \in Task /\ Len(taskQueue) \in Nat
         /\ i[Bsp] \in Nat
         /\ pc \in [Cores -> {"user", "save", "timers", "scan"} \cup InKernelOfTask \cup Panics]
<1>1. Bsp \in Cores /\ IInv
  BY Zenon, SchedulerAssumption, WInvParts
<1>2. TypeOK /\ LocalInv(Bsp) /\ Len(taskQueue) \in Nat
  BY Zenon, <1>1, IInvParts, QueueShape
<1>3. QED
  BY Zenon, <1>1, <1>2 DEF TypeOK

(* What a task is does not depend on how its system call goes on.          *)
LEMMA FollowsItself == \A t : Follows(t, t)
BY Zenon DEF Follows

(* The timer interrupt takes the core into SwitchToNextTask.               *)
LEMMA TimerInterruptOne ==
  ASSUME OneCore, WInv, WInv', OInv, TimerInterrupt(Bsp)
  PROVE  Kept
<1>1. Bsp \in Cores /\ IInv /\ IInv' /\ LocalInv(Bsp)
  BY Zenon, OneCoreFacts DEF WInv
<1>2. /\ pc[Bsp] = "user" /\ pc'[Bsp] = "save"
      /\ UNCHANGED <<taskQueue, nextPid, currentTask, restoreFrame, found, i>>
  BY Zenon, <1>1, OneCoreFacts DEF TimerInterrupt, Goto, locals
<1>3. Owns(Bsp)' <=> Owns(Bsp)
  BY Zenon, <1>1, <1>2 DEF Owns, Running, LocalInv, InKernelOfTask
<1>4. FrameAgrees' /\ pc'[Bsp] \notin Panics
  BY Zenon, <1>2 DEF FrameAgrees, Panics
<1>5. QED
  BY Zenon, <1>1, <1>2, <1>3, <1>4, FollowsItself, QuietStep

(* A timer that has not expired.                                           *)
LEMMA TimerRunsOne ==
  ASSUME OneCore, WInv, WInv', OInv, TimerRuns(Bsp)
  PROVE  Kept
<1>1. Bsp \in Cores /\ IInv /\ IInv'
  BY Zenon, OneCoreFacts DEF WInv
<1>2. /\ pc[Bsp] = "timers" /\ pc' = pc
      /\ UNCHANGED <<taskQueue, nextPid, currentTask, restoreFrame, found>>
  BY Zenon DEF TimerRuns
<1>3. Owns(Bsp)' <=> Owns(Bsp)
  BY Zenon, <1>2 DEF Owns, Running
<1>4. FrameAgrees' /\ pc'[Bsp] \notin Panics
  BY Zenon, <1>2 DEF FrameAgrees, Panics
<1>5. QED
  BY Zenon, <1>1, <1>2, <1>3, <1>4, FollowsItself, QuietStep

(* The scan begins, with no task found.                                    *)
LEMMA BeginScanOne ==
  ASSUME OneCore, WInv, WInv', OInv, BeginScan(Bsp)
  PROVE  Kept
<1>1. Bsp \in Cores /\ IInv /\ IInv' /\ LocalInv(Bsp)
  BY Zenon, OneCoreFacts DEF WInv
<1>2. /\ pc[Bsp] = "timers" /\ pc'[Bsp] = "scan"
      /\ UNCHANGED <<taskQueue, nextPid, currentTask, restoreFrame, found>>
  BY Zenon, <1>1, OneCoreFacts DEF BeginScan, Goto
<1>3. ~found'[Bsp]
  BY Zenon, <1>1, <1>2 DEF LocalInv
<1>4. ~Owns(Bsp)' /\ ~Owns(Bsp)
  BY Zenon, <1>2, <1>3 DEF Owns, Running, InKernelOfTask
<1>5. FrameAgrees' /\ pc'[Bsp] \notin Panics
  BY Zenon, <1>2 DEF FrameAgrees, Panics
<1>6. QED
  BY Zenon, <1>1, <1>2, <1>3, <1>4, <1>5, QuietStep

(* The scan passes a task that is not Normal.                              *)
LEMMA ScanSkipOne ==
  ASSUME OneCore, WInv, WInv', OInv, ScanSkip(Bsp)
  PROVE  Kept
<1>1. Bsp \in Cores /\ IInv /\ IInv' /\ i[Bsp] \in Nat
  BY Zenon, OneCoreFacts DEF WInv
<1>2. /\ pc[Bsp] = "scan" /\ pc' = pc /\ i'[Bsp] = i[Bsp] + 1
      /\ UNCHANGED <<taskQueue, nextPid, currentTask, restoreFrame, found>>
  BY Zenon, <1>1, OneCoreFacts DEF ScanSkip, TypeOK
<1>3. Owns(Bsp)' <=> Owns(Bsp)
  BY Zenon, <1>2 DEF Owns, Running
<1>4. FrameAgrees' /\ pc'[Bsp] \notin Panics
  BY Zenon, <1>2 DEF FrameAgrees, Panics
<1>5. \A k \in DOMAIN taskQueue : k >= i'[Bsp] => k >= i[Bsp]
  BY <1>1, <1>2, QueueShape
<1>6. QED
  BY Zenon, <1>1, <1>2, <1>3, <1>4, <1>5, FollowsItself, QuietStep

(* The end of the switch: the core goes on with the task it found.         *)
LEMMA DispatchOne ==
  ASSUME OneCore, WInv, WInv', OInv, Dispatch(Bsp)
  PROVE  Kept
<1> DEFINE next == IF found[Bsp] THEN currentTask[Bsp] ELSE Idle
<1>1. Bsp \in Cores /\ IInv /\ IInv'
  BY Zenon, OneCoreFacts DEF WInv
<1>2. /\ pc[Bsp] = "scan" /\ currentTask'[Bsp] = next /\ pc'[Bsp] = next.resume
      /\ restoreFrame'[Bsp] = found[Bsp] /\ found'[Bsp] = FALSE
      /\ UNCHANGED <<taskQueue, nextPid>>
  BY Zenon, <1>1, OneCoreFacts DEF Dispatch, Goto, TypeOK
<1>3. Idle.resume = "user" /\ Idle.pid = 0
  BY Zenon DEF Idle, NewTask
<1>4. pc'[Bsp] \in {"user", "sleep", "read", "wait"}
  <2>1. currentTask[Bsp].resume \in {"user", "sleep", "read", "wait"}
    BY Zenon, OneCoreFacts DEF Task
  <2>2. QED
    BY Zenon, <1>2, <1>3, <2>1
<1>5. CASE found[Bsp]
  <2>1. Owns(Bsp) /\ currentTask[Bsp].pid # 0 /\ currentTask'[Bsp] = currentTask[Bsp]
    BY Zenon, <1>1, <1>2, <1>5, LiveProperties DEF Owns
  <2>2. Owns(Bsp)'
    BY Zenon, <1>2, <1>4, <2>1 DEF Owns, Running, InKernelOfTask
  <2>3. FrameAgrees' /\ pc'[Bsp] \notin Panics
    BY Zenon, <1>2, <1>4 DEF FrameAgrees, Panics
  <2>4. QED
    BY Zenon, <1>1, <1>2, <1>4, <2>1, <2>2, <2>3, FollowsItself, QuietStep
<1>6. CASE ~found[Bsp]
  <2>1. ~Owns(Bsp) /\ ~Owns(Bsp)'
    BY Zenon, <1>2, <1>3, <1>6 DEF Owns, Running, InKernelOfTask
  <2>2. FrameAgrees' /\ pc'[Bsp] \notin Panics
    BY Zenon, <1>2, <1>4 DEF FrameAgrees, Panics
  <2>3. QED
    BY Zenon, <1>1, <1>2, <1>4, <2>1, <2>2, QuietStep
<1>7. QED
  BY Zenon, <1>5, <1>6

(* The core pushes its task, in whatever state, or has none to push.       *)
LEMMA SaveTaskOne ==
  ASSUME OneCore, WInv, WInv', OInv, SaveTask(Bsp)
  PROVE  Kept
<1>1. Bsp \in Cores /\ IInv /\ IInv'
  BY Zenon, OneCoreFacts DEF WInv
<1>2. /\ pc[Bsp] = "save" /\ pc'[Bsp] = "timers" /\ nextPid' = nextPid
      /\ taskQueue' = IF restoreFrame[Bsp] THEN Append(taskQueue, currentTask[Bsp])
                                           ELSE taskQueue
  BY Zenon, <1>1, OneCoreFacts DEF SaveTask, Locked, Goto
<1>3. Owns(Bsp) <=> restoreFrame[Bsp]
  BY Zenon, <1>2 DEF Owns, Running, InKernelOfTask
<1>4. ~Owns(Bsp)' /\ FrameAgrees' /\ pc'[Bsp] \notin Panics
  BY Zenon, <1>2 DEF Owns, Running, InKernelOfTask, FrameAgrees, Panics
<1>5. CASE restoreFrame[Bsp]
  <2>1. PICK t : t = currentTask[Bsp]
    BY Zenon
  <2>2. t \in Task /\ taskQueue' = Append(taskQueue, t)
    BY Zenon, <1>2, <1>5, <2>1, OneCoreFacts
  <2>3. Waiting' = Waiting \cup {t}
    BY Zenon, <1>1, <2>2, WaitingPush
  <2>4. Becomes(t, t)
    BY Zenon, <1>1, <1>3, <1>4, <1>5, <2>1, <2>3, FollowsItself, CoreTaskBecomes
  <2>5. Mine(t) /\ ~Mine(t)'
    BY Zenon, <1>3, <1>4, <1>5, <2>1 DEF Mine
  <2>6. t.state \in States
    BY Zenon, <2>2 DEF Task
  <2>7. Allowed(Shown(t), Shown(t)')
    BY <2>5, <2>6 DEF Allowed, Shown, Status, States
  <2>8. QueueOrder'
    BY Zenon, <1>1, <1>2, <1>3, <1>4, <1>5, <2>2, PushOrder, OInvParts
  <2>9. QED
    BY Zenon, <1>1, <1>2, <1>4, <2>4, <2>7, <2>8, BecomesKept
<1>6. CASE ~restoreFrame[Bsp]
  BY Zenon, <1>1, <1>2, <1>3, <1>4, <1>6, QuietStep
<1>7. QED
  BY Zenon, <1>5, <1>6

(* The scan takes a Normal task: the only one it takes.                    *)
LEMMA ScanPopOne ==
  ASSUME OneCore, WInv, WInv', OInv, ScanPop(Bsp)
  PROVE  Kept
<1>1. Bsp \in Cores /\ IInv /\ IInv' /\ LocalInv(Bsp) /\ i[Bsp] \in Nat /\ Len(taskQueue) \in Nat
  BY Zenon, OneCoreFacts DEF WInv
<1>2. PICK t : t = taskQueue[i[Bsp]]
  BY Zenon
<1>3. /\ pc[Bsp] = "scan" /\ pc' = pc /\ nextPid' = nextPid
      /\ taskQueue' = Pop(taskQueue, i[Bsp]) /\ t.state = "Normal"
      /\ currentTask'[Bsp] = t /\ found'[Bsp]
  BY Zenon, <1>1, <1>2, OneCoreFacts DEF ScanPop, Runnable, TypeOK
<1>4. i[Bsp] \in 1..Len(taskQueue)
  BY <1>1, <1>3 DEF ScanPop, LocalInv
<1>5. ~found[Bsp]
  <2>1. i[Bsp] \in DOMAIN taskQueue /\ Unfinished(i[Bsp])
    BY SMTT(30), <1>1, <1>2, <1>3, <1>4, QueueShape DEF Unfinished
  <2>2. i[Bsp] >= i[Bsp]
    BY <1>1
  <2>3. QED
    BY Zenon, <1>3, <2>1, <2>2, OInvParts DEF QueueOrder
<1>6. QueueOrder'
  BY Zenon, <1>1, <1>5, ScanPopOrder, OInvParts
<1>7. ~Owns(Bsp) /\ Owns(Bsp)'
  BY Zenon, <1>3, <1>5 DEF Owns, Running, InKernelOfTask
<1>8. Waiting' = Waiting \ {t} /\ t \in Waiting
  BY Zenon, <1>1, <1>2, <1>3, <1>4, WaitingPop
<1>9. \A u : u \in Waiting' <=> u \in Waiting /\ u # t
  BY Zenon, <1>8
<1>10. Becomes(t, t)
  BY Zenon, <1>1, <1>3, <1>7, <1>8, <1>9, FollowsItself, QueuedTaskBecomes
<1>11. ~Mine(t) /\ Mine(t)'
  BY Zenon, <1>3, <1>7 DEF Mine
<1>12. Allowed(Shown(t), Shown(t)')
  BY <1>3, <1>11 DEF Allowed, Shown, Status
<1>13. FrameAgrees' /\ pc'[Bsp] \notin Panics
  BY Zenon, <1>3 DEF FrameAgrees, Panics
<1>14. QED
  BY Zenon, <1>1, <1>3, <1>6, <1>10, <1>12, <1>13, BecomesKept

(* Unsuspend changes one task of the queue, and finishes none.             *)
LEMMA UnsuspendedOrder ==
  ASSUME IInv, QueueOrder, NEW pid, Queued(pid), NEW value,
         taskQueue' = Unsuspended(pid, value),
         GetTask(pid).state # "Terminated",
         Owns(Bsp)' => Owns(Bsp), pc'[Bsp] # "scan"
  PROVE  QueueOrder'
<1> DEFINE p == Position(pid)
<1>1. taskQueue \in Seq(Task) /\ DOMAIN taskQueue = 1..Len(taskQueue) /\ p \in 1..Len(taskQueue)
  BY Zenon, QueueShape, PositionProperties, IInvParts
<1>2. PICK w : taskQueue' = [taskQueue EXCEPT ![p] = w]
  BY Zenon DEF Unsuspended
<1>3. Unfinished(p)
  BY Zenon DEF Unfinished, GetTask
<1> HIDE DEF p
<1>4. /\ DOMAIN taskQueue' = DOMAIN taskQueue /\ Len(taskQueue') = Len(taskQueue)
      /\ \A k \in DOMAIN taskQueue : k # p => taskQueue'[k] = taskQueue[k]
  BY <1>1, <1>2
<1>5. \A k \in DOMAIN taskQueue : Unfinished(k)' => Unfinished(k)
  BY Zenon, <1>3, <1>4 DEF Unfinished
<1>6. QED
  BY Zenon, <1>4, <1>5, SameOrder

(* A timer or the terminal wakes a task that is blocked in Sleep or Read.  *)
LEMMA WakeOne ==
  ASSUME OneCore, IInv, IInv', OInv, nextPid' = nextPid, NEW pid, Queued(pid),
         taskQueue' = Unsuspended(pid, 0),
         NEW kind \in {"sleep", "read"}, BlockedIn(GetTask(pid), kind),
         Owns(Bsp)' <=> Owns(Bsp),
         Owns(Bsp) => currentTask'[Bsp] = currentTask[Bsp],
         FrameAgrees', pc'[Bsp] # "scan", pc'[Bsp] \notin Panics
  PROVE  Kept
<1>1. PICK g : g = GetTask(pid)
  BY Zenon
<1>2. g \in Waiting /\ g.pid = pid /\ g.state = "Blocked" /\ g.resume = kind
  BY Zenon, <1>1, GetTaskProperties DEF BlockedIn
<1>3. 0 \in Pids
  BY SchedulerAssumption DEF Pids
<1>4. PICK w \in Task :
        /\ Waiting' = (Waiting \ {g}) \cup {w} /\ w.state = "Normal" /\ w.pid = pid
        /\ w.parentPid = g.parentPid /\ w.childrenPids = g.childrenPids /\ w.resume = g.resume
  BY SMTT(30), <1>1, <1>3, WaitingUnsuspended
<1>5. Follows(w, g)
  BY Zenon, <1>2, <1>4 DEF Follows
<1>6. \A u : u \in Waiting' <=> u = w \/ (u \in Waiting /\ u # g)
  BY Zenon, <1>4
<1>7. Becomes(g, w)
  BY Zenon, <1>2, <1>5, <1>6, QueuedTaskBecomes
<1>8. ~Mine(g) /\ ~Mine(w)'
  BY Zenon, <1>2, <1>6, OneCoreLive, OneCoreLiveNext
<1>9. Allowed(Shown(g), Shown(w)')
  BY SMTT(30), <1>2, <1>4, <1>8 DEF Allowed, Shown, Status
<1>10. QueueOrder'
  BY Zenon, <1>1, <1>2, UnsuspendedOrder, OInvParts
<1>11. w.resume # "wait" /\ w.state # "Terminated" /\ g.state # "Terminated"
  BY Zenon, <1>2, <1>4
<1>12. QED
  BY Zenon, <1>7, <1>9, <1>10, <1>11, BecomesKept

(* An expired timer wakes its task.                                        *)
LEMMA TimerExpiresOne ==
  ASSUME OneCore, WInv, WInv', OInv, TimerExpires(Bsp)
  PROVE  Kept
<1>1. Bsp \in Cores /\ IInv /\ IInv'
  BY Zenon, OneCoreFacts DEF WInv
<1>2. PICK pid : pid = timerEntries[Bsp][i[Bsp]].pid
  BY Zenon
<1>3. Queued(pid) /\ CanUnsuspend(pid) /\ BlockedIn(GetTask(pid), "sleep")
  BY Zenon, <1>1, <1>2, ExpiredTaskIsAsleep
<1>4. /\ pc[Bsp] = "timers" /\ pc'[Bsp] = "timers" /\ nextPid' = nextPid
      /\ taskQueue' = Unsuspended(pid, 0)
  BY Zenon, <1>1, <1>2, <1>3, OneCoreFacts DEF TimerExpires, Locked, Goto
<1>5. ~Owns(Bsp) /\ ~Owns(Bsp)'
  BY Zenon, <1>4 DEF Owns, Running, InKernelOfTask
<1>6. FrameAgrees' /\ pc'[Bsp] # "scan" /\ pc'[Bsp] \notin Panics
  BY Zenon, <1>4 DEF FrameAgrees, Panics
<1>7. QED
  BY Zenon, <1>1, <1>3, <1>4, <1>5, <1>6, WakeOne

(* The terminal wakes its oldest reader, which is in the queue, blocked.   *)
LEMMA KeyboardInterruptOne ==
  ASSUME OneCore, WInv, WInv', OInv, KeyboardInterrupt(Bsp)
  PROVE  Kept
<1>1. Bsp \in Cores /\ IInv /\ IInv' /\ LocalInv(Bsp)
  BY Zenon, OneCoreFacts DEF WInv
<1>2. PICK pid : pid = Head(unblockQueue)
  BY Zenon
<1>3. pid = unblockQueue[1] /\ 1 \in DOMAIN unblockQueue
  BY SMTT(30), <1>1, <1>2, OneCoreFacts DEF KeyboardInterrupt, TypeOK
<1>4. PICK t \in Live : t.pid = pid /\ BlockedIn(t, "read")
  BY Zenon, <1>3, WInvParts DEF Readers
<1>5. pc[Bsp] = "user" /\ currentTask[Bsp].state = "Normal"
  BY Zenon, <1>1 DEF KeyboardInterrupt, LocalInv
<1>6. t \in Waiting
  BY Zenon, <1>1, <1>4, <1>5, OneCoreLive DEF Mine, BlockedIn
<1>7. Queued(pid) /\ GetTask(pid) = t
  BY Zenon, <1>1, <1>4, <1>6, GetTaskProperties
<1>8. CanUnsuspend(pid)
  BY Zenon, <1>4, <1>7 DEF CanUnsuspend, BlockedIn
<1>9. /\ pc'[Bsp] = "user" /\ taskQueue' = Unsuspended(pid, 0)
      /\ UNCHANGED <<nextPid, currentTask, restoreFrame, found>>
  BY Zenon, <1>1, <1>2, <1>8, OneCoreFacts DEF KeyboardInterrupt, Locked, Goto, locals
<1>10. Owns(Bsp)' <=> Owns(Bsp)
  BY Zenon, <1>5, <1>9 DEF Owns, Running
<1>11. FrameAgrees' /\ pc'[Bsp] # "scan" /\ pc'[Bsp] \notin Panics
  BY Zenon, <1>5, <1>9, OInvParts DEF FrameAgrees, Panics
<1>12. QED
  BY Zenon, <1>1, <1>4, <1>7, <1>9, <1>10, <1>11, WakeOne

-----------------------------------------------------------------------------
(* The system calls.                                                       *)

(* Sleep and Read return to user mode.                                     *)
LEMMA ResumeBlockedOne ==
  ASSUME OneCore, WInv, WInv', OInv, ResumeBlocked(Bsp)
  PROVE  Kept
<1>1. Bsp \in Cores /\ IInv /\ IInv' /\ LocalInv(Bsp) /\ currentTask[Bsp] \in Task
  BY Zenon, OneCoreFacts DEF WInv
<1>2. currentTask[Bsp].home = Bsp
  BY <1>1 DEF Task, OneCore
<1>3. pc[Bsp] \in {"sleep", "read"} /\ currentTask[Bsp].state = "Normal"
  BY Zenon, <1>1 DEF ResumeBlocked, LocalInv, InKernelOfTask
<1> DEFINE s == [currentTask[Bsp] EXCEPT !.resume = "user", !.home = Bsp]
<1>4. /\ pc'[Bsp] = "user" /\ currentTask' = [currentTask EXCEPT ![Bsp] = s]
      /\ UNCHANGED <<taskQueue, nextPid, restoreFrame, found>>
  BY Zenon, <1>1, <1>2, <1>3, OneCoreFacts DEF ResumeBlocked, Goto, locals
<1>5. /\ Follows(s, currentTask[Bsp]) /\ s.state = "Normal" /\ s.resume = "user"
      /\ s.pid = currentTask[Bsp].pid
  BY Zenon, <1>1, <1>3 DEF Follows, Task
<1> HIDE DEF s
<1>6. currentTask'[Bsp] = s
  BY Zenon, <1>1, <1>4, OneCoreFacts DEF TypeOK
<1>7. Owns(Bsp) /\ Owns(Bsp)'
  <2>1. Owns(Bsp)
    BY Zenon, <1>3 DEF Owns, InKernelOfTask
  <2>2. QED
    BY SMTT(30), <1>1, <1>4, <1>5, <1>6, <2>1, LiveProperties DEF Owns, Running
<1>8. FrameAgrees' /\ pc'[Bsp] \notin Panics
  BY Zenon, <1>4, <1>5, <1>6 DEF FrameAgrees, Panics
<1>9. QED
  BY Zenon, <1>1, <1>3, <1>4, <1>5, <1>6, <1>7, <1>8, QuietStep

(* A zombie that a task has as a child, or finds in rax, is no parent, and *)
(* that task is the first one.                                             *)
LEMMA ZombieIsChild ==
  ASSUME OneCore, WInv, OInv, NEW z \in Live, z.state = "Terminated",
         NEW t \in Live, t.state # "Terminated", z.pid = t.rax \/ z.pid \in ChildrenOf(t)
  PROVE  z.pid # 1 /\ t.pid = 1 /\ z.pid \in ChildrenOf(t)
<1>1. IInv /\ OneFamily
  BY Zenon, OneCoreFacts, OInvParts
<1>2. z.pid # 1
  <2>1. SUFFICES ASSUME z.pid = 1 PROVE FALSE
    BY Zenon
  <2>2. z.childrenPids = <<>> /\ t.pid # 1
    BY SMTT(30), <1>1, <2>1, LiveProperties DEF OneFamily
  <2>3. t.pid \in ChildrenOf(z)
    BY <1>1, <2>1, <2>2 DEF OneFamily
  <2>4. QED
    BY <2>2, <2>3 DEF ChildrenOf
<1>3. z.parentPid = 1
  BY Zenon, <1>1, <1>2 DEF OneFamily
<1>4. t.pid = 1
  BY Zenon, <1>3, WInvParts DEF Families
<1>5. z.pid \in ChildrenOf(t)
  BY <1>1, <1>2, <1>4 DEF OneFamily
<1>6. QED
  BY Zenon, <1>2, <1>4, <1>5

(* WaitForChild resumes: the child that woke it is a zombie in the queue.  *)
LEMMA ResumeWaitOne ==
  ASSUME OneCore, WInv, WInv', OInv, ResumeWait(Bsp)
  PROVE  Kept
<1>1. Bsp \in Cores /\ IInv /\ IInv' /\ LocalInv(Bsp) /\ currentTask[Bsp] \in Task
  BY Zenon, OneCoreFacts DEF WInv
<1>2. PICK t : t = currentTask[Bsp]
  BY Zenon
<1>3. t.home = Bsp
  BY <1>1, <1>2 DEF Task, OneCore
<1>4. pc[Bsp] = "wait" /\ t.state = "Normal" /\ t.resume = "wait" /\ Mine(t)
  BY Zenon, <1>1, <1>2, OInvParts
     DEF ResumeWait, LocalInv, InKernelOfTask, FrameAgrees, Mine, Owns
<1>5. t \in Live
  BY Zenon, <1>1, <1>4, OneCoreLive
<1>6. PICK z \in Live : z.pid = t.rax /\ z.state = "Terminated" /\ t.suspensionArg \in {0, t.rax}
  BY Zenon, <1>4, <1>5, OInvParts DEF WokenByChild
<1>7. z \in Waiting
  BY Zenon, <1>1, <1>2, <1>4, <1>6, OneCoreLive DEF Mine
<1>8. Queued(t.rax) /\ GetTask(t.rax) = z
  BY Zenon, <1>1, <1>6, <1>7, GetTaskProperties
<1>9. Locked(Bsp, TRUE, "reap", "panicChild")
  BY Zenon, <1>2, <1>3, <1>4, <1>6, <1>8 DEF ResumeWait, Locked
<1>10. /\ pc'[Bsp] = "reap"
       /\ UNCHANGED <<taskQueue, nextPid, currentTask, restoreFrame, found>>
  BY Zenon, <1>1, <1>9, OneCoreFacts DEF ResumeWait, Locked, Goto, locals
<1>11. Owns(Bsp) /\ Owns(Bsp)'
  BY Zenon, <1>4, <1>10 DEF Owns, InKernelOfTask
<1>12. FrameAgrees' /\ pc'[Bsp] \notin Panics
  BY Zenon, <1>10 DEF FrameAgrees, Panics
<1>13. QED
  BY Zenon, <1>1, <1>10, <1>11, <1>12, FollowsItself, QuietStep

(* A system call that changes the state of its task, which stays on the    *)
(* core to be saved.                                                       *)
LEMMA StopOne ==
  ASSUME OneCore, WInv, IInv', OInv, Running(Bsp), UNCHANGED <<taskQueue, nextPid>>,
         pc'[Bsp] = "save", Owns(Bsp)',
         LET s == currentTask'[Bsp]
             t == currentTask[Bsp] IN
           /\ Follows(s, t) /\ s.state \in States \ {"Normal"}
           /\ s.state = "Terminated" => t.childrenPids = <<>>
  PROVE  Kept
<1>1. Bsp \in Cores /\ IInv /\ LocalInv(Bsp)
  BY Zenon, OneCoreFacts
<1>2. PICK s, t : s = currentTask'[Bsp] /\ t = currentTask[Bsp]
  BY Zenon
<1>3. Owns(Bsp) /\ t.state = "Normal"
  BY Zenon, <1>1, <1>2 DEF Owns, Running, LocalInv
<1>4. Waiting' = Waiting
  BY Zenon DEF Waiting
<1>5. Becomes(t, s)
  BY Zenon, <1>1, <1>2, <1>3, <1>4, CoreTaskBecomes
<1>6. Mine(t) /\ Mine(s)' /\ s.state \in States \ {"Normal"}
  BY Zenon, <1>2, <1>3 DEF Mine
<1>7. Allowed(Shown(t), Shown(s)')
  BY <1>3, <1>6 DEF Allowed, Shown, Status, States
<1>8. QueueOrder'
  BY Zenon, <1>3, SameOrder, OInvParts DEF Unfinished
<1>9. FrameAgrees' /\ pc'[Bsp] \notin Panics
  BY Zenon DEF FrameAgrees, Panics
<1>10. s.state # "Normal" /\ (s.state = "Terminated" => t.childrenPids = <<>>)
  BY Zenon, <1>2
<1>11. QED
  BY Zenon, <1>1, <1>3, <1>5, <1>7, <1>8, <1>9, <1>10, BecomesKept

(* SuspendSystemCall in SleepCurrentTask, Read or WaitForChild.            *)
LEMMA SuspendOne ==
  ASSUME OneCore, WInv, IInv', OInv, Running(Bsp),
         NEW state \in {"Blocked", "WaitingForChild"}, NEW arg \in Pids,
         NEW kind \in {"sleep", "read", "wait"}, Suspend(Bsp, state, arg, kind),
         UNCHANGED <<taskQueue, nextPid, restoreFrame, found>>
  PROVE  Kept
<1>1. Bsp \in Cores /\ IInv /\ state \in States \ {"Normal"} /\ state # "Terminated"
  BY Zenon, OneCoreFacts DEF States
<1>2. /\ Owns(Bsp)' /\ pc'[Bsp] = "save"
      /\ LET s == currentTask'[Bsp]
             t == currentTask[Bsp] IN
           /\ s.pid = t.pid /\ s.parentPid = t.parentPid
           /\ s.childrenPids = t.childrenPids /\ s.state = state
  BY <1>1, SuspendTask
<1>3. QED
  BY Zenon, <1>1, <1>2, StopOne DEF Follows

(* SleepCurrentTask and a blocking read suspend their task.                *)
LEMMA BlockOne ==
  ASSUME OneCore, WInv, WInv', OInv,
         BlockingRead(Bsp) \/ \E ms \in SleepTimes : SleepCurrentTask(Bsp, ms)
  PROVE  Kept
<1>1. 0 \in Pids
  BY SchedulerAssumption DEF Pids
<1>2. IInv'
  BY Zenon DEF WInv
<1>3. CASE BlockingRead(Bsp)
  BY Zenon, <1>1, <1>2, <1>3, SuspendOne DEF BlockingRead, locals
<1>4. CASE \E ms \in SleepTimes : SleepCurrentTask(Bsp, ms)
  BY Zenon, <1>1, <1>2, <1>4, SuspendOne DEF SleepCurrentTask, locals
<1>5. QED
  BY Zenon, <1>3, <1>4

(* The first task exits, without children.                                 *)
LEMMA ExitInitOne ==
  ASSUME OneCore, WInv, WInv', OInv, ExitInit(Bsp)
  PROVE  Kept
<1>1. Bsp \in Cores /\ IInv /\ IInv' /\ LocalInv(Bsp) /\ currentTask[Bsp] \in Task
  BY Zenon, OneCoreFacts DEF WInv
<1> DEFINE s == [currentTask[Bsp] EXCEPT !.state = "Terminated"]
<1>2. /\ Running(Bsp) /\ pc'[Bsp] = "save" /\ currentTask' = [currentTask EXCEPT ![Bsp] = s]
      /\ currentTask[Bsp].childrenPids = <<>>
      /\ UNCHANGED <<taskQueue, nextPid, restoreFrame, found>>
  BY Zenon, <1>1, OneCoreFacts DEF ExitInit, Goto, locals, OneCore
<1>3. Follows(s, currentTask[Bsp]) /\ s.state = "Terminated" /\ s.state \in States \ {"Normal"}
  BY Zenon, <1>1 DEF Follows, Task, States
<1> HIDE DEF s
<1>4. currentTask'[Bsp] = s
  BY Zenon, <1>1, <1>2, OneCoreFacts DEF TypeOK
<1>5. Owns(Bsp)'
  BY Zenon, <1>1, <1>2 DEF Owns, Running, LocalInv
<1>6. QED
  BY Zenon, <1>1, <1>2, <1>3, <1>4, <1>5, StopOne

(* WaitForChild suspends its task, or finds the child it looks up.         *)
LEMMA WaitForChildOne ==
  ASSUME OneCore, WInv, WInv', OInv, NEW pid \in WaitPids, WaitForChild(Bsp, pid)
  PROVE  Kept
<1>1. Bsp \in Cores /\ IInv /\ IInv' /\ LocalInv(Bsp) /\ currentTask[Bsp] \in Task
  BY Zenon, OneCoreFacts DEF WInv
<1>2. /\ Running(Bsp) /\ UNCHANGED <<taskQueue, nextPid, restoreFrame, found>>
      /\ \/ Suspend(Bsp, "WaitingForChild", pid, "wait")
         \/ \E k \in DOMAIN currentTask[Bsp].childrenPids :
              LET p == currentTask[Bsp].childrenPids[k] IN
                /\ Locked(Bsp, Queued(p), "reap", "panicChild")
                /\ currentTask' = [currentTask EXCEPT ![Bsp].rax = p, ![Bsp].home = Bsp]
  BY Zenon DEF WaitForChild, locals
<1>3. CASE Suspend(Bsp, "WaitingForChild", pid, "wait")
  <2>1. pid \in Pids
    BY SchedulerAssumption DEF Pids
  <2>2. QED
    BY ZenonT(30), <1>1, <1>2, <1>3, <2>1, SuspendOne
<1>4. ASSUME NEW k \in DOMAIN currentTask[Bsp].childrenPids,
             NEW p, p = currentTask[Bsp].childrenPids[k],
             Locked(Bsp, Queued(p), "reap", "panicChild"),
             currentTask' = [currentTask EXCEPT ![Bsp].rax = p, ![Bsp].home = Bsp]
      PROVE  Kept
  <2>1. PICK t : t = currentTask[Bsp]
    BY Zenon
  <2>2. Owns(Bsp) /\ t \in Live /\ t.state = "Normal" /\ t.resume = "user" /\ Mine(t)
    BY ZenonT(30), <1>1, <1>2, <2>1, OInvParts, OneCoreLive
       DEF Running, Owns, LocalInv, FrameAgrees, Mine
  <2>3. p \in ChildrenOf(t)
    BY Zenon, <1>4, <2>1 DEF ChildrenOf
  <2>4. t.pid = 1
    BY SMTT(30), <2>2, <2>3, OInvParts DEF OneFamily, ChildrenOf
  <2>5. PICK u \in Live : u.pid = p
    BY Zenon, <2>2, <2>3, <2>4, RootFacts, OInvParts
  <2>6. p # 1
    <3>1. p \in 2..(nextPid - 1)
      BY Zenon, <2>2, <2>3, WInvParts DEF Families
    <3>2. QED
      BY <3>1
  <2>7. u \in Waiting
    BY Zenon, <1>1, <2>1, <2>4, <2>5, <2>6, OneCoreLive DEF Mine
  <2>8. Queued(p)
    BY Zenon, <1>1, <2>5, <2>7, GetTaskProperties
  <2>9. pc'[Bsp] = "reap"
    BY Zenon, <1>1, <1>4, <2>8, OneCoreFacts DEF Locked, Goto
  <2> DEFINE s == [currentTask[Bsp] EXCEPT !.rax = p, !.home = Bsp]
  <2>10. currentTask' = [currentTask EXCEPT ![Bsp] = s]
    BY Zenon, <1>1, <1>4, OneCoreFacts DEF TypeOK
  <2>11. Follows(s, t) /\ s.state = t.state /\ s.resume = t.resume
    BY Zenon, <1>1, <2>1 DEF Follows, Task
  <2> HIDE DEF s
  <2>12. currentTask'[Bsp] = s
    BY Zenon, <1>1, <2>10, OneCoreFacts DEF TypeOK
  <2>13. Owns(Bsp)'
    BY Zenon, <2>9 DEF Owns, InKernelOfTask
  <2>14. FrameAgrees' /\ pc'[Bsp] \notin Panics
    BY Zenon, <2>9 DEF FrameAgrees, Panics
  <2>15. s.resume # "wait"
    BY Zenon, <2>2, <2>11
  <2>16. QED
    BY Zenon, <1>1, <1>2, <2>1, <2>2, <2>9, <2>11, <2>12, <2>13, <2>14, <2>15, QuietStep
<1>5. QED
  BY Zenon, <1>2, <1>3, <1>4

(* Execute puts the new image of the task in its place, in the queue.      *)
LEMMA ExecuteOne ==
  ASSUME OneCore, WInv, WInv', OInv, Execute(Bsp)
  PROVE  Kept
<1>1. Bsp \in Cores /\ IInv /\ IInv' /\ LocalInv(Bsp) /\ currentTask[Bsp] \in Task
  BY Zenon, OneCoreFacts DEF WInv
<1>2. PICK t, s : t = currentTask[Bsp] /\ s = NewTask(t.pid, t.parentPid)
  BY Zenon
<1>3. /\ Running(Bsp) /\ pc'[Bsp] = "save" /\ nextPid' = nextPid
      /\ taskQueue' = Append(taskQueue, s)
      /\ t.childrenPids = <<>> /\ ~restoreFrame'[Bsp]
  BY Zenon, <1>1, <1>2, OneCoreFacts DEF Execute, Locked, Goto, OneCore, TypeOK
<1>4. /\ s.pid = t.pid /\ s.parentPid = t.parentPid /\ s.childrenPids = <<>>
      /\ s.state = "Normal" /\ s.resume = "user"
  BY Zenon, <1>2 DEF NewTask
<1>5. s \in Task
  <2>1. t.pid \in Pids /\ t.parentPid \in Pids
    BY Zenon, <1>1, <1>2 DEF Task
  <2>2. QED
    BY SMTT(30), <1>1, <1>2, <2>1, SchedulerAssumption DEF NewTask, Task, States, Pids
<1>6. Owns(Bsp) /\ ~Owns(Bsp)' /\ t.state = "Normal"
  BY Zenon, <1>1, <1>2, <1>3 DEF Owns, Running, LocalInv, InKernelOfTask
<1>7. Waiting' = Waiting \cup {s}
  BY Zenon, <1>1, <1>3, <1>5, WaitingPush
<1>8. Follows(s, t)
  BY Zenon, <1>3, <1>4 DEF Follows
<1>9. Becomes(t, s)
  BY Zenon, <1>1, <1>2, <1>6, <1>7, <1>8, CoreTaskBecomes
<1>10. Mine(t) /\ ~Mine(s)'
  BY Zenon, <1>2, <1>6 DEF Mine
<1>11. Allowed(Shown(t), Shown(s)')
  BY SMTT(30), <1>4, <1>6, <1>10 DEF Allowed, Shown, Status
<1>12. QueueOrder'
  BY Zenon, <1>1, <1>3, <1>5, <1>6, PushOrder, OInvParts
<1>13. FrameAgrees' /\ pc'[Bsp] \notin Panics
  BY Zenon, <1>3 DEF FrameAgrees, Panics
<1>14. QED
  BY Zenon, <1>1, <1>3, <1>4, <1>6, <1>9, <1>11, <1>12, <1>13, BecomesKept

(* A child exits under a parent that waits for it: the parent is woken     *)
(* with the pid of the child in rax.                                       *)
LEMMA ExitWakesOne ==
  ASSUME OneCore, WInv, IInv', OInv, nextPid' = nextPid,
         NEW t, t = currentTask[Bsp], Owns(Bsp), t.state = "Normal",
         t.pid # 1, t.childrenPids = <<>>,
         NEW s, s = currentTask'[Bsp], Owns(Bsp)', Follows(s, t), s.state = "Terminated",
         NEW r \in Waiting, r.pid = 1, WaitsFor(r, t.pid),
         taskQueue' = Unsuspended(1, t.pid), pc'[Bsp] = "save"
  PROVE  Kept
<1>1. IInv /\ OneFamily /\ WokenByChild /\ QueueOrder
  BY Zenon, OneCoreFacts, OInvParts
<1>2. Queued(1) /\ GetTask(1) = r
  BY Zenon, <1>1, GetTaskProperties
<1>3. t \in Live /\ r \in Live /\ t.pid \in Pids /\ t # r
  BY ZenonT(30), <1>1, OneCoreLive, LiveProperties DEF Mine, Task
<1>4. PICK w \in Task :
        /\ Waiting' = (Waiting \ {r}) \cup {w} /\ w.state = "Normal" /\ w.rax = t.pid /\ w.pid = 1
        /\ w.parentPid = r.parentPid /\ w.childrenPids = r.childrenPids
        /\ w.resume = r.resume /\ w.suspensionArg = r.suspensionArg
  BY <1>1, <1>2, <1>3, WaitingUnsuspended
<1>5. Follows(w, r) /\ r.state = "WaitingForChild" /\ w.suspensionArg \in {0, w.rax}
  BY Zenon, <1>4 DEF Follows, WaitsFor
<1>6. /\ \A u : u \in Live' <=> u = s \/ u = w \/ (u \in Live /\ u # t /\ u # r)
      /\ \A u \in Live : u # t => ~Mine(u)
      /\ \A u : Mine(u)' <=> u = s
  <2>1. /\ \A u : u \in Live <=> u \in Waiting \/ u = t
        /\ t \notin Waiting
    BY Zenon, <1>1, OneCoreLive DEF Mine
  <2>2. \A u : u \in Live' <=> u \in Waiting' \/ u = s
    BY Zenon, OneCoreLiveNext DEF Mine
  <2>3. QED
    BY Zenon, <1>4, <2>1, <2>2 DEF Mine
<1>7. s.pid = t.pid /\ s.parentPid = t.parentPid
  BY Zenon DEF Follows
<1>8. OneFamily'
  <2>1. ASSUME NEW u \in Live'
        PROVE  \E v \in Live : /\ Follows(u, v)
                               /\ u.state = "Terminated" =>
                                    v.state = "Terminated" \/ v.childrenPids = <<>>
    BY Zenon, <1>3, <1>4, <1>5, <1>6, FollowsItself
  <2>2. \A v \in Live : \E u \in Live' : u.pid = v.pid
    BY Zenon, <1>4, <1>6, <1>7
  <2>3. QED
    BY Zenon, <1>1, <2>1, <2>2, FamilyKept
<1>9. WokenByChild'
  <2>1. ASSUME NEW u \in Live', u.state = "Normal", u.resume = "wait"
        PROVE  /\ u.suspensionArg \in {0, u.rax}
               /\ \E z \in Live' : z.pid = u.rax /\ z.state = "Terminated"
    <3>1. CASE u = w
      BY Zenon, <1>4, <1>5, <1>6, <1>7, <3>1
    <3>2. CASE u \in Live
      <4>1. PICK z \in Live : z.pid = u.rax /\ z.state = "Terminated"
        BY Zenon, <1>1, <2>1, <3>2 DEF WokenByChild
      <4>2. z \in Live'
        BY Zenon, <1>5, <1>6, <4>1
      <4>3. QED
        BY Zenon, <1>1, <2>1, <3>2, <4>1, <4>2 DEF WokenByChild
    <3>3. QED
      BY Zenon, <1>6, <2>1, <3>1, <3>2
  <2>2. QED
    BY Zenon, <2>1 DEF WokenByChild
<1>10. QueueOrder'
  BY Zenon, <1>1, <1>2, <1>5, UnsuspendedOrder
<1>11. TableStep
  <2>1. View /\ View'
    BY Zenon, <1>1, TableView, TableViewNext
  <2>2. /\ s \in Live' /\ w \in Live' /\ t.pid \in 1..MaxPid /\ 1 \in 1..MaxPid
    BY Zenon, <1>1, <1>3, <1>6, PidsInTable
  <2>3. t.parentPid = 1
    BY Zenon, <1>1, <1>3 DEF OneFamily
  <2>4. /\ Shown(t) = "running" /\ Shown(r) = "waiting"
        /\ Shown(s)' = "zombie" /\ Shown(w)' = "ready"
    <3>1. Mine(t) /\ ~Mine(r) /\ Mine(s)' /\ ~Mine(w)'
      BY ZenonT(30), <1>3, <1>4, <1>6, <1>7 DEF Mine
    <3>2. QED
      BY SMTT(30), <1>4, <1>5, <3>1 DEF Shown, Status
  <2>5. /\ ProcessStatus[t.pid] = "running" /\ ProcessStatus[1] = "waiting"
        /\ ProcessStatus'[t.pid] = "zombie" /\ ProcessStatus'[1] = "ready"
        /\ ProcessParent[t.pid] = 1 /\ ProcessParent'[t.pid] = 1
        /\ ProcessParent'[1] = ProcessParent[1]
    BY SMTT(30), <1>3, <1>4, <1>7, <2>1, <2>2, <2>3, <2>4 DEF View
  <2>6. ASSUME NEW p \in 1..MaxPid, p # t.pid, p # 1
        PROVE  ProcessStatus'[p] = ProcessStatus[p] /\ ProcessParent'[p] = ProcessParent[p]
    <3>1. /\ \A u \in Live : u.pid = p => u \in Live' /\ (Mine(u)' <=> Mine(u))
          /\ \A u \in Live' : u.pid = p => u \in Live
      BY ZenonT(30), <1>4, <1>6, <1>7, <2>6
    <3>2. QED
      BY Zenon, <1>1, <3>1, ShownElsewhere
  <2>7. ProcessStatus' = [q \in DOMAIN ProcessStatus |->
           IF q = t.pid THEN "zombie" ELSE IF q \in {1} THEN "ready" ELSE ProcessStatus[q]]
    BY SMTT(30), <2>2, <2>5, <2>6, TableShape
  <2>8. ProcessParent' = ProcessParent
    BY SMTT(30), <2>5, <2>6, TableShape
  <2>9. Table!Exit(t.pid)
    BY SMTT(30), <2>5, <2>7, <2>8 DEF Table!Exit
  <2>10. QED
    BY Zenon, <2>2, <2>9 DEF TableStep, Table!Next
<1>12. FrameAgrees' /\ pc'[Bsp] \notin Panics
  BY Zenon DEF FrameAgrees, Panics
<1>13. QED
  BY Zenon, <1>8, <1>9, <1>10, <1>11, <1>12, KeptByParts

(* A child exits: its parent is in the queue.                              *)
LEMMA ExitCurrentTaskOne ==
  ASSUME OneCore, WInv, WInv', OInv, ExitCurrentTask(Bsp)
  PROVE  Kept
<1>1. Bsp \in Cores /\ IInv /\ IInv' /\ LocalInv(Bsp) /\ currentTask[Bsp] \in Task
  BY Zenon, OneCoreFacts DEF WInv
<1>2. PICK t : t = currentTask[Bsp]
  BY Zenon
<1>3. Running(Bsp) /\ Owns(Bsp) /\ t.pid # 1 /\ t.state = "Normal" /\ restoreFrame[Bsp] /\ t \in Live
  BY Zenon, <1>1, <1>2, LiveProperties DEF ExitCurrentTask, Owns, Running, LocalInv
<1>4. t.parentPid = 1 /\ t.childrenPids = <<>>
  BY Zenon, <1>3, OInvParts DEF OneFamily
<1>5. PICK r \in Live : r.pid = 1
  BY Zenon, OInvParts DEF OneFamily
<1>6. r \in Waiting
  BY Zenon, <1>1, <1>2, <1>3, <1>5, OneCoreLive DEF Mine
<1>7. Queued(1) /\ GetTask(1) = r
  BY Zenon, <1>1, <1>5, <1>6, GetTaskProperties
<1>8. PICK s : s = [t EXCEPT !.state = "Terminated"]
  BY Zenon
<1>9. /\ pc'[Bsp] = "save" /\ currentTask' = [currentTask EXCEPT ![Bsp] = s]
      /\ taskQueue' = IF WaitsFor(r, t.pid) THEN Unsuspended(1, t.pid) ELSE taskQueue
      /\ UNCHANGED <<nextPid, restoreFrame, found>>
  BY Zenon, <1>1, <1>2, <1>4, <1>7, <1>8, OneCoreFacts
     DEF ExitCurrentTask, Locked, Goto, locals, TypeOK
<1>10. Follows(s, t) /\ s.state = "Terminated" /\ s.state \in States \ {"Normal"}
  BY Zenon, <1>1, <1>2, <1>8 DEF Follows, Task, States
<1>11. currentTask'[Bsp] = s
  BY Zenon, <1>1, <1>9, OneCoreFacts DEF TypeOK
<1>12. Owns(Bsp)'
  BY Zenon, <1>3, <1>9 DEF Owns
<1>13. CASE WaitsFor(r, t.pid)
  BY Zenon, <1>1, <1>2, <1>3, <1>4, <1>5, <1>6, <1>9, <1>10, <1>11, <1>12, <1>13, ExitWakesOne
<1>14. CASE ~WaitsFor(r, t.pid)
  BY Zenon, <1>1, <1>2, <1>3, <1>4, <1>9, <1>10, <1>11, <1>12, <1>14, StopOne
<1>15. QED
  BY Zenon, <1>13, <1>14

(* A vector without duplicates, and with one more or one less.             *)
LEMMA PushDistinct ==
  ASSUME NEW S, NEW s \in Seq(S), NEW e \in S, NEW r, r = Append(s, e),
         \A j, k \in DOMAIN s : s[j] = s[k] => j = k,
         \A k \in DOMAIN s : s[k] # e
  PROVE  /\ \A j, k \in DOMAIN r : r[j] = r[k] => j = k
         /\ {r[k] : k \in DOMAIN r} = {s[k] : k \in DOMAIN s} \cup {e}
<1> DEFINE n == Len(s)
<1>1. /\ n \in Nat /\ DOMAIN s = 1..n /\ DOMAIN r = 1..(n + 1)
      /\ \A k \in 1..n : r[k] = s[k]
      /\ r[n + 1] = e
  OBVIOUS
<1> HIDE DEF n
<1>2. /\ \A k \in 1..(n + 1) : k \in 1..n \/ k = n + 1
      /\ \A k \in 1..n : k \in 1..(n + 1)
      /\ n + 1 \in 1..(n + 1)
  BY <1>1
<1>3. \A j, k \in DOMAIN r : r[j] = r[k] => j = k
  BY SMTT(30), <1>1, <1>2
<1>4. {r[k] : k \in DOMAIN r} = {s[k] : k \in DOMAIN s} \cup {e}
  BY SMTT(30), <1>1, <1>2
<1>5. QED
  BY Zenon, <1>3, <1>4

(* Vector::Pop takes one element out of such a vector.                     *)
LEMMA PopDistinct ==
  ASSUME NEW S, NEW s \in Seq(S), NEW p \in DOMAIN s, NEW r, r = Pop(s, p),
         \A j, k \in DOMAIN s : s[j] = s[k] => j = k
  PROVE  /\ \A j, k \in DOMAIN r : r[j] = r[k] => j = k
         /\ \A x : (\E k \in DOMAIN r : r[k] = x) <=> (\E k \in DOMAIN s : k # p /\ s[k] = x)
<1> DEFINE n == Len(s)
           e(k) == IF k < p THEN k ELSE k + 1
           d(k) == IF k < p THEN k ELSE k - 1
<1>1. n \in Nat /\ DOMAIN s = 1..n /\ p \in 1..n
  OBVIOUS
<1>2. /\ DOMAIN r = 1..(n - 1)
      /\ \A k \in 1..(n - 1) : r[k] = IF k < p THEN s[k] ELSE s[k + 1]
  BY Zenon, <1>1 DEF Pop
<1> HIDE DEF n
<1>3. /\ \A k \in 1..(n - 1) : e(k) \in 1..n /\ e(k) # p /\ r[k] = s[e(k)]
      /\ \A j, k \in 1..(n - 1) : e(j) = e(k) => j = k
      /\ \A k \in 1..n : k # p => d(k) \in 1..(n - 1) /\ e(d(k)) = k
  BY SMTT(30), <1>1, <1>2
<1> HIDE DEF e, d
<1>4. \A j, k \in DOMAIN r : r[j] = r[k] => j = k
  BY SMTT(30), <1>1, <1>2, <1>3
<1>5. \A k \in DOMAIN s : k # p => \E j \in DOMAIN r : r[j] = s[k]
  BY SMTT(30), <1>1, <1>2, <1>3
<1>6. \A j \in DOMAIN r : \E k \in DOMAIN s : k # p /\ r[j] = s[k]
  BY Zenon, <1>1, <1>2, <1>3
<1>7. QED
  BY SMTT(30), <1>4, <1>5, <1>6

(* Only the first task forks: the others are its children, so that it is   *)
(* no zombie, and it is not in the queue.                                  *)
LEMMA FirstTaskForks ==
  ASSUME OneCore, WInv, OInv, Owns(Bsp), \A t \in Waiting : t.state = "Terminated"
  PROVE  currentTask[Bsp].pid = 1
<1>1. IInv /\ OneFamily
  BY Zenon, OneCoreFacts, OInvParts
<1>2. SUFFICES ASSUME currentTask[Bsp].pid # 1 PROVE FALSE
  BY Zenon
<1>3. PICK r \in Live : r.pid = 1
  BY Zenon, <1>1 DEF OneFamily
<1>4. r \in Waiting /\ currentTask[Bsp] \in Live
  BY Zenon, <1>1, <1>2, <1>3, OneCoreLive DEF Mine
<1>5. r.childrenPids = <<>> /\ currentTask[Bsp].pid \in ChildrenOf(r)
  BY Zenon, <1>1, <1>2, <1>3, <1>4, RootFacts
<1>6. QED
  BY <1>5 DEF ChildrenOf

(* Fork: the first task gets a child.                                      *)
LEMMA ForkCurrentTaskOne ==
  ASSUME OneCore, WInv, WInv', OInv, ForkCurrentTask(Bsp),
         \A k \in DOMAIN taskQueue : ~Unfinished(k)
  PROVE  Kept
<1>1. /\ Bsp \in Cores /\ IInv /\ IInv' /\ LocalInv(Bsp) /\ currentTask[Bsp] \in Task
      /\ OneFamily /\ WokenByChild /\ QueueOrder /\ FrameAgrees
  BY Zenon, OneCoreFacts, OInvParts DEF WInv
<1>2. PICK n, t : n = nextPid /\ t = currentTask[Bsp]
  BY Zenon
<1>3. /\ Running(Bsp) /\ Owns(Bsp) /\ t.state = "Normal" /\ t \in Live /\ t.resume = "user"
      /\ t \in Task /\ t.childrenPids \in Seq(Pids)
  BY ZenonT(30), <1>1, <1>2, LiveProperties
     DEF ForkCurrentTask, Owns, Running, LocalInv, FrameAgrees, Task
<1>4. n \in 2..MaxPid /\ n \in Pids
  <2>1. n \in 2..(MaxPid + 1) /\ n <= MaxPid /\ MaxPid \in Nat
    BY Zenon, <1>1, <1>2, IInvParts, SchedulerAssumption DEF TypeOK, ForkCurrentTask
  <2>2. QED
    BY <2>1 DEF Pids
<1>5. \A u \in Waiting : u.state = "Terminated"
  BY Zenon DEF Waiting, Unfinished
<1>6. t.pid = 1
  BY Zenon, <1>2, <1>3, <1>5, FirstTaskForks
<1>7. PICK s, z : s = [t EXCEPT !.childrenPids = Append(t.childrenPids, n)] /\ z = NewTask(n, 1)
  BY Zenon
<1>8. /\ pc'[Bsp] = "user" /\ currentTask' = [currentTask EXCEPT ![Bsp] = s]
      /\ taskQueue' = Append(taskQueue, z) /\ nextPid' = n + 1
  BY ZenonT(30), <1>1, <1>2, <1>6, <1>7, OneCoreFacts DEF ForkCurrentTask, Locked, Goto, TypeOK
<1>9. /\ s.pid = 1 /\ s.parentPid = t.parentPid /\ s.state = "Normal" /\ s.resume = "user"
      /\ s.childrenPids = Append(t.childrenPids, n)
  BY Zenon, <1>3, <1>6, <1>7 DEF Task
<1>10. /\ z.pid = n /\ z.parentPid = 1 /\ z.state = "Normal" /\ z.resume = "user"
       /\ z.childrenPids = <<>> /\ z \in Task
  BY SMTT(30), <1>4, <1>7, SchedulerAssumption DEF NewTask, Task, Pids, States
<1>11. currentTask'[Bsp] = s /\ Owns(Bsp)' /\ Waiting' = Waiting \cup {z}
  <2>1. currentTask'[Bsp] = s
    BY ZenonT(30), <1>1, <1>8, OneCoreFacts DEF TypeOK
  <2>2. Owns(Bsp)'
    BY SMTT(30), <1>8, <1>9, <2>1 DEF Owns, Running
  <2>3. QED
    BY Zenon, <1>1, <1>8, <1>10, <2>1, <2>2, WaitingPush
<1>12. \A u \in Live : u.pid # n /\ u.pid \in Nat
  BY SMTT(30), <1>1, <1>2, <1>4, PidsInTable
<1>13. /\ \A u : u \in Live' <=> u = s \/ u = z \/ (u \in Live /\ u # t)
       /\ \A u \in Live : u # t => ~Mine(u) /\ u \in Waiting
       /\ \A u : Mine(u)' <=> u = s
       /\ Mine(t)
  <2>1. /\ \A u : u \in Live <=> u \in Waiting \/ u = t
        /\ t \notin Waiting
    BY Zenon, <1>1, <1>2, <1>3, OneCoreLive DEF Mine
  <2>2. \A u : u \in Live' <=> u \in Waiting' \/ u = s
    BY Zenon, <1>1, <1>11, OneCoreLiveNext DEF Mine
  <2>3. QED
    BY Zenon, <1>2, <1>3, <1>11, <2>1, <2>2 DEF Mine
<1>14. /\ ChildrenOf(s) = ChildrenOf(t) \cup {n}
       /\ \A j, k \in DOMAIN s.childrenPids : s.childrenPids[j] = s.childrenPids[k] => j = k
  <2>1. ChildrenOf(t) \subseteq 2..(n - 1)
    BY Zenon, <1>2, <1>3, WInvParts DEF Families
  <2>2. \A k \in DOMAIN t.childrenPids : t.childrenPids[k] # n
    BY SMTT(30), <1>4, <2>1 DEF ChildrenOf
  <2>3. \A j, k \in DOMAIN t.childrenPids : t.childrenPids[j] = t.childrenPids[k] => j = k
    BY Zenon, <1>1, <1>3, <1>6, RootFacts
  <2>4. PICK kids, more : kids = t.childrenPids /\ more = s.childrenPids
    BY Zenon
  <2>5. kids \in Seq(Pids) /\ more = Append(kids, n)
    BY Zenon, <1>3, <1>9, <2>4
  <2>6. /\ \A j, k \in DOMAIN kids : kids[j] = kids[k] => j = k
        /\ \A k \in DOMAIN kids : kids[k] # n
    BY ZenonT(30), <2>2, <2>3, <2>4
  <2>7. /\ \A j, k \in DOMAIN more : more[j] = more[k] => j = k
        /\ {more[k] : k \in DOMAIN more} = {kids[k] : k \in DOMAIN kids} \cup {n}
    BY SMTT(30), <1>4, <2>5, <2>6, PushDistinct
  <2>8. QED
    BY SMTT(30), <2>4, <2>7 DEF ChildrenOf
<1>15. OneFamily'
  <2>1. \A u \in Live' : u.pid # 1 => u.parentPid = 1 /\ u.childrenPids = <<>>
    BY SMTT(30), <1>1, <1>9, <1>10, <1>13 DEF OneFamily
  <2>2. \A u \in Live' : u.pid = 1 => u = s
    BY SMTT(30), <1>1, <1>3, <1>4, <1>6, <1>10, <1>13, LiveProperties
  <2>3. /\ t.parentPid = 0
        /\ \A u \in Live : u.pid # 1 => u.pid \in ChildrenOf(t)
        /\ \A p \in ChildrenOf(t) : \E u \in Live : u.pid = p
    BY ZenonT(30), <1>1, <1>3, <1>6, RootFacts
  <2>4. \A u \in Live' : u.pid # 1 => u.pid \in ChildrenOf(s)
    BY SMTT(30), <1>9, <1>10, <1>13, <1>14, <2>3
  <2>5. ASSUME NEW p \in ChildrenOf(s) PROVE \E u \in Live' : u.pid = p
    <3>1. CASE p = n
      BY Zenon, <1>10, <1>13, <3>1
    <3>2. CASE p \in ChildrenOf(t)
      <4>1. PICK u \in Live : u.pid = p
        BY Zenon, <2>3, <3>2
      <4>2. CASE u = t
        BY Zenon, <1>6, <1>9, <1>13, <4>1, <4>2
      <4>3. CASE u # t
        BY Zenon, <1>13, <4>1, <4>3
      <4>4. QED
        BY Zenon, <4>2, <4>3
    <3>3. QED
      BY Zenon, <1>14, <3>1, <3>2
  <2>6. s \in Live' /\ s.parentPid = 0
    BY Zenon, <1>9, <1>13, <2>3
  <2>7. ASSUME NEW r \in Live', r.pid = 1
        PROVE  /\ r.parentPid = 0
               /\ \A u \in Live' : u.pid # 1 => u.pid \in ChildrenOf(r)
               /\ \A p \in ChildrenOf(r) : \E u \in Live' : u.pid = p
               /\ \A j, k \in DOMAIN r.childrenPids :
                    r.childrenPids[j] = r.childrenPids[k] => j = k
               /\ r.state = "Terminated" => r.childrenPids = <<>>
    BY Zenon, <1>9, <1>14, <2>2, <2>4, <2>5, <2>6, <2>7
  <2>8. QED
    BY Zenon, <1>9, <2>1, <2>6, <2>7 DEF OneFamily, ChildrenOf
<1>16. WokenByChild'
  <2>1. ASSUME NEW u \in Live', u.state = "Normal", u.resume = "wait" PROVE FALSE
    BY ZenonT(30), <1>5, <1>9, <1>10, <1>13, <2>1
  <2>2. QED
    BY Zenon, <2>1 DEF WokenByChild
<1>17. QueueOrder'
  BY Zenon, <1>1, <1>3, <1>5, <1>8, <1>10, PushOrder
<1>18. TableStep
  <2>1. View /\ View'
    BY Zenon, <1>1, TableView, TableViewNext
  <2>2. n \in 1..MaxPid /\ 1 \in 1..MaxPid /\ n # 1 /\ n >= n
    BY SMTT(30), <1>4, SchedulerAssumption
  <2>3. s \in Live' /\ z \in Live'
    BY Zenon, <1>13
  <2>4. Shown(t) = "running" /\ Shown(s)' = "running" /\ Shown(z)' = "ready"
    <3>1. Mine(t) /\ Mine(s)' /\ ~Mine(z)'
      BY ZenonT(30), <1>9, <1>10, <1>13, <2>2
    <3>2. QED
      BY SMTT(30), <1>3, <1>9, <1>10, <3>1 DEF Shown, Status
  <2>5. /\ ProcessStatus[1] = "running" /\ ProcessStatus'[1] = "running"
        /\ ProcessParent'[1] = ProcessParent[1]
        /\ ProcessStatus[n] = "unborn" /\ ProcessStatus'[n] = "ready"
        /\ ProcessParent'[n] = 1
    BY SMTT(30), <1>2, <1>3, <1>6, <1>9, <1>10, <2>1, <2>2, <2>3, <2>4 DEF View
  <2>6. ASSUME NEW p \in 1..MaxPid, p # n, p # 1
        PROVE  ProcessStatus'[p] = ProcessStatus[p] /\ ProcessParent'[p] = ProcessParent[p]
    <3>1. /\ \A u \in Live : u.pid = p => u \in Live' /\ (Mine(u)' <=> Mine(u))
          /\ \A u \in Live' : u.pid = p => u \in Live
      BY Zenon, <1>6, <1>9, <1>10, <1>13, <2>6
    <3>2. p >= nextPid' <=> p >= nextPid
      BY SMTT(30), <1>2, <1>4, <1>8, <2>6
    <3>3. QED
      BY Zenon, <1>1, <3>1, <3>2, ShownElsewhere
  <2>7. ProcessStatus' = [ProcessStatus EXCEPT ![n] = "ready"]
    BY SMTT(30), <2>2, <2>5, <2>6, TableShape
  <2>8. ProcessParent' = [ProcessParent EXCEPT ![n] = 1]
    BY SMTT(30), <2>2, <2>5, <2>6, TableShape
  <2>9. Table!Fork(1, n)
    BY Zenon, <2>5, <2>7, <2>8 DEF Table!Fork, Table!Move
  <2>10. QED
    BY Zenon, <2>2, <2>9 DEF TableStep, Table!Next
<1>19. FrameAgrees' /\ pc'[Bsp] \notin Panics
  BY Zenon, <1>8, <1>9, <1>11 DEF FrameAgrees, Panics
<1>20. QED
  BY Zenon, <1>15, <1>16, <1>17, <1>18, <1>19, KeptByParts

(* WaitForChild finds the child it collects among its own: the one core is *)
(* still the one it started on.                                            *)
LEMMA ReapChildFinds ==
  ASSUME OneCore, IInv, ReapChild(Bsp), NEW t, t = currentTask[Bsp],
         Queued(t.rax), t.rax \in ChildrenOf(t)
  PROVE  \E s \in Task, m \in DOMAIN t.childrenPids :
           /\ t.childrenPids[m] = t.rax
           /\ s.childrenPids = Pop(t.childrenPids, m)
           /\ s.pid = t.pid /\ s.parentPid = t.parentPid /\ s.state = t.state
           /\ s.resume = "user" /\ currentTask'[Bsp] = s /\ pc'[Bsp] = "user"
<1>1. currentTask \in [Cores -> Task] /\ DOMAIN pc = Cores
  BY Zenon, IInvParts DEF TypeOK
<1>2. t \in Task /\ t.home = Bsp /\ Bsp \in Cores /\ t.childrenPids \in Seq(Pids)
  <2>1. Bsp \in Cores /\ \A c \in Cores : c = Bsp
    BY SchedulerAssumption DEF OneCore
  <2>2. t \in Task
    BY Zenon, <1>1, <2>1
  <2>3. t.home \in Cores /\ t.childrenPids \in Seq(Pids)
    BY Zenon, <2>2 DEF Task
  <2>4. QED
    BY Zenon, <2>1, <2>2, <2>3
<1>3. ~(~Queued(t.rax) \/ \A k \in DOMAIN t.childrenPids : t.childrenPids[k] # t.rax)
  BY Zenon DEF ChildrenOf
<1>4. PICK m \in DOMAIN t.childrenPids :
        /\ t.childrenPids[m] = t.rax
        /\ currentTask' = [currentTask EXCEPT
             ![Bsp].childrenPids = Pop(@, m),
             ![Bsp].resume = "user", ![Bsp].rax = 0, ![Bsp].home = Bsp]
        /\ Goto(Bsp, "user")
  <2>1. currentTask[currentTask[Bsp].home].childrenPids = t.childrenPids
    BY Zenon, <1>2
  <2>2. PICK m \in DOMAIN t.childrenPids :
          /\ t.childrenPids[m] = t.rax
          /\ currentTask' = [currentTask EXCEPT
               ![currentTask[Bsp].home].childrenPids = Pop(@, m),
               ![Bsp].resume = "user", ![Bsp].rax = 0, ![Bsp].home = Bsp]
          /\ Goto(Bsp, "user")
    BY Zenon, <1>3, <2>1 DEF ReapChild, IsFirst
  <2>3. QED
    BY Zenon, <1>2, <2>2
<1>5. PICK rest : rest = Pop(t.childrenPids, m)
  BY Zenon
<1>6. rest \in Seq(Pids)
  <2>1. m \in 1..Len(t.childrenPids)
    BY <1>2
  <2>2. QED
    BY Zenon, <1>2, <1>5, <2>1, PopProperties
<1>7. PICK s : s = [t EXCEPT !.childrenPids = rest, !.resume = "user", !.rax = 0, !.home = Bsp]
  BY Zenon
<1>8. currentTask' = [currentTask EXCEPT ![Bsp] = s]
  BY Zenon, <1>1, <1>2, <1>4, <1>5, <1>7
<1>9. /\ s \in Task /\ s.pid = t.pid /\ s.parentPid = t.parentPid /\ s.state = t.state
      /\ s.childrenPids = rest /\ s.resume = "user"
  <2>1. "user" \in {"user", "wait", "sleep", "read"} /\ 0 \in Pids
    BY SchedulerAssumption DEF Pids
  <2>2. QED
    BY Zenon, <1>2, <1>6, <1>7, <2>1 DEF Task
<1>10. currentTask'[Bsp] = s /\ pc'[Bsp] = "user"
  BY Zenon, <1>1, <1>2, <1>4, <1>8 DEF Goto
<1>11. QED
  BY ZenonT(30), <1>4, <1>5, <1>9, <1>10

(* WaitForChild collects the zombie, and the table forgets it.             *)
LEMMA ReapChildOne ==
  ASSUME OneCore, WInv, WInv', OInv, ReapChild(Bsp)
  PROVE  Kept
<1>1. /\ Bsp \in Cores /\ IInv /\ IInv' /\ LocalInv(Bsp) /\ currentTask[Bsp] \in Task
      /\ OneFamily /\ WokenByChild /\ QueueOrder
  BY Zenon, OneCoreFacts, OInvParts DEF WInv
<1>2. PICK t : t = currentTask[Bsp]
  BY Zenon
<1>3. /\ pc[Bsp] = "reap" /\ Owns(Bsp) /\ t.state = "Normal" /\ t \in Live
      /\ t.childrenPids \in Seq(Pids) /\ nextPid' = nextPid
  BY Zenon, <1>1, <1>2, LiveProperties DEF ReapChild, Owns, InKernelOfTask, LocalInv, Task
<1>4. PICK z \in Waiting : z.pid = t.rax /\ z.state = "Terminated"
  BY Zenon, <1>1, <1>2, <1>3, WInvParts DEF Reaping
<1>5. z \in Live /\ z # t /\ Queued(z.pid) /\ GetTask(z.pid) = z
  BY Zenon, <1>1, <1>3, <1>4, LiveProperties, GetTaskProperties
<1>6. z.pid # 1 /\ t.pid = 1 /\ z.pid \in ChildrenOf(t)
  BY Zenon, <1>3, <1>4, <1>5, ZombieIsChild
<1>7. PICK s \in Task, m \in DOMAIN t.childrenPids :
        /\ t.childrenPids[m] = z.pid
        /\ s.childrenPids = Pop(t.childrenPids, m)
        /\ s.pid = 1 /\ s.parentPid = t.parentPid /\ s.state = "Normal"
        /\ s.resume = "user" /\ currentTask'[Bsp] = s /\ pc'[Bsp] = "user"
  BY ZenonT(30), <1>1, <1>2, <1>3, <1>4, <1>5, <1>6, ReapChildFinds
<1>8. PICK p \in 1..Len(taskQueue) : taskQueue' = Pop(taskQueue, p) /\ taskQueue[p] = z
  <2>1. taskQueue' = Pop(taskQueue, Position(z.pid))
    BY Zenon, <1>2, <1>4, <1>5 DEF ReapChild
  <2>2. Position(z.pid) \in 1..Len(taskQueue)
    BY Zenon, <1>1, <1>5, PositionProperties, IInvParts
  <2>3. QED
    BY Zenon, <1>5, <2>1, <2>2 DEF GetTask
<1>9. Owns(Bsp)' /\ Waiting' = Waiting \ {z}
  <2>1. Owns(Bsp)'
    BY SMTT(30), <1>7 DEF Owns, Running
  <2>2. QED
    BY ZenonT(30), <1>1, <1>8, <2>1, WaitingPop
<1>10. /\ \A u : u \in Live' <=> u = s \/ (u \in Live /\ u # t /\ u # z)
       /\ \A u \in Live : u # t => ~Mine(u)
       /\ \A u : Mine(u)' <=> u = s
       /\ Mine(t)
  <2>1. /\ \A u : u \in Live <=> u \in Waiting \/ u = t
        /\ t \notin Waiting
    BY Zenon, <1>1, <1>2, <1>3, OneCoreLive DEF Mine
  <2>2. \A u : u \in Live' <=> u \in Waiting' \/ u = s
    BY Zenon, <1>1, <1>7, <1>9, OneCoreLiveNext DEF Mine
  <2>3. QED
    BY Zenon, <1>2, <1>3, <1>7, <1>9, <2>1, <2>2 DEF Mine
<1>11. \A u, v \in Live : u.pid = v.pid => u = v
  BY Zenon, <1>1, LiveProperties
<1>12. /\ ChildrenOf(s) = ChildrenOf(t) \ {z.pid}
       /\ \A j, k \in DOMAIN s.childrenPids : s.childrenPids[j] = s.childrenPids[k] => j = k
  <2>1. PICK kids, less : kids = t.childrenPids /\ less = s.childrenPids
    BY Zenon
  <2>2. kids \in Seq(Pids) /\ m \in DOMAIN kids /\ less = Pop(kids, m) /\ kids[m] = z.pid
    BY Zenon, <1>3, <1>7, <2>1
  <2>3. \A j, k \in DOMAIN kids : kids[j] = kids[k] => j = k
    BY ZenonT(30), <1>1, <1>3, <1>6, <2>1, RootFacts
  <2>4. /\ \A j, k \in DOMAIN less : less[j] = less[k] => j = k
        /\ \A e : (\E k \in DOMAIN less : less[k] = e) <=>
                  (\E k \in DOMAIN kids : k # m /\ kids[k] = e)
    BY SMTT(30), <2>2, <2>3, PopDistinct
  <2>5. ChildrenOf(s) = ChildrenOf(t) \ {z.pid}
    <3>1. \A e : /\ e \in ChildrenOf(s) <=> \E k \in DOMAIN less : less[k] = e
                 /\ e \in ChildrenOf(t) <=> \E k \in DOMAIN kids : kids[k] = e
      BY Zenon, <2>1 DEF ChildrenOf
    <3>2. \A e : (\E k \in DOMAIN kids : k # m /\ kids[k] = e) <=>
                (\E k \in DOMAIN kids : kids[k] = e) /\ e # z.pid
      BY Zenon, <2>2, <2>3
    <3>3. QED
      BY Zenon, <2>4, <3>1, <3>2
  <2>6. QED
    BY Zenon, <2>1, <2>4, <2>5
<1>13. OneFamily'
  <2>1. \A u \in Live' : u.pid # 1 => u.parentPid = 1 /\ u.childrenPids = <<>>
    BY SMTT(30), <1>1, <1>7, <1>10 DEF OneFamily
  <2>2. \A u \in Live' : u.pid = 1 => u = s
    BY Zenon, <1>3, <1>6, <1>10, <1>11
  <2>3. /\ t.parentPid = 0
        /\ \A u \in Live : u.pid # 1 => u.pid \in ChildrenOf(t)
        /\ \A q \in ChildrenOf(t) : \E u \in Live : u.pid = q
    BY Zenon, <1>1, <1>3, <1>6, RootFacts
  <2>4. ASSUME NEW u \in Live', u.pid # 1 PROVE u.pid \in ChildrenOf(s)
    <3>1. u \in Live /\ u # z
      BY Zenon, <1>7, <1>10, <2>4
    <3>2. u.pid # z.pid
      BY Zenon, <1>5, <1>11, <3>1
    <3>3. QED
      BY ZenonT(30), <1>12, <2>3, <2>4, <3>1, <3>2
  <2>5. ASSUME NEW q \in ChildrenOf(s) PROVE \E u \in Live' : u.pid = q
    <3>1. PICK u \in Live : u.pid = q
      BY Zenon, <1>12, <2>3
    <3>2. CASE u = t
      BY Zenon, <1>6, <1>7, <1>10, <3>1, <3>2
    <3>3. CASE u # t
      BY Zenon, <1>10, <1>12, <3>1, <3>3
    <3>4. QED
      BY Zenon, <3>2, <3>3
  <2>6. s \in Live' /\ s.parentPid = 0
    BY Zenon, <1>7, <1>10, <2>3
  <2>7. ASSUME NEW r \in Live', r.pid = 1
        PROVE  /\ r.parentPid = 0
               /\ \A u \in Live' : u.pid # 1 => u.pid \in ChildrenOf(r)
               /\ \A q \in ChildrenOf(r) : \E u \in Live' : u.pid = q
               /\ \A j, k \in DOMAIN r.childrenPids :
                    r.childrenPids[j] = r.childrenPids[k] => j = k
               /\ r.state = "Terminated" => r.childrenPids = <<>>
    BY ZenonT(30), <1>7, <1>12, <2>2, <2>4, <2>5, <2>6, <2>7
  <2>8. QED
    BY ZenonT(30), <1>7, <2>1, <2>6, <2>7 DEF OneFamily, ChildrenOf
<1>14. WokenByChild'
  <2>1. ASSUME NEW u \in Live', u.state = "Normal", u.resume = "wait" PROVE FALSE
    <3>1. u \in Live /\ u # t
      BY Zenon, <1>7, <1>10, <2>1
    <3>2. PICK y \in Live : y.pid = u.rax /\ y.state = "Terminated"
      BY Zenon, <1>1, <2>1, <3>1 DEF WokenByChild
    <3>3. u.pid = 1
      BY Zenon, <2>1, <3>1, <3>2, ZombieIsChild
    <3>4. QED
      BY Zenon, <1>3, <1>6, <1>11, <3>1, <3>3
  <2>2. QED
    BY Zenon, <2>1 DEF WokenByChild
<1>15. QueueOrder'
  BY ZenonT(30), <1>1, <1>3, <1>4, <1>7, <1>8, ReapOrder DEF Unfinished
<1>16. TableStep
  <2>1. View /\ View'
    BY ZenonT(30), <1>1, TableView, TableViewNext
  <2>2. /\ z.pid \in 1..MaxPid /\ z.pid < nextPid /\ 1 \in 1..MaxPid /\ s \in Live'
        /\ z.parentPid = 1
    BY ZenonT(30), <1>1, <1>3, <1>5, <1>6, <1>10, PidsInTable DEF OneFamily
  <2>3. \A u \in Live' : u.pid # z.pid
    BY ZenonT(30), <1>5, <1>6, <1>7, <1>10, <1>11
  <2>4. ~(z.pid >= nextPid')
    <3>1. nextPid \in 2..(MaxPid + 1)
      BY ZenonT(30), <1>1, IInvParts DEF TypeOK
    <3>2. QED
      BY SMTT(30), <1>3, <2>2, <3>1, SchedulerAssumption
  <2>5. Shown(t) = "running" /\ Shown(s)' = "running" /\ Shown(z) = "zombie"
    <3>1. Mine(t) /\ Mine(s)' /\ ~Mine(z)
      BY ZenonT(30), <1>5, <1>10
    <3>2. QED
      BY SMTT(30), <1>3, <1>4, <1>7, <3>1 DEF Shown, Status
  <2>6. /\ ProcessStatus[1] = "running" /\ ProcessStatus'[1] = "running"
        /\ ProcessParent'[1] = ProcessParent[1]
        /\ ProcessStatus[z.pid] = "zombie" /\ ProcessParent[z.pid] = 1
    BY SMTT(30), <1>3, <1>5, <1>6, <1>7, <2>1, <2>2, <2>5 DEF View
  <2>7. ProcessStatus'[z.pid] = "gone" /\ ProcessParent'[z.pid] = 0
    BY ZenonT(30), <2>1, <2>2, <2>3, <2>4 DEF View
  <2>8. ASSUME NEW q \in 1..MaxPid, q # z.pid, q # 1
        PROVE  ProcessStatus'[q] = ProcessStatus[q] /\ ProcessParent'[q] = ProcessParent[q]
    <3>1. /\ \A u \in Live : u.pid = q => u \in Live' /\ (Mine(u)' <=> Mine(u))
          /\ \A u \in Live' : u.pid = q => u \in Live
      BY Zenon, <1>6, <1>7, <1>10, <2>8
    <3>2. QED
      BY Zenon, <1>1, <1>3, <3>1, ShownElsewhere
  <2>9. ProcessStatus' = [ProcessStatus EXCEPT ![z.pid] = "gone"]
    BY SMTT(30), <2>2, <2>6, <2>7, <2>8, TableShape
  <2>10. ProcessParent' = [ProcessParent EXCEPT ![z.pid] = 0]
    BY SMTT(30), <2>2, <2>6, <2>7, <2>8, TableShape
  <2>11. Table!Reap(1, z.pid)
    BY ZenonT(30), <2>6, <2>9, <2>10 DEF Table!Reap, Table!Move
  <2>12. QED
    BY Zenon, <2>2, <2>11 DEF TableStep, Table!Next
<1>17. FrameAgrees' /\ pc'[Bsp] \notin Panics
  BY Zenon, <1>7 DEF FrameAgrees, Panics
<1>18. QED
  BY Zenon, <1>13, <1>14, <1>15, <1>16, <1>17, KeptByParts

-----------------------------------------------------------------------------
(* All steps.                                                              *)

(* At boot the first task is in the queue, alone.                          *)
LEMMA InitOInv ==
  ASSUME OneCore, IInv, Init
  PROVE  OInv /\ Table!Init
<1>1. PICK t : t = NewTask(1, 0)
  BY Zenon
<1>2. /\ t.pid = 1 /\ t.parentPid = 0 /\ t.state = "Normal" /\ t.childrenPids = <<>>
      /\ t.resume = "user" /\ Idle.pid = 0 /\ Idle.resume = "user"
  BY Zenon, <1>1 DEF NewTask, Idle
<1>3. /\ Bsp \in Cores /\ taskQueue = <<t>> /\ nextPid = 2 /\ pc[Bsp] = "user"
      /\ currentTask[Bsp] = Idle
  BY Zenon, <1>1, SchedulerAssumption DEF Init
<1>4. Len(taskQueue) = 1 /\ DOMAIN taskQueue = 1..1 /\ taskQueue[1] = t
  BY SMTT(30), <1>3
<1>5. ~Owns(Bsp) /\ Waiting = {t}
  BY SMTT(30), <1>2, <1>3, <1>4 DEF Owns, Running, InKernelOfTask, Waiting
<1>6. \A u : u \in Live <=> u = t
  BY ZenonT(30), <1>5, OneCoreLive DEF Mine
<1>7. OneFamily
  BY SMTT(30), <1>2, <1>6 DEF OneFamily, ChildrenOf
<1>8. QueueOrder
  BY SMTT(30), <1>3, <1>4, <1>5 DEF QueueOrder
<1>9. WokenByChild /\ FrameAgrees /\ NoPanic
  BY SMTT(30), <1>2, <1>3, <1>6 DEF WokenByChild, FrameAgrees, NoPanic, Panics, OneCore
<1>10. Table!Init
  <2>1. View
    BY Zenon, TableView
  <2>2. Shown(t) = "ready"
    BY SMTT(30), <1>2, <1>5 DEF Shown, Status, Mine
  <2>3. ProcessStatus[1] = "ready" /\ ProcessParent[1] = 0
    BY Zenon, <1>2, <1>6, <2>1, <2>2 DEF View
  <2>4. \A p \in 1..MaxPid : p # 1 => p >= nextPid
    BY SMTT(30), <1>3
  <2>5. \A p \in 1..MaxPid : p # 1 => ProcessStatus[p] = "unborn" /\ ProcessParent[p] = 0
    BY SMTT(30), <1>2, <1>6, <2>1, <2>4 DEF View
  <2>6. /\ ProcessStatus = [p \in 1..MaxPid |-> IF p = 1 THEN "ready" ELSE "unborn"]
        /\ ProcessParent = [p \in 1..MaxPid |-> 0]
    BY SMTT(30), <2>3, <2>5, TableShape
  <2>7. QED
    BY Zenon, <2>6 DEF Table!Init
<1>11. QED
  BY Zenon, <1>7, <1>8, <1>9, <1>10 DEF OInv

(* A step of the environment.                                              *)
LEMMA StutterOne ==
  ASSUME OneCore, WInv, WInv', OInv, UNCHANGED vars
  PROVE  Kept
<1>1. IInv /\ IInv'
  BY Zenon DEF WInv
<1>2. UNCHANGED <<taskQueue, currentTask, nextPid, pc, restoreFrame, found, i>>
  BY Zenon DEF vars, locals
<1>3. Owns(Bsp)' <=> Owns(Bsp)
  BY Zenon, <1>2 DEF Owns, Running
<1>4. FrameAgrees' /\ pc'[Bsp] \notin Panics
  BY ZenonT(30), <1>2, OInvParts, SchedulerAssumption DEF FrameAgrees, NoPanic
<1>5. QED
  BY Zenon, <1>1, <1>2, <1>3, <1>4, QuietStep, FollowsItself

-----------------------------------------------------------------------------
(* On one core, for programs that wait for their children before they exit *)
(* or exec and fork only when no other task is unfinished.                 *)

(* A set of one element has cardinality one.                               *)
LEMMA CardinalityOfOne ==
  ASSUME NEW x
  PROVE  Cardinality({x}) = 1
<1> DEFINE Counts(f) == f = [T \in SUBSET {x} |->
                               IF T = {} THEN 0 ELSE 1 + f[T \ {CHOOSE y : y \in T}]]
<1>1. {x} \ {CHOOSE y : y \in {x}} = {}
  OBVIOUS
<1>2. \A T \in SUBSET {x} : T = {} \/ T = {x}
  OBVIOUS
<1>3. PICK g : g = [T \in SUBSET {x} |-> IF T = {} THEN 0 ELSE 1]
  BY Zenon
<1>4. Counts(g)
  BY SMTT(30), <1>1, <1>2, <1>3
<1>5. PICK f : f = CHOOSE h : Counts(h)
  OBVIOUS
<1>6. Counts(f)
  BY <1>4, <1>5, Zenon
<1>7. f[{}] = 0 /\ f[{x}] = 1 + f[{x} \ {CHOOSE y : y \in {x}}]
  BY <1>6
<1>8. f[{x}] = 1
  BY SMTT(30), <1>1, <1>7
<1>9. Cardinality({x}) = f[{x}]
  BY <1>5, Zenon DEF Cardinality
<1>10. QED
  BY SMTT(30), <1>8, <1>9

(* ForkCurrentTask's bound: only zombies are in the queue, since at most   *)
(* its last task could be another.                                         *)
LEMMA OnlyZombiesQueued ==
  ASSUME OneCore, OInv, Owns(Bsp),
         Cardinality({k \in DOMAIN taskQueue : taskQueue[k].state # "Terminated"}) <= MaxOthers
  PROVE  \A k \in DOMAIN taskQueue : ~Unfinished(k)
<1>1. SUFFICES ASSUME NEW k \in DOMAIN taskQueue, Unfinished(k) PROVE FALSE
  BY Zenon
<1>2. \A j \in DOMAIN taskQueue : Unfinished(j) => j = k
  BY Zenon, <1>1, OInvParts DEF QueueOrder
<1>3. {j \in DOMAIN taskQueue : taskQueue[j].state # "Terminated"} = {k}
  BY Zenon, <1>1, <1>2 DEF Unfinished
<1>4. Cardinality({k}) <= 0
  BY Zenon, <1>3 DEF OneCore
<1>5. QED
  BY SMTT(30), <1>4, CardinalityOfOne

(* Every step keeps the invariant and is one of ProcessTable, or none,     *)
(* but a sleep that its Asserts refuse.                                    *)
LEMMA NextKeepsOInv ==
  ASSUME OneCore, WInv, WInv', OInv, [Next]_vars
  PROVE  Kept \/ \E ms \in SleepTimes : SleepFails(Bsp, ms)
<1>1. \A c \in Cores : c = Bsp
  BY DEF OneCore
<1>2. CASE UNCHANGED vars
  BY Zenon, <1>2, StutterOne
<1>3. CASE Kernel(Bsp)
  BY ZenonT(30), <1>3, SaveTaskOne, TimerRunsOne, TimerExpiresOne, BeginScanOne, ScanSkipOne,
     ScanPopOne, DispatchOne, ResumeBlockedOne, ResumeWaitOne, ReapChildOne DEF Kernel
<1>4. CASE UserCall(Bsp)
  <2>1. ASSUME ForkCurrentTask(Bsp) PROVE Kept
    BY Zenon, <2>1, OnlyZombiesQueued, ForkCurrentTaskOne DEF ForkCurrentTask, Owns
  <2>2. QED
    BY Zenon, <1>4, <2>1, BlockOne, ExecuteOne, ExitInitOne, ExitCurrentTaskOne, WaitForChildOne
       DEF UserCall
<1>5. QED
  BY Zenon, <1>1, <1>2, <1>3, <1>4, TimerInterruptOne, KeyboardInterruptOne DEF Next

(* A core that has halted stays so.                                        *)
LEMMA HaltedStays ==
  ASSUME OneCore, IInv, pc[Bsp] = "panicSleep", [Next]_vars
  PROVE  pc'[Bsp] = "panicSleep"
<1>1. \A c \in Cores : c = Bsp
  BY DEF OneCore
<1>2. CASE UNCHANGED vars
  BY Zenon, <1>2 DEF vars
<1>3. ~Running(Bsp)
  BY DEF Running
<1>4. ~Kernel(Bsp)
  BY DEF Kernel, SaveTask, TimerRuns, TimerExpires, BeginScan, ScanSkip, ScanPop, Dispatch,
     ResumeBlocked, ResumeWait, ReapChild
<1>5. ~UserCall(Bsp)
  BY Zenon, <1>3 DEF UserCall, SleepFails, SleepCurrentTask, BlockingRead, ForkCurrentTask,
     Execute, ExitInit, ExitCurrentTask, WaitForChild
<1>6. ~TimerInterrupt(Bsp) /\ ~KeyboardInterrupt(Bsp)
  BY Zenon, <1>3 DEF TimerInterrupt, KeyboardInterrupt
<1>7. QED
  BY ZenonT(30), <1>1, <1>2, <1>4, <1>5, <1>6 DEF Next

(* The invariant of one core holds until a program asks for a sleep that   *)
(* is refused.                                                             *)
LEMMA SpecOInvOrHalted == ASSUME OneCore PROVE Spec => [](OInv \/ pc[Bsp] = "panicSleep")
<1>1. Init => OInv
  BY Zenon, InitIInv, InitOInv
<1>2. ASSUME WInv, WInv', OInv, [Next]_vars PROVE (OInv \/ pc[Bsp] = "panicSleep")'
  <2>1. ASSUME NEW ms \in SleepTimes, SleepFails(Bsp, ms) PROVE pc'[Bsp] = "panicSleep"
    <3>1. Bsp \in DOMAIN pc
      BY Zenon, <1>2, WInvParts, IInvParts, SchedulerAssumption DEF TypeOK
    <3>2. QED
      BY Zenon, <2>1, <3>1 DEF SleepFails, Goto
  <2>2. QED
    BY Zenon, <1>2, <2>1, NextKeepsOInv DEF Kept
<1>3. WInv /\ WInv' /\ (OInv \/ pc[Bsp] = "panicSleep") /\ [Next]_vars
        => (OInv \/ pc[Bsp] = "panicSleep")'
  BY Zenon, <1>2, HaltedStays, WInvParts
<1>4. QED
  BY <1>1, <1>3, SpecWInv, PTL DEF Spec

(* The invariant of one core holds in every reachable state when every     *)
(* sleep is of a millisecond at least.                                     *)
LEMMA SpecOInv == ASSUME OneCore, 0 \notin SleepTimes PROVE Spec => []OInv
<1>1. Init => OInv
  BY Zenon, InitIInv, InitOInv
<1>2. WInv /\ WInv' /\ OInv /\ [Next]_vars => OInv'
  BY Zenon, NextKeepsOInv DEF Kept, SleepFails
<1>3. QED
  BY <1>1, <1>2, SpecWInv, PTL DEF Spec

(* On one core the Asserts on the argument of a sleep are the only ones a  *)
(* program can make fail: no other Assert, Panic() or GetTask of the       *)
(* scheduler does, for any number of forks, exits, sleeps and reads.       *)
THEOREM OneCoreOnlySleepPanics ==
  ASSUME OneCore PROVE Spec => [](\A c \in Cores : pc[c] \in Panics => pc[c] = "panicSleep")
<1>1. OInv \/ pc[Bsp] = "panicSleep" =>
        \A c \in Cores : pc[c] \in Panics => pc[c] = "panicSleep"
  BY Zenon, OInvParts DEF NoPanic, OneCore
<1>2. QED
  BY <1>1, SpecOInvOrHalted, PTL

(* And where every sleep is of a whole number of milliseconds, one at      *)
(* least, none fails at all.                                               *)
THEOREM OneCoreNeverPanics == ASSUME OneCore, 0 \notin SleepTimes PROVE Spec => []NoPanic
<1>1. OInv => NoPanic
  BY Zenon, OInvParts
<1>2. QED
  BY <1>1, SpecOInv, PTL

(* Fork, exec, exit, wait, sleep, read and preemption on one core change   *)
(* the processes as ProcessTable says, where no sleep is refused: none is  *)
(* lost, comes back from the dead, or is collected by another than its     *)
(* parent.                                                                 *)
THEOREM OneCoreImplementsTable ==
  ASSUME OneCore, 0 \notin SleepTimes PROVE Spec => ImplementsProcessTable
<1>1. Init => Table!Init
  BY Zenon, InitIInv, InitOInv
<1>2. WInv /\ WInv' /\ OInv /\ [Next]_vars => [Table!Next]_(Table!vars)
  <2> SUFFICES ASSUME WInv, WInv', OInv, [Next]_vars PROVE [Table!Next]_(Table!vars)
    BY Zenon
  <2>1. TableStep
    BY Zenon, NextKeepsOInv DEF Kept, SleepFails
  <2>2. QED
    BY Zenon, <2>1 DEF TableStep, Table!vars
<1>3. QED
  BY <1>1, <1>2, SpecWInv, SpecOInv, PTL DEF Spec, ImplementsProcessTable, Table!Spec
=============================================================================
