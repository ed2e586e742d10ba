---------------------------- MODULE ProcessTable ----------------------------
(***************************************************************************)
(* What the scheduler promises to programs: a process is created by fork,  *)
(* changes state only in these ways, and disappears only when its parent   *)
(* collects it.                                                            *)
(***************************************************************************)
EXTENDS Naturals

CONSTANT MaxPid

VARIABLES
  status,   \* pid -> "unborn", "ready", "running", "asleep", "reading",
            \*        "waiting", "zombie" or "gone"
  parent    \* pid -> pid, 0 for the first process and for those not there

vars == <<status, parent>>

Init ==
  /\ status = [p \in 1..MaxPid |-> IF p = 1 THEN "ready" ELSE "unborn"]
  /\ parent = [p \in 1..MaxPid |-> 0]

Move(p, from, to) == status[p] \in from /\ status' = [status EXCEPT ![p] = to]

Schedule(p) == Move(p, {"ready"}, "running") /\ UNCHANGED parent
Preempt(p) == Move(p, {"running"}, "ready") /\ UNCHANGED parent
Block(p) == /\ \E how \in {"asleep", "reading", "waiting"} : Move(p, {"running"}, how)
            /\ UNCHANGED parent
Wake(p) == Move(p, {"asleep", "reading"}, "ready") /\ UNCHANGED parent

Fork(p, q) ==
  /\ status[p] = "running"
  /\ Move(q, {"unborn"}, "ready")
  /\ parent' = [parent EXCEPT ![q] = p]

(* A process that exits may end its parent's wait, in the same step.       *)
Exit(p) ==
  /\ status[p] = "running"
  /\ \E woken \in {{}, {parent[p]}} :
       /\ \A q \in woken : q # 0 /\ status[q] = "waiting"
       /\ status' = [q \in DOMAIN status |-> IF q = p THEN "zombie"
                                             ELSE IF q \in woken THEN "ready" ELSE status[q]]
  /\ UNCHANGED parent

Reap(p, q) ==
  /\ status[p] = "running" /\ parent[q] = p
  /\ Move(q, {"zombie"}, "gone")
  /\ parent' = [parent EXCEPT ![q] = 0]

Next == \E p \in 1..MaxPid :
  \/ Schedule(p) \/ Preempt(p) \/ Block(p) \/ Wake(p) \/ Exit(p)
  \/ \E q \in 1..MaxPid : Fork(p, q) \/ Reap(p, q)

Spec == Init /\ [][Next]_vars
=============================================================================
