------------------------------ MODULE FifoLock ------------------------------
(***************************************************************************)
(* What a user of Spinlock may rely on: cores queue up when they ask for   *)
(* the lock, only the core at the head of the queue can hold it, and it    *)
(* leaves the queue when it releases.                                      *)
(***************************************************************************)
EXTENDS Naturals, Sequences

CONSTANT Cores

VARIABLES
  queue,     \* the cores that asked for the lock and have not released it
  holding    \* the cores whose Acquire has returned

vars == <<queue, holding>>

Init == queue = <<>> /\ holding = {}

Request(c) ==
  /\ \A i \in 1..Len(queue) : queue[i] # c
  /\ queue' = Append(queue, c)
  /\ UNCHANGED holding

Grant(c) ==
  /\ queue # <<>> /\ Head(queue) = c
  /\ c \notin holding
  /\ holding' = holding \cup {c}
  /\ UNCHANGED queue

Release(c) ==
  /\ c \in holding
  /\ queue' = Tail(queue)
  /\ holding' = holding \ {c}

Next == \E c \in Cores : Request(c) \/ Grant(c) \/ Release(c)

(* The head of the queue is served, and the lock is given back.            *)
Fairness == \A c \in Cores : WF_vars(Grant(c)) /\ WF_vars(Release(c))

Spec == Init /\ [][Next]_vars /\ Fairness
=============================================================================
