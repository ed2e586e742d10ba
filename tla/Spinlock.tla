------------------------------ MODULE Spinlock ------------------------------
(***************************************************************************)
(* The ticket spinlock (kernel/src/Spinlock.cpp).  Each core runs          *)
(*     Acquire(); critical section; Release();                             *)
(* for ever.  Every atomic memory access is a step of its own.             *)
(***************************************************************************)
EXTENDS Naturals, Sequences, FiniteSets

CONSTANTS
  Cores,
  TicketMod    \* 2^32: tickets are uint32_t

(* There are fewer cores than tickets.                                     *)
ASSUME CoresAssumption ==
  /\ TicketMod \in Nat \ {0}
  /\ IsFiniteSet(Cores)
  /\ Cardinality(Cores) < TicketMod

VARIABLES
  nextTicket,
  servingTicket,
  ticket,     \* the local variable of Acquire, per core
  current,    \* the local variable of Release, per core
  pc

vars == <<nextTicket, servingTicket, ticket, current, pc>>

Tickets == 0 .. TicketMod - 1

Inc(t) == (t + 1) % TicketMod

Init ==
  /\ nextTicket = 0
  /\ servingTicket = 0
  /\ ticket = [c \in Cores |-> 0]
  /\ current = [c \in Cores |-> 0]
  /\ pc = [c \in Cores |-> "outside"]

AcquireLosesIncrement(c) ==    \* mutant: another core overwrites the increment
  /\ pc[c] = "outside"
  /\ ticket' = [ticket EXCEPT ![c] = nextTicket]
  /\ nextTicket' = nextTicket
  /\ pc' = [pc EXCEPT ![c] = "spinning"]
  /\ UNCHANGED <<servingTicket, current>>

(* __atomic_fetch_add(&nextTicket, 1)                                      *)
AcquireTicket(c) ==
  /\ pc[c] = "outside"
  /\ ticket' = [ticket EXCEPT ![c] = nextTicket]
  /\ nextTicket' = Inc(nextTicket)
  /\ pc' = [pc EXCEPT ![c] = "spinning"]
  /\ UNCHANGED <<servingTicket, current>>

AcquireSpinAnyOrder(c) ==    \* mutant: a plain test-and-set lock
  /\ pc[c] = "spinning"
  /\ \A d \in Cores : pc[d] \notin {"critical", "releasing"}
  /\ pc' = [pc EXCEPT ![c] = "critical"]
  /\ UNCHANGED <<nextTicket, servingTicket, ticket, current>>

(* The load of servingTicket that ends the spin loop.                      *)
AcquireSpin(c) ==
  /\ pc[c] = "spinning"
  /\ servingTicket = ticket[c]
  /\ pc' = [pc EXCEPT ![c] = "critical"]
  /\ UNCHANGED <<nextTicket, servingTicket, ticket, current>>

ReleaseLoad(c) ==
  /\ pc[c] = "critical"
  /\ current' = [current EXCEPT ![c] = servingTicket]
  /\ pc' = [pc EXCEPT ![c] = "releasing"]
  /\ UNCHANGED <<nextTicket, servingTicket, ticket>>

ReleaseStore(c) ==
  /\ pc[c] = "releasing"
  /\ servingTicket' = Inc(current[c])
  /\ pc' = [pc EXCEPT ![c] = "outside"]
  /\ UNCHANGED <<nextTicket, ticket, current>>

Next ==
  \E c \in Cores :
    AcquireTicket(c) \/ AcquireSpin(c) \/ ReleaseLoad(c) \/ ReleaseStore(c)

(* A core runs with interrupts off from Acquire to Release, so it is never *)
(* stopped inside them; it need not ask for the lock again.                *)
Fairness ==
  \A c \in Cores :
    WF_vars(AcquireSpin(c) \/ ReleaseLoad(c) \/ ReleaseStore(c))

Spec == Init /\ [][Next]_vars /\ Fairness

-----------------------------------------------------------------------------

(* The tickets of Acquire and Release stay uint32_t values.                *)
TypeOK ==
  /\ nextTicket \in Tickets
  /\ servingTicket \in Tickets
  /\ ticket \in [Cores -> Tickets]
  /\ current \in [Cores -> Tickets]
  /\ pc \in [Cores -> {"outside", "spinning", "critical", "releasing"}]

Inside(c) == pc[c] \in {"critical", "releasing"}

(* Spinlock::Acquire returns on at most one core at a time, also across a  *)
(* wrap of the 32-bit tickets.                                             *)
MutualExclusion == \A c, d \in Cores : Inside(c) /\ Inside(d) => c = d

(* How many releases it takes from ticket s being served to ticket t.      *)
Dist(t, s) == IF t >= s THEN t - s ELSE t + TicketMod - s

Waited(c) == Dist(ticket[c], servingTicket)

Engaged == {c \in Cores : pc[c] # "outside"}

(* Tickets in use are exactly the ones from servingTicket to nextTicket,   *)
(* one core each; the core inside the critical section has the first.      *)
TicketsInOrder ==
  /\ Cardinality(Engaged) = Dist(nextTicket, servingTicket)
  /\ \A c \in Engaged : Waited(c) < Dist(nextTicket, servingTicket)
  /\ \A c, d \in Engaged : ticket[c] = ticket[d] => c = d
  /\ \A c \in Cores : Inside(c) => ticket[c] = servingTicket
  /\ \A c \in Cores : pc[c] = "releasing" => current[c] = servingTicket

(* The queue is the cores in the order of their tickets.                   *)
Queue == [i \in 1..Cardinality(Engaged) |-> CHOOSE c \in Engaged : Waited(c) = i - 1]
Holding == {c \in Cores : Inside(c)}

Fifo == INSTANCE FifoLock WITH queue <- Queue, holding <- Holding

(* The lock is a FIFO lock: cores enter in the order of their fetch_add,   *)
(* and every core that took a ticket gets in.                              *)
ImplementsFifoLock == Fifo!Spec
=============================================================================
