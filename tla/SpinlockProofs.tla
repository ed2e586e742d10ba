--------------------------- MODULE SpinlockProofs ---------------------------
(***************************************************************************)
(* Mutual exclusion and the first-come order of the ticket spinlock for    *)
(* every number of cores and every ticket width.  TicketsInOrder is the    *)
(* inductive invariant.                                                    *)
(***************************************************************************)
EXTENDS Spinlock, FiniteSetTheorems, TLAPS

(* Spinlock.cpp's `current + 1' on uint32_t either adds one or wraps to 0. *)
LEMMA IncIsSuccessor ==
  ASSUME NEW t \in Tickets
  PROVE  /\ Inc(t) = IF t + 1 = TicketMod THEN 0 ELSE t + 1
         /\ Inc(t) \in Tickets
  BY CoresAssumption DEF Inc, Tickets

IInv == TypeOK /\ TicketsInOrder

(* The cores inside the lock protocol are finitely many.                   *)
LEMMA EngagedFinite ==
  /\ IsFiniteSet(Engaged)
  /\ Cardinality(Engaged) \in Nat
  /\ Cardinality(Engaged) <= Cardinality(Cores)
  BY CoresAssumption, FS_Subset, FS_CardinalityType DEF Engaged

(* With no core inside, no ticket is out.                                  *)
LEMMA InitIInv == Init => IInv
<1> SUFFICES ASSUME Init PROVE IInv
  OBVIOUS
<1>1. TypeOK
  BY CoresAssumption DEF Init, TypeOK, Tickets
<1>2. Engaged = {}
  BY DEF Init, Engaged
<1>3. QED
  BY <1>1, <1>2, FS_EmptySet DEF Init, IInv, TicketsInOrder, Waited, Dist, Inside

(* Acquire draws a ticket: the new one is distinct from all others.        *)
LEMMA TakeTicketKeepsIInv ==
  ASSUME IInv, NEW c \in Cores, AcquireTicket(c)
  PROVE  IInv'
<1> USE DEF IInv
<1>0. TypeOK'
  BY IncIsSuccessor DEF TypeOK, AcquireTicket
<1>1. c \notin Engaged /\ Engaged' = Engaged \cup {c}
  BY DEF AcquireTicket, Engaged, TypeOK
<1>2. Cardinality(Engaged') = Cardinality(Engaged) + 1
  BY <1>1, EngagedFinite, FS_AddElement
<1>3. Cardinality(Engaged) + 1 <= Cardinality(Cores)
  <2>1. IsFiniteSet(Cores) /\ Engaged' \subseteq Cores
    BY <1>1, CoresAssumption DEF Engaged
  <2>2. QED
    BY <2>1, <1>2, FS_Subset
<1>4. Dist(nextTicket, servingTicket) + 1 < TicketMod /\ Cardinality(Cores) \in Nat
  BY <1>3, CoresAssumption, FS_CardinalityType, EngagedFinite DEF TicketsInOrder, Dist, TypeOK, Tickets
<1>5. Dist(nextTicket, servingTicket)' = Dist(nextTicket, servingTicket) + 1
  BY <1>4, IncIsSuccessor, CoresAssumption DEF AcquireTicket, Dist, TypeOK, Tickets
<1>6. \A d \in Engaged : ticket[d] # nextTicket
  BY CoresAssumption DEF TicketsInOrder, Waited, Dist, TypeOK, Tickets, Engaged
<1>7. ticket'[c] = nextTicket /\ \A d \in Cores : d # c => ticket'[d] = ticket[d]
  BY DEF AcquireTicket, TypeOK
<1>8. (Cardinality(Engaged) = Dist(nextTicket, servingTicket))'
  BY <1>2, <1>5 DEF TicketsInOrder
<1>9. \A d \in Engaged' : Waited(d)' < Dist(nextTicket, servingTicket)'
  <2>1. Dist(nextTicket, servingTicket) \in Nat
    BY EngagedFinite DEF TicketsInOrder
  <2>2. \A d \in Engaged : Waited(d) \in Nat
    BY CoresAssumption DEF Waited, Dist, TypeOK, Tickets, Engaged
  <2>3. \A d \in Engaged : Waited(d)' = Waited(d)
    BY <1>1, <1>7 DEF AcquireTicket, Waited, Engaged
  <2>4. Waited(c)' = Dist(nextTicket, servingTicket)
    BY <1>7 DEF AcquireTicket, Waited
  <2>5. QED
    BY <2>1, <2>2, <2>3, <2>4, <1>1, <1>5 DEF TicketsInOrder
<1>10. \A d, e \in Engaged' : ticket'[d] = ticket'[e] => d = e
  BY <1>1, <1>6, <1>7 DEF TicketsInOrder, Engaged
<1>11. \A d \in Cores : Inside(d)' => Inside(d) /\ d # c /\ pc'[d] = pc[d]
  BY DEF AcquireTicket, Inside, TypeOK
<1>12. QED
  BY <1>0, <1>8, <1>9, <1>10, <1>11, <1>7 DEF TicketsInOrder, AcquireTicket, Inside

(* The steps of Acquire and Release that draw and serve no ticket.         *)
LEMMA StepInsideKeepsIInv ==
  ASSUME IInv, NEW c \in Cores, AcquireSpin(c) \/ ReleaseLoad(c)
  PROVE  IInv'
<1> USE DEF IInv
<1>0. TypeOK'
  BY DEF TypeOK, AcquireSpin, ReleaseLoad
<1>1. Engaged' = Engaged
  BY DEF AcquireSpin, ReleaseLoad, Engaged, TypeOK
<1>2. UNCHANGED <<nextTicket, servingTicket, ticket>>
  BY DEF AcquireSpin, ReleaseLoad
<1>3. \A d \in Engaged : Waited(d)' = Waited(d)
  BY <1>2 DEF Waited
<1>4. \A d \in Cores : Inside(d)' => ticket[d] = servingTicket
  BY DEF AcquireSpin, ReleaseLoad, Inside, TypeOK, TicketsInOrder
<1>5. \A d \in Cores : pc'[d] = "releasing" => current'[d] = servingTicket
  BY DEF AcquireSpin, ReleaseLoad, TypeOK, TicketsInOrder
<1>6. (Cardinality(Engaged) = Dist(nextTicket, servingTicket))'
  BY <1>1, <1>2, <1>3 DEF TicketsInOrder
<1>7. \A d \in Engaged' : Waited(d)' < Dist(nextTicket, servingTicket)'
  BY <1>1, <1>2, <1>3 DEF TicketsInOrder
<1>8. QED
  BY <1>0, <1>1, <1>2, <1>4, <1>5, <1>6, <1>7 DEF TicketsInOrder

(* Release serves the next ticket in order.                                *)
LEMMA ReleaseKeepsIInv ==
  ASSUME IInv, NEW c \in Cores, ReleaseStore(c)
  PROVE  IInv'
<1> USE DEF IInv
<1>0. current[c] = servingTicket /\ ticket[c] = servingTicket
  BY DEF ReleaseStore, TicketsInOrder, Inside
<1>1. TypeOK'
  BY IncIsSuccessor DEF TypeOK, ReleaseStore
<1>2. c \in Engaged /\ Engaged' = Engaged \ {c}
  BY DEF ReleaseStore, Engaged, TypeOK
<1>3. Cardinality(Engaged') = Cardinality(Engaged) - 1
  BY <1>2, EngagedFinite, FS_RemoveElement
<1>4. \A t \in Tickets : t # servingTicket =>
         /\ Dist(t, servingTicket) \in Nat
         /\ Dist(t, servingTicket') = Dist(t, servingTicket) - 1
  BY <1>0, IncIsSuccessor, CoresAssumption DEF ReleaseStore, Dist, TypeOK, Tickets
<1>5. nextTicket # servingTicket
  BY <1>2, CoresAssumption DEF TicketsInOrder, Waited, Dist, TypeOK, Tickets, Engaged
<1>6. \A d \in Engaged' : d \in Engaged /\ ticket[d] # servingTicket /\ ticket[d] \in Tickets
  BY <1>0, <1>2 DEF TicketsInOrder, TypeOK, Engaged
<1>7. ticket' = ticket /\ nextTicket' = nextTicket
  BY DEF ReleaseStore
<1>8. (Cardinality(Engaged) = Dist(nextTicket, servingTicket))'
  BY <1>3, <1>4, <1>5, <1>7 DEF TicketsInOrder, TypeOK
<1>9. \A d \in Engaged' : Waited(d)' < Dist(nextTicket, servingTicket)'
  BY <1>4, <1>5, <1>6, <1>7 DEF TicketsInOrder, TypeOK, Waited
<1>10. \A d \in Cores : ~ Inside(d)' /\ pc'[d] # "releasing"
  BY <1>0, <1>2 DEF ReleaseStore, Inside, TypeOK, TicketsInOrder, Engaged
<1>11. QED
  BY <1>1, <1>6, <1>7, <1>8, <1>9, <1>10 DEF TicketsInOrder

(* Tickets in use stay consecutive and distinct whatever the interleaving  *)
(* of the cores' Acquire and Release.                                      *)
THEOREM TicketsStayInOrder == Spec => [](TypeOK /\ TicketsInOrder)
<1>1. Init => IInv
  BY InitIInv
<1>2. IInv /\ [Next]_vars => IInv'
  <2> SUFFICES ASSUME IInv, [Next]_vars PROVE IInv'
    OBVIOUS
  <2>1. CASE UNCHANGED vars
    BY <2>1 DEF vars, IInv, TypeOK, TicketsInOrder, Engaged, Waited, Dist, Inside
  <2>2. ASSUME NEW c \in Cores,
               AcquireTicket(c) \/ AcquireSpin(c) \/ ReleaseLoad(c) \/ ReleaseStore(c)
        PROVE  IInv'
    BY <2>2, TakeTicketKeepsIInv, StepInsideKeepsIInv, ReleaseKeepsIInv
  <2>3. QED
    BY <2>1, <2>2 DEF Next
<1>3. QED
  BY <1>1, <1>2, PTL DEF Spec, IInv

(* Spinlock::Acquire returns on at most one core at a time.                *)
THEOREM SpinlockMutualExclusion == Spec => []MutualExclusion
<1>1. TypeOK /\ TicketsInOrder => MutualExclusion
  BY DEF TicketsInOrder, MutualExclusion, Engaged, Inside
<1>2. QED
  BY <1>1, TicketsStayInOrder, PTL

-----------------------------------------------------------------------------
(* The safety of the FIFO lock: every step of Acquire and Release is a     *)
(* step of FifoLock.                                                       *)

(* The waiting times of the cores inside are 0, 1, 2, ...: there is a core *)
(* with each of them, and only one.                                        *)
LEMMA WaitedIsBijection ==
  ASSUME IInv
  PROVE  /\ \A c \in Engaged : Waited(c) \in 0..(Cardinality(Engaged) - 1)
         /\ \A c, d \in Engaged : Waited(c) = Waited(d) => c = d
         /\ \A k \in 0..(Cardinality(Engaged) - 1) : \E c \in Engaged : Waited(c) = k
<1> DEFINE n == Cardinality(Engaged)
           W == {Waited(c) : c \in Engaged}
           w == [c \in Engaged |-> Waited(c)]
<1>1. IsFiniteSet(Engaged) /\ n \in Nat
  BY EngagedFinite
<1>2. ASSUME NEW c \in Engaged PROVE Waited(c) \in 0..(n - 1)
  BY <1>1, CoresAssumption DEF IInv, TicketsInOrder, Waited, Dist, TypeOK, Tickets, Engaged
<1>3. ASSUME NEW c \in Engaged, NEW d \in Engaged, Waited(c) = Waited(d) PROVE c = d
  <2>1. ticket[c] \in Tickets /\ ticket[d] \in Tickets /\ servingTicket \in Tickets
    BY DEF IInv, TypeOK, Engaged
  <2>2. ticket[c] = ticket[d]
    BY <1>3, <2>1, CoresAssumption DEF Waited, Dist, Tickets
  <2>3. QED
    BY <2>2 DEF IInv, TicketsInOrder
<1>4. W = 0..(n - 1)
  <2>1. w \in Bijection(Engaged, W)
    BY <1>3 DEF Bijection, Injection, Surjection, IsInjective
  <2>2. Cardinality(W) = n
    BY <1>1, <2>1, FS_Bijection DEF ExistsBijection
  <2>3. IsFiniteSet(0..(n - 1)) /\ Cardinality(0..(n - 1)) = n
    BY <1>1, FS_Interval
  <2>4. W \in SUBSET (0..(n - 1))
    BY <1>2
  <2>5. QED
    BY <2>2, <2>3, <2>4, FS_Subset
<1>5. QED
  BY <1>2, <1>3, <1>4

(* The core at place i of the queue has i - 1 releases to wait for.        *)
QueueIsOrdered ==
  /\ Queue \in Seq(Engaged) /\ Len(Queue) = Cardinality(Engaged)
  /\ \A i \in 1..Len(Queue) : Waited(Queue[i]) = i - 1
  /\ \A c \in Engaged : Waited(c) + 1 \in 1..Len(Queue) /\ Queue[Waited(c) + 1] = c

(* The cores of the queue are those that drew a ticket, in its order.      *)
LEMMA QueueOrder == IInv => QueueIsOrdered
<1> SUFFICES ASSUME IInv PROVE QueueIsOrdered
  OBVIOUS
<1> DEFINE n == Cardinality(Engaged)
<1>1. n \in Nat
  BY EngagedFinite
<1>2. ASSUME NEW i \in 1..n PROVE Queue[i] \in Engaged /\ Waited(Queue[i]) = i - 1
  <2>1. \E c \in Engaged : Waited(c) = i - 1
    BY <1>1, WaitedIsBijection
  <2>2. QED
    BY Zenon, <2>1 DEF Queue
<1>3. Queue \in Seq(Engaged) /\ Len(Queue) = n
  BY <1>1, <1>2 DEF Queue
<1>4. ASSUME NEW c \in Engaged PROVE Waited(c) + 1 \in 1..n /\ Queue[Waited(c) + 1] = c
  <2>1. Waited(c) \in 0..(n - 1)
    BY WaitedIsBijection
  <2>2. Waited(c) + 1 \in 1..n /\ (Waited(c) + 1) - 1 = Waited(c)
    BY <1>1, <2>1
  <2>3. Queue[Waited(c) + 1] \in Engaged /\ Waited(Queue[Waited(c) + 1]) = Waited(c)
    BY <1>2, <2>2
  <2>4. QED
    BY <2>2, <2>3, WaitedIsBijection
<1>5. QED
  BY <1>2, <1>3, <1>4 DEF QueueIsOrdered

(* The same after a step.                                                  *)
LEMMA QueueOrderNext == IInv' => QueueIsOrdered'
BY QueueOrder, PTL

(* The queue after a step is s, if the waiting times after it are those of *)
(* the places in s.                                                        *)
LEMMA QueueBecomes ==
  ASSUME IInv', NEW s \in Seq(Engaged'), Len(s) = Cardinality(Engaged'),
         \A i \in 1..Len(s) : Waited(s[i])' = i - 1
  PROVE  Queue' = s
<1>1. /\ Queue' \in Seq(Engaged') /\ Len(Queue') = Len(s)
      /\ \A c \in Engaged' : Queue'[Waited(c)' + 1] = c
  BY QueueOrderNext DEF QueueIsOrdered
<1>2. ASSUME NEW i \in 1..Len(s) PROVE Queue'[i] = s[i]
  <2>1. s[i] \in Engaged'
    OBVIOUS
  <2>2. PICK c : c = s[i]
    BY Zenon
  <2>3. Queue'[Waited(c)' + 1] = c
    BY <1>1, <2>1, <2>2
  <2>4. QED
    BY <2>2, <2>3
<1>3. QED
  BY <1>1, <1>2

(* Drawing a ticket is a request: the core is put at the end of the queue. *)
LEMMA TicketIsRequest ==
  ASSUME IInv, IInv', NEW c \in Cores, AcquireTicket(c)
  PROVE  Fifo!Request(c)
<1>1. /\ c \notin Engaged /\ Engaged' = Engaged \cup {c} /\ Holding' = Holding
      /\ UNCHANGED <<servingTicket>>
  BY DEF IInv, TypeOK, AcquireTicket, Engaged, Holding, Inside
<1>2. /\ QueueIsOrdered /\ Cardinality(Engaged') = Cardinality(Engaged) + 1
      /\ Cardinality(Engaged) \in Nat
  BY <1>1, QueueOrder, EngagedFinite, FS_AddElement
<1>3. ticket'[c] = nextTicket /\ \A d \in Cores : d # c => ticket'[d] = ticket[d]
  BY DEF IInv, AcquireTicket, TypeOK
<1>4. \A d \in Engaged : Waited(d)' = Waited(d)
  BY <1>1, <1>3 DEF Waited, Engaged
<1>5. Waited(c)' = Cardinality(Engaged)
  BY <1>1, <1>3 DEF Waited, IInv, TicketsInOrder
<1>6. PICK s : s = Append(Queue, c)
  BY Zenon
<1>7. /\ s \in Seq(Engaged') /\ Len(s) = Len(Queue) + 1 /\ s[Len(Queue) + 1] = c
      /\ \A i \in 1..Len(Queue) : s[i] = Queue[i]
  BY <1>1, <1>2, <1>6 DEF QueueIsOrdered
<1>8. ASSUME NEW i \in 1..Len(s) PROVE Waited(s[i])' = i - 1
  <2>1. PICK d : d = s[i]
    BY Zenon
  <2>2. CASE i = Len(Queue) + 1
    BY <1>2, <1>5, <1>7, <2>1, <2>2 DEF QueueIsOrdered
  <2>3. CASE i \in 1..Len(Queue)
    <3>1. d \in Engaged /\ Waited(d) = i - 1
      BY <1>2, <1>7, <2>1, <2>3 DEF QueueIsOrdered
    <3>2. Waited(d)' = i - 1
      BY <1>4, <3>1
    <3>3. QED
      BY <2>1, <3>2
  <2>4. QED
    BY <1>2, <1>7, <2>2, <2>3 DEF QueueIsOrdered
<1>9. Len(s) = Cardinality(Engaged')
  BY <1>2, <1>7 DEF QueueIsOrdered
<1>10. Queue' = s
  BY <1>7, <1>8, <1>9, QueueBecomes
<1>11. \A i \in 1..Len(Queue) : Queue[i] # c
  BY <1>1, <1>2 DEF QueueIsOrdered
<1>12. QED
  BY <1>1, <1>6, <1>10, <1>11 DEF Fifo!Request

(* Seeing one's ticket served is a grant to the head of the queue; loading *)
(* it again for Release changes nothing.                                   *)
LEMMA SpinIsGrant ==
  ASSUME IInv, IInv', NEW c \in Cores, AcquireSpin(c) \/ ReleaseLoad(c)
  PROVE  Fifo!Grant(c) \/ UNCHANGED <<Queue, Holding>>
<1>1. Engaged' = Engaged /\ UNCHANGED <<nextTicket, servingTicket, ticket>>
  BY DEF IInv, TypeOK, AcquireSpin, ReleaseLoad, Engaged
<1>2. Queue' = Queue
  BY <1>1 DEF Queue, Waited
<1>3. CASE AcquireSpin(c)
  <2>1. c \in Engaged /\ Waited(c) = 0
    BY <1>3 DEF IInv, TypeOK, Tickets, AcquireSpin, Engaged, Waited, Dist
  <2>2. 1 \in 1..Len(Queue) /\ Queue[1] = c /\ Queue \in Seq(Engaged)
    BY <2>1, QueueOrder DEF QueueIsOrdered
  <2>3. Queue # <<>> /\ Head(Queue) = c
    BY <2>2
  <2>4. c \notin Holding /\ Holding' = Holding \cup {c}
    BY <1>3 DEF IInv, TypeOK, AcquireSpin, Holding, Inside
  <2>5. QED
    BY <1>2, <2>3, <2>4 DEF Fifo!Grant
<1>4. CASE ReleaseLoad(c)
  <2>1. Holding' = Holding
    BY <1>4 DEF IInv, TypeOK, ReleaseLoad, Holding, Inside
  <2>2. QED
    BY <1>2, <2>1
<1>5. QED
  BY <1>3, <1>4

(* Serving the next ticket takes the head off the queue.                   *)
LEMMA StoreIsRelease ==
  ASSUME IInv, IInv', NEW c \in Cores, ReleaseStore(c)
  PROVE  Fifo!Release(c)
<1>1. /\ current[c] = servingTicket /\ ticket[c] = servingTicket
      /\ c \in Engaged /\ Engaged' = Engaged \ {c} /\ ticket' = ticket
  BY DEF IInv, TypeOK, ReleaseStore, TicketsInOrder, Inside, Engaged
<1>2. c \in Holding /\ Holding' = Holding \ {c}
  BY DEF IInv, TypeOK, ReleaseStore, Holding, Inside
<1>3. /\ QueueIsOrdered /\ Cardinality(Engaged') = Cardinality(Engaged) - 1
      /\ Cardinality(Engaged) \in Nat
  BY <1>1, QueueOrder, EngagedFinite, FS_RemoveElement
<1>4. ASSUME NEW d \in Engaged' PROVE Waited(d)' = Waited(d) - 1
  <2>1. ticket[d] \in Tickets /\ servingTicket \in Tickets /\ ticket[d] # servingTicket
    BY <1>1 DEF IInv, TypeOK, TicketsInOrder, Engaged
  <2>2. servingTicket' = Inc(servingTicket)
    BY <1>1 DEF ReleaseStore
  <2>3. Dist(ticket[d], servingTicket') = Dist(ticket[d], servingTicket) - 1
    BY <2>1, <2>2, IncIsSuccessor, CoresAssumption DEF Dist, Tickets
  <2>4. QED
    BY <1>1, <2>3 DEF Waited
<1>5. Queue \in Seq(Engaged) /\ Queue # <<>> /\ Queue[1] = c /\ Len(Queue) \in Nat \ {0}
  <2>1. Waited(c) = 0
    BY <1>1 DEF IInv, TypeOK, Tickets, Waited, Dist
  <2>2. QED
    BY <1>1, <1>3, <2>1 DEF QueueIsOrdered
<1>6. PICK s : s = Tail(Queue)
  BY Zenon
<1>7. /\ s \in Seq(Engaged) /\ Len(s) = Len(Queue) - 1
      /\ \A i \in 1..Len(s) : s[i] = Queue[i + 1]
  BY <1>5, <1>6
<1>8. ASSUME NEW i \in 1..Len(s)
      PROVE  s[i] \in Engaged' /\ Waited(s[i])' = i - 1
  <2>1. PICK d : d = s[i]
    BY Zenon
  <2>2. i + 1 \in 1..Len(Queue) /\ d = Queue[i + 1]
    BY <1>5, <1>7, <2>1
  <2>3. d \in Engaged /\ Waited(d) = (i + 1) - 1
    BY <1>3, <2>2 DEF QueueIsOrdered
  <2>4. d # c
    BY <1>3, <1>5, <2>2, <2>3 DEF QueueIsOrdered
  <2>5. d \in Engaged' /\ Waited(d)' = i - 1
    BY <1>1, <1>4, <2>3, <2>4
  <2>6. QED
    BY <2>1, <2>5
<1>9. s \in Seq(Engaged') /\ Len(s) = Cardinality(Engaged')
  BY <1>3, <1>7, <1>8 DEF QueueIsOrdered
<1>10. Queue' = s
  BY <1>8, <1>9, QueueBecomes
<1>11. QED
  BY <1>2, <1>6, <1>10 DEF Fifo!Release

(* Spinlock is a FIFO lock: cores get it in the order of their fetch_add   *)
(* and one at a time, for every number of cores and across wraps of the    *)
(* tickets.  (That they get it at all is left to the fairness.)            *)
THEOREM SpinlockIsFifo == Spec => Fifo!Init /\ [][Fifo!Next]_(Fifo!vars)
<1>1. Init => Fifo!Init
  <2> SUFFICES ASSUME Init PROVE Fifo!Init
    OBVIOUS
  <2>1. Engaged = {} /\ Holding = {}
    BY DEF Init, Engaged, Holding, Inside
  <2>2. Cardinality(Engaged) = 0
    BY <2>1, FS_EmptySet
  <2>3. Queue = <<>>
    BY <2>2 DEF Queue
  <2>4. QED
    BY <2>1, <2>3 DEF Fifo!Init
<1>2. IInv /\ IInv' /\ [Next]_vars => [Fifo!Next]_(Fifo!vars)
  <2> SUFFICES ASSUME IInv, IInv', [Next]_vars PROVE Fifo!Next \/ UNCHANGED <<Queue, Holding>>
    BY DEF Fifo!vars
  <2>1. CASE UNCHANGED vars
    BY <2>1 DEF vars, Queue, Holding, Inside, Engaged, Waited
  <2>2. ASSUME NEW c \in Cores,
               AcquireTicket(c) \/ AcquireSpin(c) \/ ReleaseLoad(c) \/ ReleaseStore(c)
        PROVE  Fifo!Next \/ UNCHANGED <<Queue, Holding>>
    BY Zenon, <2>2, TicketIsRequest, SpinIsGrant, StoreIsRelease DEF Fifo!Next
  <2>3. QED
    BY <2>1, <2>2 DEF Next
<1>3. QED
  BY <1>1, <1>2, TicketsStayInOrder, PTL DEF Spec, IInv

=============================================================================
