-------------------------------- MODULE Heap --------------------------------
(***************************************************************************)
(* The kernel heap (kernel/src/Heap.cpp): slabs of equal slots whose free  *)
(* list lives in the free slots themselves, each under its own lock.       *)
(* Addresses and sizes are numbers of bytes, with small slabs.  The two    *)
(* pointer updates under a lock are separate steps.                        *)
(***************************************************************************)
EXTENDS Math, FiniteSets

CONSTANTS
  Cores, None,
  SLABS_COUNT, SlabSize,
  Sizes               \* the sizes that the kernel asks for

ASSUME HeapAssumption ==
  /\ None \notin Cores
  /\ SLABS_COUNT \in Nat \ {0} /\ SlabSize \in Nat \ {0}
  /\ SlabSize % Pow(2, 2 + SLABS_COUNT) = 0
  /\ Sizes \subseteq Nat \ {0}

VARIABLES
  head,               \* per slab: address of the first free slot, 0 if none
  next,               \* per slot address: FreeSlot::next; Junk in use
  lock,               \* per slab: None or the core that holds the lock
  call,               \* per core: what it is doing
  held,               \* the blocks [addr, size] that the kernel uses
  panic

vars == <<head, next, lock, call, held, panic>>

Slabs == 0..(SLABS_COUNT - 1)
SlotSize(slab) == Pow(2, 3 + slab)
SlabBase(slab) == (slab + 1) * SlabSize
Slots(slab) == {SlabBase(slab) + i * SlotSize(slab) : i \in 0..(SlabSize \div SlotSize(slab) - 1)}
Addresses == UNION {Slots(slab) : slab \in Slabs}
Junk == 1    \* whatever the user of the slot stored there

Idle == [op |-> "none", slab |-> 0, ptr |-> 0, size |-> 0]

(* InitializeKernelHeap: each slot points to the one above it.             *)
Init ==
  /\ head = [slab \in Slabs |-> SlabBase(slab)]
  /\ next = [addr \in Addresses |->
               LET slab == CHOOSE s \in Slabs : addr \in Slots(s)
               IN IF addr + SlotSize(slab) \in Slots(slab) THEN addr + SlotSize(slab) ELSE 0]
  /\ lock = [slab \in Slabs |-> None]
  /\ call = [c \in Cores |-> Idle]
  /\ held = {}
  /\ panic = FALSE

-----------------------------------------------------------------------------
(* KMalloc                                                                 *)

SlabIndexOfFloor(size) ==    \* mutant: the logarithm is rounded down
  LET least == IF size < 8 THEN 8 ELSE size
  IN CeilLog2(least) - 3 - (IF PowerOfTwo(least) THEN 0 ELSE 1)

SlabIndex(size) == CeilLog2(IF size < 8 THEN 8 ELSE size) - 3

LockFree(slab) == lock[slab] = None

(* KMalloc up to the Acquire of Slab::Alloc, or its Assert.                *)
KMalloc(c, size) ==
  /\ call[c] = Idle /\ ~panic
  /\ IF SlabIndex(size) \in Slabs
     THEN /\ LockFree(SlabIndex(size))
          /\ lock' = [lock EXCEPT ![SlabIndex(size)] = c]
          /\ call' = [call EXCEPT ![c] =
                        [op |-> "alloc", slab |-> SlabIndex(size), ptr |-> 0, size |-> size]]
          /\ UNCHANGED panic
     ELSE panic' = TRUE /\ UNCHANGED <<lock, call>>
  /\ UNCHANGED <<head, next, held>>

(* addr = head, which must not be null.                                    *)
AllocHead(c) ==
  /\ call[c].op = "alloc" /\ call[c].ptr = 0 /\ ~panic
  /\ IF head[call[c].slab] = 0 THEN panic' = TRUE /\ UNCHANGED call
     ELSE call' = [call EXCEPT ![c].ptr = head[call[c].slab]] /\ UNCHANGED panic
  /\ UNCHANGED <<head, next, lock, held>>

(* head = head->next, Release; the caller then overwrites the slot.        *)
AllocNext(c) ==
  /\ call[c].op = "alloc" /\ call[c].ptr # 0 /\ ~panic
  /\ LET slab == call[c].slab
         addr == call[c].ptr
     IN /\ head' = [head EXCEPT ![slab] = next[head[slab]]]
        /\ next' = [next EXCEPT ![addr] = Junk]
        /\ lock' = [lock EXCEPT ![slab] = None]
        /\ held' = held \cup {[addr |-> addr, size |-> call[c].size]}
  /\ call' = [call EXCEPT ![c] = Idle]
  /\ UNCHANGED panic

-----------------------------------------------------------------------------
(* KFree                                                                   *)

SlabOfInclusive(ptr) ==    \* mutant: <= at the end of the slab
  CHOOSE slab \in Slabs : ptr >= SlabBase(slab) /\ ptr <= SlabBase(slab) + SlabSize

(* The slab whose range of addresses the pointer is in.                    *)
SlabOf(ptr) ==
  CHOOSE slab \in Slabs : ptr >= SlabBase(slab) /\ ptr < SlabBase(slab) + SlabSize

(* KFree up to the Acquire of Slab::Free.  The kernel frees what it holds. *)
KFree(c, addr, size) ==
  /\ call[c] = Idle /\ ~panic
  /\ [addr |-> addr, size |-> size] \in held
  /\ LET slab == SlabOf(addr)
     IN /\ LockFree(slab)
        /\ lock' = [lock EXCEPT ![slab] = c]
        /\ call' = [call EXCEPT ![c] =
                      [op |-> "free", slab |-> slab, ptr |-> addr, size |-> 0]]
  /\ held' = held \ {[addr |-> addr, size |-> size]}
  /\ UNCHANGED <<head, next, panic>>

(* previousHead = head; head = ptr                                         *)
FreeHead(c) ==
  /\ call[c].op = "free" /\ ~panic
  /\ LET slab == call[c].slab
     IN /\ call' = [call EXCEPT ![c] = [@ EXCEPT !.op = "link", !.size = head[slab]]]
        /\ head' = [head EXCEPT ![slab] = call[c].ptr]
  /\ UNCHANGED <<next, lock, held, panic>>

(* head->next = previousHead, Release.                                     *)
FreeLink(c) ==
  /\ call[c].op = "link" /\ ~panic
  /\ next' = [next EXCEPT ![head[call[c].slab]] = call[c].size]
  /\ lock' = [lock EXCEPT ![call[c].slab] = None]
  /\ call' = [call EXCEPT ![c] = Idle]
  /\ UNCHANGED <<head, held, panic>>

Next ==
  \E c \in Cores :
    \/ \E size \in Sizes : KMalloc(c, size) \/ \E addr \in Addresses : KFree(c, addr, size)
    \/ AllocHead(c) \/ AllocNext(c) \/ FreeHead(c) \/ FreeLink(c)

Spec == Init /\ [][Next]_vars

-----------------------------------------------------------------------------
(* Properties                                                              *)

Bytes(block) == block.addr..(block.addr + block.size - 1)

(* What new returns is memory of its own: no two blocks that the kernel    *)
(* uses share a byte, and the slot that Alloc returns next is in none.     *)
BlocksAreDisjoint ==
  /\ \A x, y \in held : x # y => Bytes(x) \cap Bytes(y) = {}
  /\ \A block \in held, slab \in Slabs :
       head[slab] # 0 => head[slab] \notin Bytes(block)

(* The slab that KMalloc picks with CeilLog2, and finds the block in again *)
(* when it is freed, is the one of the smallest slots that are not smaller *)
(* than the block.                                                         *)
SlotsFitTightly ==
  \A block \in held, slab \in Slabs :
    block.addr \in Slots(slab) =>
      /\ SlotSize(slab) >= block.size
      /\ \A smaller \in 0..(slab - 1) : SlotSize(smaller) < block.size

(* The slots on the free list: head, head->next and so on.                 *)
FreeList(slab) ==
  LET step[n \in 0..(SlabSize \div SlotSize(slab))] ==
        IF n = 0 THEN {head[slab]} \ {0}
        ELSE step[n - 1] \cup ({next[addr] : addr \in step[n - 1]} \ {0})
  IN step[SlabSize \div SlotSize(slab)]

(* While nobody is in the slab, each of its slots is either in use or on   *)
(* the free list: Alloc and Free of several cores lose none.               *)
NoSlotIsLost ==
  \A slab \in Slabs :
    LockFree(slab) =>
      FreeList(slab) = Slots(slab) \ {block.addr : block \in held}
=============================================================================
