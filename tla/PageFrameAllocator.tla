------------------------- MODULE PageFrameAllocator -------------------------
(***************************************************************************)
(* The physical memory allocator (kernel/src/Memory/                       *)
(* PageFrameAllocator.cpp): a bitmap of page frames under                  *)
(* pageFrameBitmapLock, and a cursor that only moves up.  The scan moves   *)
(* the cursor itself, one frame per step; RequestPageFrame reads it once   *)
(* more after it has released the lock.  Nothing in the kernel calls       *)
(* FreePageFrame, so frames are only ever taken.                           *)
(***************************************************************************)
EXTENDS Naturals

CONSTANTS
  Cores, None,
  PageFrameCount,   \* TotalNumberOfBits() of the bitmap
  Reserved,         \* frames whose bits are set when the allocator starts
  Counts,           \* the arguments of RequestPageFrames
  SingleFrames      \* TRUE: RequestPageFrame is called too

ASSUME PageFrameAssumption ==
  /\ None \notin Cores
  /\ PageFrameCount \in Nat \ {0}
  /\ Reserved \subseteq 0..(PageFrameCount - 1)
  /\ Counts \subseteq Nat \ {0}
  /\ SingleFrames \in BOOLEAN

VARIABLES
  pageFrameBitmap,            \* the frames whose bit is set
  pageFrameBitmapLock,        \* None or the core that holds it
  latestAllocatedPageFrame,
  call,                       \* per core: its request
  given                       \* per frame: how many callers it was returned to

vars == <<pageFrameBitmap, pageFrameBitmapLock, latestAllocatedPageFrame, call, given>>

Frames == 0..(PageFrameCount - 1)
Ready == [op |-> "none", count |-> 0, contiguous |-> 0, first |-> 0]

(* The frames from first up to and including last.                         *)
FrameRange(first, last) == {f \in Frames : first <= f /\ f <= last}

(* Set bits: memory that is not usable, and the bitmap's own frames, of     *)
(* which the code counts whole pages only; a last frame that the bitmap    *)
(* fills in part is not in Reserved, and is given away like any other.     *)
Init ==
  /\ pageFrameBitmap = Reserved
  /\ pageFrameBitmapLock = None
  /\ latestAllocatedPageFrame = 0
  /\ call = [c \in Cores |-> Ready]
  /\ given = [f \in Frames |-> 0]

(* Acquire: of RequestPageFrame (op "one", count 1) or RequestPageFrames.  *)
Acquire(c, op, count) ==
  /\ call[c].op = "none"
  /\ pageFrameBitmapLock = None
  /\ pageFrameBitmapLock' = c
  /\ call' = [call EXCEPT ![c] = [op |-> op, count |-> count, contiguous |-> 0, first |-> 0]]
  /\ UNCHANGED <<pageFrameBitmap, latestAllocatedPageFrame, given>>

(* The loop is at a frame whose bit is clear.                              *)
FreeFrame ==
  /\ latestAllocatedPageFrame < PageFrameCount
  /\ latestAllocatedPageFrame \notin pageFrameBitmap

(* contiguousCount after a frame that is in use.                           *)
Contiguous(c) == 0

(* One turn of the loop, at a frame in use.                                *)
SkipFrame(c) ==
  /\ pageFrameBitmapLock = c
  /\ latestAllocatedPageFrame \in pageFrameBitmap
  /\ latestAllocatedPageFrame' = latestAllocatedPageFrame + 1
  /\ call' = [call EXCEPT ![c].contiguous = Contiguous(c)]
  /\ UNCHANGED <<pageFrameBitmap, pageFrameBitmapLock, given>>

(* One turn of the loop, at a free frame that does not complete the run.   *)
ExtendRun(c) ==
  /\ pageFrameBitmapLock = c
  /\ FreeFrame
  /\ call[c].contiguous + 1 # call[c].count
  /\ latestAllocatedPageFrame' = latestAllocatedPageFrame + 1
  /\ call' = [call EXCEPT ![c].contiguous = @ + 1]
  /\ UNCHANGED <<pageFrameBitmap, pageFrameBitmapLock, given>>

FirstOffByOne(c) ==    \* mutant: the + 1 is missing
  IF latestAllocatedPageFrame < call[c].count THEN 0
  ELSE latestAllocatedPageFrame - call[c].count

First(c) == latestAllocatedPageFrame - call[c].count + 1

(* The run is complete: its bits are set, the lock is released.            *)
TakeRun(c) ==
  /\ pageFrameBitmapLock = c
  /\ FreeFrame
  /\ call[c].contiguous + 1 = call[c].count
  /\ pageFrameBitmap' = pageFrameBitmap \cup FrameRange(First(c), latestAllocatedPageFrame)
  /\ pageFrameBitmapLock' = None
  /\ call' = [call EXCEPT ![c].first = First(c)]
  /\ UNCHANGED <<latestAllocatedPageFrame, given>>

(* The end of the bitmap: the caller panics.                               *)
OutOfMemory(c) ==
  /\ pageFrameBitmapLock = c
  /\ latestAllocatedPageFrame >= PageFrameCount
  /\ pageFrameBitmapLock' = None
  /\ call' = [call EXCEPT ![c].op = "panic"]
  /\ UNCHANGED <<pageFrameBitmap, latestAllocatedPageFrame, given>>

(* The frames that the return statement names, read after the release.     *)
Result(c) ==
  IF call[c].op = "one"
  THEN FrameRange(latestAllocatedPageFrame, latestAllocatedPageFrame)
  ELSE FrameRange(call[c].first, call[c].first + call[c].count - 1)

Return(c) ==
  /\ call[c].op \in {"one", "many"}
  /\ pageFrameBitmapLock # c
  /\ given' = [f \in Frames |-> IF f \in Result(c) THEN given[f] + 1 ELSE given[f]]
  /\ call' = [call EXCEPT ![c] = Ready]
  /\ UNCHANGED <<pageFrameBitmap, pageFrameBitmapLock, latestAllocatedPageFrame>>

Next == \E c \in Cores :
  \/ SingleFrames /\ Acquire(c, "one", 1)
  \/ \E n \in Counts : Acquire(c, "many", n)
  \/ SkipFrame(c) \/ ExtendRun(c) \/ TakeRun(c) \/ OutOfMemory(c) \/ Return(c)

Spec == Init /\ [][Next]_vars

-----------------------------------------------------------------------------
(* Properties                                                              *)

(* The bitmap and the results name frames; the cursor may pass the last    *)
(* one by one.                                                             *)
TypeOK ==
  /\ pageFrameBitmap \subseteq Frames
  /\ pageFrameBitmapLock \in Cores \cup {None}
  /\ latestAllocatedPageFrame \in 0..PageFrameCount
  /\ call \in [Cores -> [op : {"none", "one", "many", "panic"}, count : Nat,
                         contiguous : Nat, first : Nat]]
  /\ given \in [Frames -> Nat]

(* The allocator's promise: no frame is returned to two callers, and none  *)
(* whose bit InitializePageFrameAllocator has set is returned.             *)
FramesGivenOnce ==
  \A f \in Frames : given[f] <= (IF f \in Reserved THEN 0 ELSE 1)
=============================================================================
