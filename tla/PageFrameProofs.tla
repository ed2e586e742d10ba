--------------------------- MODULE PageFrameProofs ---------------------------
(***************************************************************************)
(* No page frame is handed out twice, for any number of frames and any     *)
(* memory map, as long as RequestPageFrame is called on one core only; the *)
(* contiguous requests are safe on any number of cores.                    *)
(***************************************************************************)
EXTENDS PageFrameAllocator, TLAPS

(* One core, or contiguous requests only.                                  *)
NoSharedCursor == (\A c, d \in Cores : c = d) \/ ~SingleFrames

(* Core c has released the lock and not yet returned.                      *)
Pending(c) == call[c].op \in {"one", "many"} /\ pageFrameBitmapLock # c

(* The frames that the finished scan of core c set aside.                  *)
Taken(c) == FrameRange(call[c].first, call[c].first + call[c].count - 1)

(* A scan holds the lock, and the contiguousCount frames below the cursor  *)
(* are free.                                                               *)
ScanInv ==
  \A c \in Cores : pageFrameBitmapLock = c =>
    /\ call[c].op \in {"one", "many"}
    /\ call[c].contiguous < call[c].count
    /\ call[c].contiguous <= latestAllocatedPageFrame
    /\ \A f \in Frames :
         latestAllocatedPageFrame - call[c].contiguous <= f /\ f < latestAllocatedPageFrame =>
           f \notin pageFrameBitmap

(* What is set aside and not yet returned is marked, was never returned    *)
(* and belongs to one core.                                                *)
PendingInv ==
  /\ \A c \in Cores : Pending(c) => \A f \in Taken(c) :
       f \in pageFrameBitmap /\ f \notin Reserved /\ given[f] = 0
  /\ \A c, d \in Cores : Pending(c) /\ Pending(d) /\ c # d =>
       \A f \in Taken(c) : f \notin Taken(d)

(* RequestPageFrame returns the frame that it set aside.                   *)
SingleInv ==
  \A c \in Cores : call[c].op = "one" =>
    /\ SingleFrames
    /\ call[c].count = 1
    /\ Pending(c) => latestAllocatedPageFrame = call[c].first

GivenInv ==
  /\ Reserved \subseteq pageFrameBitmap
  /\ \A f \in Frames : given[f] > 0 =>
       given[f] = 1 /\ f \in pageFrameBitmap /\ f \notin Reserved

IInv == TypeOK /\ ScanInv /\ PendingInv /\ SingleInv /\ GivenInv

(* Before the first request the invariant holds.                           *)
LEMMA InitIInv == ASSUME Init PROVE IInv
<1> USE PageFrameAssumption DEF Init, Frames, Ready
<1>1. TypeOK
  BY DEF TypeOK
<1>2. ScanInv
  BY DEF ScanInv
<1>3. PendingInv
  BY DEF PendingInv, Pending
<1>4. SingleInv
  BY DEF SingleInv
<1>5. GivenInv
  BY DEF GivenInv
<1> QED BY <1>1, <1>2, <1>3, <1>4, <1>5 DEF IInv

(* The scan keeps the invariant: Acquire, SkipFrame, ExtendRun and         *)
(* OutOfMemory change neither the bitmap nor what has been returned.       *)
LEMMA ScanKeepsIInv ==
  ASSUME IInv, NoSharedCursor, NEW c \in Cores, NEW op \in {"one", "many"},
         NEW n \in Nat \ {0}, op = "one" => SingleFrames /\ n = 1,
         Acquire(c, op, n) \/ SkipFrame(c) \/ ExtendRun(c) \/ OutOfMemory(c)
  PROVE  IInv'
<1> USE PageFrameAssumption DEF IInv, TypeOK, Frames, FreeFrame, Contiguous
<1>1. UNCHANGED <<pageFrameBitmap, given>>
  BY DEF Acquire, SkipFrame, ExtendRun, OutOfMemory
<1>2. /\ call \in [Cores -> [op : {"none", "one", "many", "panic"}, count : Nat,
                             contiguous : Nat, first : Nat]]
      /\ \A d \in Cores : d # c => call'[d] = call[d]
  BY DEF Acquire, SkipFrame, ExtendRun, OutOfMemory
<1>3. ~Pending(c) /\ ~Pending(c)'
  BY DEF Acquire, SkipFrame, ExtendRun, OutOfMemory, Pending, ScanInv
<1>4. \A d \in Cores : d # c => (Pending(d)' <=> Pending(d)) /\ Taken(d)' = Taken(d)
  BY <1>2 DEF Acquire, SkipFrame, ExtendRun, OutOfMemory, Pending, Taken, FrameRange
<1>5. TypeOK'
  <2>1. CASE Acquire(c, op, n)
    BY <2>1, <1>1 DEF Acquire
  <2>2. CASE SkipFrame(c)
    <3>1. latestAllocatedPageFrame' \in 0..PageFrameCount
      BY <2>2 DEF SkipFrame
    <3> QED BY <3>1, <2>2, <1>1, Zenon DEF SkipFrame
  <2>3. CASE ExtendRun(c)
    <3>1. latestAllocatedPageFrame' \in 0..PageFrameCount
      BY <2>3 DEF ExtendRun
    <3>2. call' \in [Cores -> [op : {"none", "one", "many", "panic"}, count : Nat,
                               contiguous : Nat, first : Nat]]
      <4> DEFINE r == [call[c] EXCEPT !.contiguous = call[c].contiguous + 1]
      <4>1. call[c] \in [op : {"none", "one", "many", "panic"}, count : Nat,
                         contiguous : Nat, first : Nat]
        BY <1>2
      <4>2. call[c].contiguous + 1 \in Nat
        BY <4>1
      <4>3. r \in [op : {"none", "one", "many", "panic"}, count : Nat,
                   contiguous : Nat, first : Nat]
        BY <4>1, <4>2, Zenon
      <4>4. call' = [call EXCEPT ![c] = r]
        BY <2>3 DEF ExtendRun
      <4> QED BY <4>3, <4>4
    <3> QED BY <3>1, <3>2, <2>3, <1>1 DEF ExtendRun
  <2>4. CASE OutOfMemory(c)
    BY <2>4, <1>1 DEF OutOfMemory
  <2> QED BY <2>1, <2>2, <2>3, <2>4, Zenon
<1>6. ScanInv'
  <2>1. CASE Acquire(c, op, n)
    BY <2>1, <1>1 DEF Acquire, ScanInv
  <2>2. CASE SkipFrame(c)
    BY <2>2, <1>1, <1>2 DEF SkipFrame, ScanInv
  <2>3. CASE ExtendRun(c)
    <3>1. /\ call'[c] = [call[c] EXCEPT !.contiguous = @ + 1]
          /\ latestAllocatedPageFrame' = latestAllocatedPageFrame + 1
          /\ latestAllocatedPageFrame \notin pageFrameBitmap
          /\ call[c].contiguous + 1 # call[c].count
          /\ pageFrameBitmapLock = c /\ pageFrameBitmapLock' = c
      BY <2>3 DEF ExtendRun
    <3>2. latestAllocatedPageFrame' - call'[c].contiguous
            = latestAllocatedPageFrame - call[c].contiguous
      BY <3>1
    <3>3. ASSUME NEW f \in Frames, latestAllocatedPageFrame - call[c].contiguous <= f,
                 f < latestAllocatedPageFrame + 1
          PROVE  f \notin pageFrameBitmap'
      BY <3>1, <3>3, <1>1 DEF ScanInv
    <3>4. /\ call'[c].op \in {"one", "many"}
          /\ call'[c].contiguous < call'[c].count
          /\ call'[c].contiguous <= latestAllocatedPageFrame'
      BY <3>1 DEF ScanInv
    <3> QED BY <3>1, <3>2, <3>3, <3>4, Zenon DEF ScanInv
  <2>4. CASE OutOfMemory(c)
    BY <2>4 DEF OutOfMemory, ScanInv
  <2> QED BY <2>1, <2>2, <2>3, <2>4
<1>7. PendingInv'
  <2>1. ASSUME NEW d \in Cores, Pending(d)', NEW f \in Taken(d)'
        PROVE  f \in pageFrameBitmap' /\ f \notin Reserved /\ given'[f] = 0
    BY <2>1, <1>1, <1>3, <1>4, SMTT(30) DEF PendingInv
  <2>2. ASSUME NEW d \in Cores, NEW e \in Cores, Pending(d)', Pending(e)', d # e,
               NEW f \in Taken(d)'
        PROVE  f \notin Taken(e)'
    BY <2>2, <1>3, <1>4, SMTT(30) DEF PendingInv
  <2> QED BY <2>1, <2>2 DEF PendingInv
<1>8. SingleInv'
  <2>1. \A d \in Cores : call'[d].op = "one" => SingleFrames /\ call'[d].count = 1
    BY <1>2, SMTT(30) DEF Acquire, SkipFrame, ExtendRun, OutOfMemory, SingleInv
  <2>2. \A d \in Cores : call'[d].op = "one" => ~Pending(d)'
    BY <2>1, <1>3 DEF NoSharedCursor
  <2> QED BY <2>1, <2>2 DEF SingleInv
<1>9. GivenInv'
  BY <1>1 DEF GivenInv
<1> QED BY <1>5, <1>6, <1>7, <1>8, <1>9, Zenon

(* TakeRun sets aside free frames: the run below the cursor and the frame  *)
(* at the cursor.                                                          *)
LEMMA TakeRunKeepsIInv ==
  ASSUME IInv, NoSharedCursor, NEW c \in Cores, TakeRun(c)
  PROVE  IInv'
<1> USE PageFrameAssumption DEF IInv, TypeOK, Frames
<1>1. /\ call[c].op \in {"one", "many"}
      /\ call[c].contiguous + 1 = call[c].count
      /\ First(c) = latestAllocatedPageFrame - call[c].contiguous
      /\ First(c) \in Nat /\ latestAllocatedPageFrame \in Frames
  BY DEF TakeRun, First, ScanInv, FreeFrame
<1>2. \A f \in FrameRange(First(c), latestAllocatedPageFrame) : f \notin pageFrameBitmap
  BY <1>1 DEF FrameRange, ScanInv, TakeRun, FreeFrame
<1>3. /\ \A d \in Cores : d # c => call'[d] = call[d]
      /\ call'[c] = [call[c] EXCEPT !.first = First(c)]
  BY DEF TakeRun
<1>4. Taken(c)' = FrameRange(First(c), latestAllocatedPageFrame)
  <2>1. call'[c].first = First(c) /\ call'[c].count = call[c].count
    BY <1>3
  <2>2. First(c) + call[c].count - 1 = latestAllocatedPageFrame
    BY <1>1
  <2> QED
    BY <2>1, <2>2 DEF Taken, FrameRange
<1>5. \A d \in Cores : d # c => (Pending(d)' <=> Pending(d)) /\ Taken(d)' = Taken(d)
  BY <1>3 DEF Pending, Taken, FrameRange, TakeRun
<1>6. /\ pageFrameBitmap' = pageFrameBitmap \cup FrameRange(First(c), latestAllocatedPageFrame)
      /\ UNCHANGED <<latestAllocatedPageFrame, given>>
      /\ pageFrameBitmapLock' = None
  BY DEF TakeRun
<1>7. TypeOK'
  BY <1>1, <1>6 DEF FrameRange, TakeRun
<1>8. ScanInv'
  BY <1>6 DEF ScanInv
<1>9. PendingInv'
  <2>1. ASSUME NEW d \in Cores, Pending(d)', NEW f \in Taken(d)'
        PROVE  f \in pageFrameBitmap' /\ f \notin Reserved /\ given'[f] = 0
    <3>1. CASE d = c
      BY <3>1, <2>1, <1>2, <1>4, <1>6 DEF GivenInv, FrameRange
    <3>2. CASE d # c
      BY <3>2, <2>1, <1>5, <1>6 DEF PendingInv
    <3> QED BY <3>1, <3>2
  <2>2. ASSUME NEW d \in Cores, NEW e \in Cores, Pending(d)', Pending(e)', d # e,
               NEW f \in Taken(d)'
        PROVE  f \notin Taken(e)'
    BY <2>2, <1>2, <1>4, <1>5, SMTT(30) DEF PendingInv
  <2> QED BY <2>1, <2>2 DEF PendingInv
<1>10. SingleInv'
  <2>1. ASSUME NEW d \in Cores, call'[d].op = "one"
        PROVE  SingleFrames /\ call'[d].count = 1
    <3>1. call'[d].op = call[d].op /\ call'[d].count = call[d].count
      BY <1>3
    <3> QED BY <2>1, <3>1 DEF SingleInv
  <2>2. ASSUME NEW d \in Cores, call'[d].op = "one"
        PROVE  d = c
    BY <2>1, <2>2 DEF NoSharedCursor
  <2>3. call[c].op = "one" => latestAllocatedPageFrame' = call'[c].first
    BY <1>1, <1>3, <1>6 DEF SingleInv
  <2> QED BY <2>1, <2>2, <2>3, <1>3 DEF SingleInv
<1>11. GivenInv'
  BY <1>2, <1>6 DEF GivenInv
<1> QED BY <1>7, <1>8, <1>9, <1>10, <1>11, Zenon

(* Return hands out the frames that were set aside, once.                  *)
LEMMA ReturnKeepsIInv ==
  ASSUME IInv, NoSharedCursor, NEW c \in Cores, Return(c)
  PROVE  IInv'
<1> USE PageFrameAssumption DEF IInv, TypeOK, Frames
<1>1. Pending(c) /\ Result(c) = Taken(c)
  BY DEF Return, Pending, Result, Taken, SingleInv
<1>2. /\ \A d \in Cores : d # c => call'[d] = call[d]
      /\ call'[c] = Ready
      /\ UNCHANGED <<pageFrameBitmap, pageFrameBitmapLock, latestAllocatedPageFrame>>
  BY DEF Return
<1>3. \A f \in Frames : given'[f] = IF f \in Taken(c) THEN given[f] + 1 ELSE given[f]
  BY <1>1 DEF Return
<1>4. ~Pending(c)'
  BY <1>2 DEF Pending, Ready
<1>5. \A d \in Cores : d # c => (Pending(d)' <=> Pending(d)) /\ Taken(d)' = Taken(d)
  BY <1>2, SMTT(30) DEF Pending, Taken, FrameRange
<1>6. TypeOK'
  BY <1>2 DEF Return, Ready
<1>7. ScanInv'
  BY <1>1, <1>2 DEF ScanInv, Pending
<1>8. PendingInv'
  <2>1. \A d \in Cores : Taken(d) \subseteq Frames
    BY DEF Taken, FrameRange
  <2>2. ASSUME NEW d \in Cores, Pending(d)', NEW f \in Taken(d)'
        PROVE  f \in pageFrameBitmap' /\ f \notin Reserved /\ given'[f] = 0
    <3>1. d # c /\ Pending(d) /\ f \in Taken(d) /\ f \in Frames /\ f \notin Taken(c)
      BY <2>1, <2>2, <1>1, <1>4, <1>5 DEF PendingInv
    <3> QED BY <3>1, <1>2, <1>3 DEF PendingInv
  <2>3. ASSUME NEW d \in Cores, NEW e \in Cores, Pending(d)', Pending(e)', d # e,
               NEW f \in Taken(d)'
        PROVE  f \notin Taken(e)'
    BY <2>3, <1>4, <1>5, SMTT(30) DEF PendingInv
  <2> QED BY <2>2, <2>3 DEF PendingInv
<1>9. SingleInv'
  BY <1>2, <1>4, <1>5, SMTT(30) DEF SingleInv, Ready
<1>10. GivenInv'
  BY <1>1, <1>2, <1>3 DEF GivenInv, PendingInv
<1> QED BY <1>6, <1>7, <1>8, <1>9, <1>10, Zenon

(* Every step of the allocator keeps the invariant.                        *)
LEMMA NextKeepsIInv ==
  ASSUME IInv, NoSharedCursor, [Next]_vars
  PROVE  IInv'
<1>1. CASE Next
  <2>1. PICK c \in Cores :
          \/ SingleFrames /\ Acquire(c, "one", 1)
          \/ \E n \in Counts : Acquire(c, "many", n)
          \/ SkipFrame(c) \/ ExtendRun(c) \/ TakeRun(c) \/ OutOfMemory(c) \/ Return(c)
    BY <1>1 DEF Next
  <2>2. CASE SingleFrames /\ Acquire(c, "one", 1)
    BY <2>2, ScanKeepsIInv
  <2>3. CASE \E n \in Counts : Acquire(c, "many", n)
    BY <2>3, ScanKeepsIInv, PageFrameAssumption
  <2>4. CASE SkipFrame(c) \/ ExtendRun(c) \/ OutOfMemory(c)
    <3>1. \E n \in Nat \ {0} : TRUE
      OBVIOUS
    <3> QED BY <2>4, <3>1, ScanKeepsIInv
  <2>5. CASE TakeRun(c)
    BY <2>5, TakeRunKeepsIInv
  <2>6. CASE Return(c)
    BY <2>6, ReturnKeepsIInv
  <2> QED BY <2>1, <2>2, <2>3, <2>4, <2>5, <2>6
<1>2. CASE UNCHANGED vars
  BY <1>2 DEF vars, IInv, TypeOK, ScanInv, PendingInv, SingleInv, GivenInv, Pending, Taken, FrameRange
<1> QED BY <1>1, <1>2

(* RequestPageFrame and RequestPageFrames never return a frame that some   *)
(* caller already has, nor a reserved one, when only one core calls        *)
(* RequestPageFrame or nobody does.                                        *)
THEOREM FramesAreGivenOnce ==
  ASSUME NoSharedCursor PROVE Spec => []FramesGivenOnce
<1>1. Init => IInv
  BY InitIInv
<1>2. IInv /\ [Next]_vars => IInv'
  BY NextKeepsIInv
<1>3. IInv => FramesGivenOnce
  BY DEF IInv, TypeOK, GivenInv, FramesGivenOnce, Frames
<1> QED BY <1>1, <1>2, <1>3, PTL DEF Spec
=============================================================================
