------------------------------- MODULE Paging -------------------------------
(***************************************************************************)
(* The memory of processes: page tables (kernel/src/Memory/                *)
(* PagingManager.cpp), the loader (ELF.cpp), FileMap and the userspace     *)
(* allocator, as fork, exec and the creation of a task use them, on the    *)
(* page frames of PageFrameAllocator.  One core runs: a RequestPageFrame   *)
(* is then one step, and the RequestPageFrames of a system call stack      *)
(* scans the bitmap step by step.  Frames hold a table of entries, 0 for   *)
(* one that is not present, or the bytes of a page.                        *)
(***************************************************************************)
EXTENDS PageFrameAllocator, Integers, Sequences, FiniteSets

LOCAL INSTANCE SequencesExt

CONSTANTS
  Processes, NoProcess,
  PAGING_LEVELS, EntryCount, PageSize,
  AddressBits,                      \* of an address, for the wrap of its arithmetic
  RTDL_ADDR, AllocatorBase,         \* of the dynamic linker, of UserspaceAllocator
  USER_STACK_BASE, USER_STACK_SIZE,
  defaultPml4,                      \* the frame of the boot loader's top table
  BootTables,                       \* the boot loader's tables, by their frames
  Zero, Junk, Unmapped, NoSpace,
  Images, NoImage,
  Bytes, StoreAddrs, Lengths, FixedAddrs   \* the arguments of programs

ASSUME PagingAssumption ==
  /\ PAGING_LEVELS \in Nat \ {0} /\ EntryCount \in Nat \ {0} /\ EntryCount % 2 = 0
  /\ PageSize \in Nat \ {0}
  /\ DOMAIN BootTables \subseteq Reserved /\ defaultPml4 \in DOMAIN BootTables
  /\ 0 \in Reserved \ DOMAIN BootTables
  /\ Lengths \subseteq Nat /\ FixedAddrs \subseteq Nat \ {0}
  /\ \A a \in {AllocatorBase, USER_STACK_BASE, USER_STACK_SIZE} : a % PageSize = 0

VARIABLES
  memory,           \* per frame: what it holds
  pml4,             \* per process: the frame of its top table, 0 if there is none
  currentAddr,      \* per process: of its UserspaceAllocator
  entry,            \* per process: where it begins
  placed,           \* history, per process: the pages where its program file or a
                    \* map put memory at an address that the program chose
  creating,         \* the task that waits for its system call stack
  panic

pagingVars == <<memory, pml4, currentAddr, entry, placed, creating, panic>>
allVars == <<vars, pagingVars>>

Indexes == 0..(EntryCount - 1)
UserIndexes == 0..(EntryCount \div 2 - 1)     \* the lower half of a top table
Offsets == 0..(PageSize - 1)
UserPages == 0..((EntryCount \div 2) * EntryCount^(PAGING_LEVELS - 1) - 1)
KernelPages == 0..(EntryCount^PAGING_LEVELS - 1) \ UserPages
PageOf(addr) == addr \div PageSize

EmptyTable == [i \in Indexes |-> 0]
ZeroPage == [k \in Offsets |-> Zero]

PagingInit ==
  /\ Init
  /\ memory = [f \in Frames |-> IF f \in DOMAIN BootTables THEN BootTables[f]
                                ELSE [k \in Offsets |-> Junk]]
  /\ pml4 = [p \in Processes |-> 0]
  /\ currentAddr = [p \in Processes |-> AllocatorBase]
  /\ entry = [p \in Processes |-> 0]
  /\ placed = [p \in Processes |-> {}]
  /\ creating = NoProcess
  /\ panic = "none"

-----------------------------------------------------------------------------
(* A call may request and fill many frames: the operators below work on a  *)
(* record s of the allocator and the memory.                               *)

State == [bitmap |-> pageFrameBitmap, latest |-> latestAllocatedPageFrame, given |-> given,
          memory |-> memory, frame |-> 0, read |-> 0, entry |-> 0, placed |-> {},
          panic |-> panic]

Becomes(s) ==
  /\ pageFrameBitmap' = s.bitmap
  /\ latestAllocatedPageFrame' = s.latest
  /\ given' = s.given
  /\ memory' = s.memory
  /\ panic' = s.panic
  /\ UNCHANGED <<pageFrameBitmapLock, call>>

Panicked(s) == s.panic # "none"
Stops(s, why) == [s EXCEPT !.panic = why]
Then(s, Step(_)) == IF Panicked(s) THEN s ELSE Step(s)

(* RequestPageFrame: the first free frame from the cursor on is s.frame.   *)
RequestPageFrame(s) ==
  LET free == {f \in Frames : f >= s.latest /\ f \notin s.bitmap}
      Taken(frame) == [s EXCEPT !.bitmap = @ \cup {frame}, !.latest = frame,
                                !.given[frame] = @ + 1, !.frame = frame]
  IN IF free = {} THEN Stops([s EXCEPT !.latest = PageFrameCount], "memory")
     ELSE Taken(CHOOSE f \in free : \A g \in free : f <= g)

(* A frame that is requested and filled at once.                           *)
RequestFilled(s, contents) ==
  Then(RequestPageFrame(s), LAMBDA t : [t EXCEPT !.memory[t.frame] = contents])

(* GetPageTableIndexes                                                     *)
PageTableIndex(page, level) == (page \div EntryCount^level) % EntryCount

(* InitializePaging: the lower half is cleared, the upper half is the      *)
(* kernel's.                                                               *)
InitializePaging(s) ==
  RequestFilled(s, [i \in Indexes |-> IF i \in UserIndexes THEN 0 ELSE s.memory[defaultPml4][i]])

(* One level of MapMemory: down to the table that the entry refers to, or  *)
(* to one that is allocated for it.  The table reached is s.frame.         *)
NextTable(s, index) ==
  LET present == s.memory[s.frame][index]
  IN IF present # 0 THEN [s EXCEPT !.frame = present]
     ELSE Then(RequestFilled(s, EmptyTable),
               LAMBDA t : [t EXCEPT !.memory[s.frame][index] = t.frame])

(* MapMemory, in the address space of a top table.                         *)
MapMemory(s, top, page, frame) ==
  LET Down(t, level) == Then(t, LAMBDA u : NextTable(u, PageTableIndex(page, level)))
      index == PageTableIndex(page, 0)
      Mapped(t) == IF t.memory[t.frame][index] # 0 THEN Stops(t, "present")
                   ELSE [t EXCEPT !.memory[t.frame][index] = frame]
  IN Then(FoldLeft(Down, [s EXCEPT !.frame = top],
                   [k \in 1..(PAGING_LEVELS - 1) |-> PAGING_LEVELS - k]),
          Mapped)

(* A new frame with the given contents, mapped at the page.                *)
MapNew(s, top, page, contents) ==
  Then(RequestFilled(s, contents), LAMBDA t : MapMemory(t, top, page, t.frame))

FrameForCopyShared(s, original, level) ==    \* mutant: the page is not copied
  IF level > 0 THEN RequestFilled(s, EmptyTable) ELSE [s EXCEPT !.frame = original]

(* The frame that the copy of an entry refers to.                          *)
FrameForCopy(s, original, level) ==
  RequestFilled(s, IF level > 0 THEN EmptyTable ELSE s.memory[original])

(* CopyPages: every entry that is present gets a frame of its own, for a   *)
(* table, which is then copied in turn, or for the bytes of a page.        *)
RECURSIVE CopyPages(_, _, _, _, _)
CopyPages(s, originalTable, table, indexes, level) ==
  LET CopyEntry(t, i) ==
        LET original == t.memory[originalTable][i]
            Linked(u) == [u EXCEPT !.memory[table][i] = u.frame]
            Copied(u) == IF level = 0 THEN Linked(u)
                         ELSE CopyPages(Linked(u), original, u.frame, Indexes, level - 1)
        IN IF original = 0 THEN t
           ELSE IF t.memory[table][i] # 0 THEN Stops(t, "present")
           ELSE Then(FrameForCopy(t, original, level), Copied)
  IN FoldLeft(LAMBDA t, i : Then(t, LAMBDA u : CopyEntry(u, i)), s, SetToSortSeq(indexes, <))

CopyUserspace(s, original, top) == CopyPages(s, original, top, UserIndexes, PAGING_LEVELS - 1)

-----------------------------------------------------------------------------
(* ELF.  An image is [type, entry, segments, interpreter] and a segment    *)
(* [virtAddr, bytes, memorySize]: bytes are those in the file.             *)

BaseAddr(image, seg) == seg.virtAddr + (IF image.type = "shared" THEN RTDL_ADDR ELSE 0)

(* segmentPagesCount, with the wrap of memorySize - 1.                     *)
SegmentPagesCount(seg) == ((seg.memorySize - 1) % 2^AddressBits) \div PageSize + 1

OffsetInPageAlways(base, pageIndex) ==    \* mutant: in each page, not in the first
  base % PageSize

OffsetInPage(base, pageIndex) == IF pageIndex = 0 THEN base % PageSize ELSE 0

(* One turn of the loop of LoadProgramHeader; s.read is its readCount.     *)
LoadPage(s, top, image, seg, pageIndex) ==
  LET base == BaseAddr(image, seg)
      offset == OffsetInPage(base, pageIndex)
      left == Len(seg.bytes) - s.read
      count == IF PageSize - offset > left THEN left ELSE PageSize - offset
      contents == [k \in Offsets |-> IF k \in offset..(offset + count - 1)
                                     THEN seg.bytes[s.read + k - offset + 1] ELSE Zero]
      page == PageOf(base) + pageIndex
  IN [MapNew(s, top, page, contents) EXCEPT !.read = @ + count, !.placed = @ \cup {page}]

(* A count beyond the frames of the machine stops the kernel in the loop.  *)
LoadProgramHeader(s, top, image, seg) ==
  LET Load(t, k) == Then(t, LAMBDA u : LoadPage(u, top, image, seg, k - 1))
  IN IF SegmentPagesCount(seg) > PageFrameCount THEN Stops(s, "memory")
     ELSE Then(FoldLeft(Load, [s EXCEPT !.read = 0], [k \in 1..SegmentPagesCount(seg) |-> k]),
               LAMBDA t : IF t.read = Len(seg.bytes) THEN t ELSE Stops(t, "segment"))

(* The interpreter's header comes before the segments.  The program's own  *)
(* entry is used if it is shared or has no interpreter.                    *)
RECURSIVE LoadELF(_, _, _)
LoadELF(s, top, image) ==
  LET dynamic == image.interpreter # NoImage
      Load(t, seg) == Then(t, LAMBDA u : LoadProgramHeader(u, top, image, seg))
      Loaded(t) ==
        IF dynamic /\ image.interpreter.interpreter # NoImage THEN Stops(t, "auxiliary")
        ELSE [FoldLeft(Load, t, image.segments) EXCEPT
                !.entry = IF image.type = "shared" THEN RTDL_ADDR + image.entry
                          ELSE IF dynamic THEN @ ELSE image.entry]
  IN Then(IF dynamic THEN LoadELF(s, top, image.interpreter) ELSE s, Loaded)

(* The stack of CreateTask.  Its frames are not cleared.                   *)
StackPages == [k \in 1..(USER_STACK_SIZE \div PageSize) |->
                 PageOf(USER_STACK_BASE - USER_STACK_SIZE) + k - 1]

MapStack(s, top) ==
  LET MapPage(t, page) ==
        Then(Then(t, RequestPageFrame), LAMBDA u : MapMemory(u, top, page, u.frame))
  IN FoldLeft(MapPage, s, StackPages)

-----------------------------------------------------------------------------
(* The operations.  A task that was created gets its system call stack     *)
(* before anything else happens.                                           *)

Quiet == panic = "none" /\ creating = NoProcess /\ \A c \in Cores : call[c] = Ready

Live(p) == pml4[p] # 0

Created(s, p, top, brk) ==
  /\ Becomes(s)
  /\ IF Panicked(s) THEN UNCHANGED <<pml4, currentAddr, entry, placed, creating>>
     ELSE /\ pml4' = [pml4 EXCEPT ![p] = top]
          /\ currentAddr' = [currentAddr EXCEPT ![p] = brk]
          /\ entry' = [entry EXCEPT ![p] = s.entry]
          /\ placed' = [placed EXCEPT ![p] = s.placed]
          /\ creating' = p

(* A program in an address space of its own.  The Open of a file that is   *)
(* not there (NoImage) fails an Assert.                                    *)
NewProgram(p, image) ==
  LET Loaded(s) == IF image = NoImage THEN Stops(s, "open")
                   ELSE MapStack(LoadELF(s, s.frame, image), s.frame)
  IN \E s \in {InitializePaging(State)} : Created(Then(s, Loaded), p, s.frame, AllocatorBase)

(* The shell, when the kernel boots.                                       *)
CreateTaskFromELF(p, image) ==
  /\ Quiet /\ \A q \in Processes : entry[q] = 0
  /\ NewProgram(p, image)

(* The old address space is left as it is.                                 *)
Execute(p, image) == Quiet /\ Live(p) /\ NewProgram(p, image)

ForkedAddrFresh(p) ==    \* mutant: the child gets a new UserspaceAllocator
  AllocatorBase

ForkedAddr(p) == currentAddr[p]

ForkCurrentTask(p, q) ==
  /\ Quiet /\ Live(p) /\ ~Live(q)
  /\ LET Copied(s) == [CopyUserspace(s, pml4[p], s.frame) EXCEPT !.entry = entry[p],
                                                                 !.placed = placed[p]]
     IN \E s \in {InitializePaging(State)} : Created(Then(s, Copied), q, s.frame, ForkedAddr(p))

AllocatePages(p, pageCount) ==
  currentAddr' = [currentAddr EXCEPT ![p] = @ + pageCount * PageSize]

(* The program may leave the address to the kernel (0); an address of its  *)
(* own may be any page, free or not, of its half or of the kernel's.       *)
(* Bound: the allocator stays below the stack.                             *)
FileMap(p, addr, length) ==
  /\ Quiet /\ Live(p)
  /\ LET pageCount == (length - 1) \div PageSize + 1
         first == PageOf(IF addr = 0 THEN currentAddr[p] ELSE addr)
         pages == [k \in 1..pageCount |-> first + k - 1]
         Map(s, page) == Then(s, LAMBDA t : MapNew(t, pml4[p], page, ZeroPage))
     IN \/ /\ length = 0
           /\ Becomes(Stops(State, "length"))
           /\ UNCHANGED <<currentAddr, placed>>
        \/ /\ length > 0 /\ addr = 0
           /\ currentAddr[p] + pageCount * PageSize <= USER_STACK_BASE - USER_STACK_SIZE
           /\ AllocatePages(p, pageCount)
           /\ Becomes(FoldLeft(Map, State, pages))
           /\ UNCHANGED placed
        \/ /\ length > 0 /\ addr # 0
           /\ IF addr % PageSize # 0 THEN Becomes(Stops(State, "aligned")) /\ UNCHANGED placed
              ELSE /\ Becomes(FoldLeft(Map, State, pages))
                   /\ placed' = [placed EXCEPT ![p] = @ \cup ToSet(pages)]
           /\ UNCHANGED currentAddr
  /\ UNCHANGED <<pml4, entry, creating>>

(* What the processor finds at a page, through the tables of the levels    *)
(* below level: the frame, or 0.                                           *)
RECURSIVE Translate(_, _, _, _)
Translate(mem, table, page, level) ==
  IF level = 0 \/ table = 0 THEN table
  ELSE Translate(mem, mem[table][PageTableIndex(page, level - 1)], page, level - 1)

FrameAt(p, addr) == Translate(memory, pml4[p], PageOf(addr), PAGING_LEVELS)

(* The program stores a byte.                                              *)
Store(p, addr, byte) ==
  /\ Quiet /\ Live(p)
  /\ FrameAt(p, addr) # 0
  /\ memory' = [memory EXCEPT ![FrameAt(p, addr)][addr % PageSize] = byte]
  /\ UNCHANGED <<vars, pml4, currentAddr, entry, placed, creating, panic>>

(* FreeResources: the frames are not given back.                           *)
Exit(p) ==
  /\ Quiet /\ Live(p)
  /\ pml4' = [pml4 EXCEPT ![p] = 0]
  /\ UNCHANGED <<vars, memory, currentAddr, entry, placed, creating, panic>>

(* The page frame allocator at work, for the system call stack.            *)
RequestSystemCallStack(c) ==
  /\ panic = "none" /\ creating # NoProcess
  /\ \E n \in Counts : Acquire(c, "many", n)
  /\ UNCHANGED pagingVars

Scan(c) ==
  /\ SkipFrame(c) \/ ExtendRun(c) \/ TakeRun(c)
  /\ UNCHANGED pagingVars

NoFrames(c) ==
  /\ OutOfMemory(c)
  /\ panic' = "memory"
  /\ UNCHANGED <<memory, pml4, currentAddr, entry, placed, creating>>

Given(c) ==
  /\ Return(c)
  /\ creating' = NoProcess
  /\ UNCHANGED <<memory, pml4, currentAddr, entry, placed, panic>>

PagingNext ==
  \/ \E p \in Processes :
       \/ \E image \in Images \cup {NoImage} : CreateTaskFromELF(p, image) \/ Execute(p, image)
       \/ \E q \in Processes : ForkCurrentTask(p, q)
       \/ \E addr \in FixedAddrs \cup {0}, length \in Lengths : FileMap(p, addr, length)
       \/ \E addr \in StoreAddrs, byte \in Bytes : Store(p, addr, byte)
       \/ Exit(p)
  \/ \E c \in Cores :
       RequestSystemCallStack(c) \/ Scan(c) \/ NoFrames(c) \/ Given(c)

PagingSpec == PagingInit /\ [][PagingNext]_allVars
-----------------------------------------------------------------------------
(* Properties                                                              *)

(* The tables of an address space at a level, and the user entries that    *)
(* are present in all of them.                                             *)
Tables(p) ==
  LET at[level \in 1..PAGING_LEVELS] ==
        IF level = PAGING_LEVELS THEN {pml4[p]}
        ELSE {memory[t][i] : t \in at[level + 1],
                             i \in IF level + 1 = PAGING_LEVELS THEN UserIndexes ELSE Indexes} \ {0}
  IN UNION {at[level] : level \in 1..PAGING_LEVELS}

Entries(p) ==
  {<<t, i>> \in Tables(p) \X Indexes : (t = pml4[p] => i \in UserIndexes) /\ memory[t][i] # 0}

(* No two entries in the user halves of all address spaces refer to the    *)
(* same frame, none refers to a top table or to a frame that was not       *)
(* requested: no sequence of forks, maps and execs makes two processes     *)
(* share a table or a page.  What the boot loader mapped in the kernel     *)
(* half stays where it was, in all address spaces, also when a program     *)
(* maps addresses there: MapMemory lets it have the free ones only.        *)
SpacesAreSeparate ==
  panic = "none" =>
    LET live == {p \in Processes : Live(p)}
        all == UNION {Entries(p) : p \in live}
    IN /\ \A x, y \in all : memory[x[1]][x[2]] = memory[y[1]][y[2]] => x = y
       /\ \A x \in all : /\ given[memory[x[1]][x[2]]] = 1
                         /\ \A p \in live : memory[x[1]][x[2]] # pml4[p]
       /\ \A p \in live, page \in KernelPages :
            LET boot == Translate(BootTables, defaultPml4, page, PAGING_LEVELS)
            IN boot # 0 => Translate(memory, pml4[p], page, PAGING_LEVELS) = boot

(* The addresses that a process's UserspaceAllocator has not returned yet  *)
(* are free in its address space, after forks and execs too, but for the   *)
(* pages that the program itself put there with its file or with a map at  *)
(* an address of its own.  The allocator does not look at those, so that a *)
(* later map at the kernel's choice fails MapMemory's Assert; a process    *)
(* that has none never meets a present page where the kernel chose.        *)
AllocatorIsAhead ==
  \A p \in Processes :
    panic = "none" /\ Live(p) =>
      \A page \in PageOf(currentAddr[p])..(PageOf(USER_STACK_BASE - USER_STACK_SIZE) - 1) :
        page \notin placed[p] => FrameAt(p, page * PageSize) = 0

Space(p) ==
  [page \in UserPages |->
     LET frame == Translate(memory, pml4[p], page, PAGING_LEVELS)
     IN IF frame = 0 THEN [k \in Offsets |-> Unmapped] ELSE memory[frame]]

AddressSpace == INSTANCE AddressSpaces WITH
  space <- [p \in Processes |-> IF panic # "none" \/ ~Live(p) THEN NoSpace ELSE Space(p)],
  start <- entry,
  stopped <- panic # "none",
  Pages <- UserPages,
  StackPages <- ToSet(StackPages)

(* A process sees the memory that AddressSpaces promises: what its program *)
(* file, its maps and its stores put there, a child what its parent had    *)
(* when it forked, and nobody what another process stores.                 *)
ImplementsAddressSpaces == AddressSpace!Spec
=============================================================================
