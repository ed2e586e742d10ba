# A TLA+ model of the Tonix kernel

Tonix is a small UNIX-like x86_64 kernel in C++ (`src/kernel`). These modules
model the parts of it in which several actors meet - cores, interrupts,
programs that block and wake each other, objects that several programs share -
and check, and partly prove, what those parts owe each other. Every definition
is a translation of the code; `PROJECT.json` lists the lines of each.

- [The system](#the-system)
- [Modules](#modules)
- [Runs](#runs)
- [Fairness](#fairness)
- [Proofs](#proofs)
- [Where code and documents disagree](#where-code-and-documents-disagree)
- [What is not modelled](#what-is-not-modelled)
- [Plan](#plan)

## The system

The kernel runs on all cores. Each core has a `Scheduler`, a LAPIC timer and a
`currentTask`; all cores share `taskQueue` under one `Spinlock`. The kernel is
entered by the timer (`SwitchToNextTask`), by the keyboard (on the boot core
only), by `syscall`, and by `int 0x81` from within a system call that suspends
itself. Interrupts are off in the kernel, so that a handler is interleaved with
handlers of other cores only, between its lock operations.

| part | state | operations | hard behaviour |
|---|---|---|---|
| `Spinlock` | two ticket counters | `Acquire`, `Release` | interleaved accesses, wrap-around, starvation |
| `Scheduler`, `Task` | `taskQueue`, per core `currentTask`, `timerEntries`, `restoreFrame` | timer interrupt, sleep, suspend and unsuspend, fork, exec, exit, wait | tasks that are lost or duplicated between queue and cores, lost wake-ups, zombies, system calls that resume on another core |
| `PageFrameAllocator` | bitmap, one cursor | request one frame or a run of frames | results read outside of the lock, edges of reserved holes |
| `Heap`, `Math` | a free list per slab, in the slots themselves | `KMalloc`, `KFree` | two cores in one slab, size classes, borders of slabs |
| permanent allocator | page and offset | `PermanentAlloc` | accesses outside of its lock |
| `VFS` descriptors | descriptors per program, shared handles with counts and offsets | open, close, read, write, seek, stat, copies by fork and exec | counts of shared handles, opens that fail half-way, stale offsets |
| `VFS` paths | cached vnodes, mounts, a working directory per program | traversal, create, mkdir, chdir | mounts, links and `..` in strings that are resolved again and again; one vnode per file |
| `Ext2` on `RAMDisk` | bitmaps, counters, inodes, blocks | create, read, write, truncate, look up | blocks with two owners, old bytes in new files, a full disk |
| `TerminalDevice` | line and raw buffers, queue of blocked readers | read, key, change of mode | competing readers, lost wake-ups, modes that change under a blocked reader |
| `Keyboard`, `KeyboardDevice` | shift keys, ring buffer | interrupt, read, write by a program | overflow of the ring, its one-time flush |
| `Terminal` | grid of cells, cursor, pending wrap | print, line feed, backspace, cursor moves, erasing | the cursor is drawn into the grid; wrap and scroll at the edges |
| paging, ELF, userspace allocator | page tables in frames, a bump pointer per task | load, exec, fork, `FileMap`, exit | isolation of address spaces, page arithmetic of segments, memory that runs out half-way |
| boot, GDT/IDT/TSS, LAPIC, PIC, PIT, serial | hardware tables | set-up | none that a model would show |

How the parts meet: a keyboard interrupt translates the scan code
(`Keyboard`), hands the character to `TerminalDevice::KeyboardInput`, which may
call `Scheduler::Unsuspend` and echoes through `Terminal`, and stores the scan
code in `KeyboardDevice`. A read of the terminal calls
`Scheduler::SuspendSystemCall`. `fork` and `exec` copy the `VFS` object of the
task. `VFS` calls the file system behind a vnode, `Ext2` or the devices. All
C++ objects live in `Heap`, whose slabs, like page tables and program memory,
come from `PageFrameAllocator`. Every lock is a `Spinlock`.

## Modules

| module | models | state and actions |
|---|---|---|
| `FifoLock` | what a lock promises | a queue of cores; ask, enter, leave |
| `Spinlock` | `Spinlock.cpp` | `nextTicket`, `servingTicket`, per core the local `ticket`; one action per memory access |
| `ProcessTable` | what processes promise | a status and a parent for each pid |
| `Scheduler` | `Scheduler.cpp`, `Task.h`, `TimerEntry.h`, parts of `InterruptHandlers.cpp` and `TerminalDevice.cpp` | the shared queue and lock, per core the current task, timers and a program counter; one action per region between two lock operations, system call or interrupt |
| `SchedulerProperties` | - | the properties that depend on the number of cores and on the programs; the refinement of `ProcessTable` |
| `PageFrameAllocator` | `PageFrameAllocator.cpp`, `Bitmap.cpp` | bitmap, cursor and lock; one action per turn of the search, and the return behind the lock |
| `Math`, `Heap` | `Math.cpp`, the slabs of `Heap.cpp` | heads, `next` pointers in the slots, locks; one action per pointer update |
| `OpenFiles` | what descriptors promise | a table per process from descriptors to open files with offsets |
| `FileDescriptors`, `MCFileDescriptors` | the descriptor half of `VFS.cpp`, the copies made by fork and exec | descriptors per VFS object, handles with counts, sizes; one action per system call |
| `LineDiscipline` | what a terminal promises its readers | cooked and raw input |
| `TerminalDevice`, `TerminalRefinement` | `TerminalDevice.cpp`, the terminal settings of `SystemCall.cpp` | `lines`, `rawBuffer`, `unblockQueue`, the mode, the readers; a read that blocks has two actions. `TerminalRefinement` adds the refinement of `LineDiscipline` |
| `KeyboardDevice`, `MCKeyboardDevice` | `Keyboard.cpp`, `KeyboardDevice.cpp`, the keyboard interrupt | shift keys, ring and indices; one action per interrupt, per read and per write of a program |
| `Terminal`, `TerminalText` | `Terminal.cpp`, `TextRenderer.cpp`, the bounds and the scroll of `Framebuffer.cpp` | the grid, the cursor; one action per character or sequence inside a call of `Write`. `TerminalText` adds the printed text as a history variable |
| `AddressSpaces` | what the memory of a process promises | the bytes of each page per process; programs, forks, maps, stores |
| `Paging`, `MCPaging` | `PagingManager.cpp`, `ELF.cpp`, `FileMap.cpp`, `UserspaceAllocator.cpp`, the memory side of fork, exec and `CreateTask` | extends `PageFrameAllocator`: the contents of frames (tables or bytes), per process its top table, allocator and entry; one action per system call, with the run of frames for the system call stack searched step by step |
| `FileStore` | what a file system promises | a set of nodes with a path, a type and bytes; create, truncate, write |
| `Ext2` | `Ext2.cpp`, `RAMDisk.cpp`, the vnode cache of `VFS.cpp` | bitmaps, counters, disk blocks, vnodes with their copy of the inode; operators on a record of these |
| `Paths`, `MCPaths` | the path half of `VFS.cpp`, `DeviceFS.cpp`, `Split` and `Count` of `String.cpp` | extends `Ext2` with the working directory; one action per system call. `VFS::Initialize` is the initial state, worked out from the image by the same operators |
| `SpinlockProofs`, `PageFrameProofs`, `FileDescriptorProofs`, `TerminalDeviceProofs`, `KeyboardProofs`, `TerminalProofs` | - | theorems about `Spinlock`, `PageFrameAllocator`, `FileDescriptors`, `TerminalDevice`, `KeyboardDevice` and `Terminal` |
| `SchedulerProofs`, `SchedulerOneCore` | - | theorems about `Scheduler`: for any number of cores, the two invariants, each action that keeps them, and the results; for one core, its invariant, what each action does to it and to the process table, and the results |

Conventions. A failed `Assert` or `Panic()` is a state: a program counter whose
name begins with `panic`, or a variable `panic`; the core, or the part, stops
there. Pids, handles, bytes and characters are numbers or model values.
Definitions marked `mutant` are the plausible mistakes against which the
properties are tried; nothing uses them otherwise.

Abstractions worth knowing:

- `Scheduler`: a saved frame is the place where it continues (`resume`), the
  register that carries the result (`rax`) and the `this` pointer on the kernel
  stack (`home`). The time that passed between two switches is any number of
  milliseconds from 1 to the programmed time. A 0 among `SleepTimes` stands for
  the arguments of `sleep` that fail an Assert: nothing, or parts of a millisecond.
  `MaxOthers` bounds the unfinished tasks in the queue when a task forks. `ReapFirst` says for
  which of exit and exec programs wait until all their children are reaped.
- `PageFrameAllocator`: nothing calls `FreePageFrame`, so frames are only taken.
  The memory map of the boot loader and the bitmap's own frames are the
  constant `Reserved`: the frames whose bits are set. Without `SingleFrames` only runs
  are requested.
- `FileDescriptors`, `TerminalDevice`: one core, on which a system call is one
  step up to the point where it suspends itself. A path is the vnode that it
  leads to, contents are sizes. A descriptor is not negative; a directory is read
  with the one count that `VFS::Read` accepts.
- `KeyboardDevice`: programs read and write one byte at a time, which both
  functions assert. A code is a key with a character, a key without one, or a
  shift key; `keys` and `typed` are histories of the interrupts and of what
  entered the ring since its reset.
- `Ext2`, `Paths`: an entry takes one byte; new files have direct blocks only;
  the target of a link is kept beside the inode, as the string that its bytes
  spell. A path is the sequence of its names and slashes. Once the disk is full,
  `Allocate` returns 0 and the code goes on with it; the model and its properties
  stop there, as they do after a failed `Assert` (`Full`). One process, whose calls
  do not overlap.
- `Paging`: one core. A call builds or copies tables in one step; only the search
  for the frames of the system call stack is followed turn by turn, by the actions
  of `PageFrameAllocator`. An entry is a frame or 0; its flags are left out. A
  program file is a record with its segments, its entry and its interpreter. The
  kernel half of the boot loader's tables is the constant `BootTables`. The history
  variable `placed` has the pages whose addresses a program chose itself, by its
  file or by a map at a given address.
  In both modules an operation works on a record of the variables, and stops at
  the first failed `Assert` (`Then`).
- `Terminal`: whole cells, no colours. A cell outside of the screen is the
  failed `Assert` of `PlotPixel`.
- `Math`: arguments below 2^16.

## Runs

`tlc -config <cfg> <module>`; ten runs pass and two show a disagreement
between the code and what it says of itself.

| run | cfg, module | question | bounds and why they are enough |
|---|---|---|---|
| `spinlock` | `Spinlock.cfg`, `Spinlock` | mutual exclusion, tickets in order, first come first served, no deadlock; each core that asks gets in (`ImplementsFifoLock` with its fairness) | 3 cores: one inside, two waiting in either order; 5 tickets, so that the counters wrap around with the cores on both sides |
| `scheduler_two_cores` | `SchedulerTwoCores.cfg`, `Scheduler` | no task is twice in the queue or on two cores, none runs while it is suspended, timers are owed to sleepers one to one, a zombie leaves only through its parent | 2 cores, 3 pids, parents that may exit before their children (`ReapFirst` is exec only), sleeps longer than a slice and a sleep that fails its Assert; 1.1 million states. A core may panic and keep the lock: the properties hold around it. An exec with living children is left to the theorems, which cover any program |
| `scheduler_one_core` | `SchedulerOneCore.cfg`, `SchedulerProperties` | the scheduler implements `ProcessTable`; no panic, no missed exit, no deadlock; runnable tasks run, sleeps end, woken parents reap | 1 core, 4 pids, `wait` for any and for a given child, sleeps below and above the slice of 5. `MaxOthers = 0` and `ReapFirst`: with more runnable tasks, or orphans, `GetTask` panics as the next run shows; no sleep of nothing, which fails its own Assert |
| `scheduler_three_tasks` | `SchedulerThreeTasks.cfg`, `SchedulerProperties` | violation: `GetTask` does not find a live task | 3 tasks on 1 core |
| `page_frames_two_cores` | `PageFramesTwoCores.cfg`, `PageFrameAllocator` | violation: the same frame is given to two cores | 5 frames, 2 cores |
| `process_memory` | `Paging.cfg`, `MCPaging` | no frame is given twice or although it is reserved; address spaces share no table and no page below the kernel half, and each keeps the kernel's pages; the userspace allocator is ahead of every mapping but those that the program placed itself; processes see the memory of `AddressSpaces` | 2 processes, 3 levels of tables of 4 entries, pages of 2 bytes, 26 frames with a reserved one among them; 7 program files: static, with an interpreter, with a nested one, and with segments that begin inside a page, straddle two, overhang, share a page, are empty or lie ahead of the allocator; maps of 0, 1 and 2 pages at chosen addresses and at given ones: unaligned, ahead of the allocator, and in the kernel half with and without a table that all processes share. Frames run out in the middle of loads, copies and the search for a run |
| `heap` | `Heap.cfg`, `Heap` | blocks are disjoint, no slot is lost, each block is in the smallest slot that holds it | 2 cores, 2 adjacent slabs of 4 and 2 slots, sizes at, below and above both slot sizes; slabs are used up and refilled in any order |
| `file_descriptors` | `FileDescriptors.cfg`, `MCFileDescriptors` | counts are exact, descriptors implement `OpenFiles`, the terminal never sees a position | 3 VFS objects (parent, child, image), 2 handles, 2 descriptors, 3 vnodes of different types, 4 combinations of flags; heap slots and unborn VFS objects are symmetric |
| `terminal_input` | `TerminalInput.cfg`, `TerminalRefinement` | the queue is the set of blocked readers, the terminal implements `LineDiscipline`; in raw mode no wake-up is lost and newlines end every read | 2 readers, both modes and changes of mode, reads of 1 and 2 characters, 3 waiting characters, which makes readers compete for too few of them |
| `keyboard` | `Keyboard.cfg`, `MCKeyboardDevice` | scan codes are read in order, also across overflow and flush and between bytes that programs write; shift is tracked | a ring of 2, up to 4 interrupts, 4 codes since a reset: it overflows; keys with and without a character, both shift keys; programs write a code or a 0 |
| `terminal_text` | `TerminalText.cfg`, `TerminalText` | one cursor glyph, at the right place; the screen shows the text | 3 rows of 2 columns, 2 glyphs, up to 7 characters and line feeds cut into calls in every way: wraps, scrolls and both together |
| `file_system` | `Paths.cfg`, `MCPaths` | a path leads to the file that it means, from any working directory; one vnode per file; blocks have one owner and the counters agree with the bitmaps; the file system implements `FileStore` | an image with `/d` and a link `/l` to `d/a`, which is missing at first, and `/dev` with two devices; 17 paths with `.`, `..`, trailing and double slashes, names missing in the middle and names of devices; 2 new files or directories, blocks of 4 bytes in 4 groups, files of 2 blocks: writes cross blocks, leave gaps, reach the last direct block, and the disk and the inodes run out |

Deadlock is checked where the system never stops (`spinlock`,
`scheduler_one_core`). Elsewhere the model ends by its bounds: memory, disk,
pids or input are used up, or a core has panicked.

Each property is sensitive to the code: `PROJECT.json` names, under mutants, a
mapped definition and a plausible mistake in those lines with which TLC finds
the property violated.

## Fairness

- `Spinlock`: weak fairness of each step of a core in `Acquire` and `Release`; a
  core that executes instructions makes progress. A core need not ask for the
  lock.
- `Scheduler`: weak fairness of the kernel steps of each core, which run with
  interrupts off, and of its timer interrupt, because every switch programs the
  one-shot timer. Programs are not assumed to do anything.
- `TerminalDevice`: weak fairness of the resumption of a woken reader. This is
  `ReadyTasksRun` of `SchedulerProperties`. Nobody has to type: `NewLinesEndRead`
  states typing as its premise.

## Proofs

TLAPS checks the following for every value of the constants.

| theorem | states | assumes |
|---|---|---|
| `SpinlockProofs!TicketsStayInOrder` | `Spec => [](TypeOK /\ TicketsInOrder)` | finitely many cores, fewer than tickets (`CoresAssumption`; 2^32 tickets in the code) |
| `SpinlockProofs!SpinlockMutualExclusion` | `Spec => []MutualExclusion` | the same |
| `SpinlockProofs!SpinlockIsFifo` | `Spec => Fifo!Init /\ [][Fifo!Next]_(Fifo!vars)`, which is `ImplementsFifoLock` without its fairness | the same |
| `SchedulerProofs!SchedulerTypes` | `Spec => []TypeOK` | `SchedulerAssumption`: any cores, pids, times and slices; any program |
| `SchedulerProofs!TasksAreUnique` | `Spec => []UniqueTasks` | the same |
| `SchedulerProofs!CoresRunNormalTasks` | `Spec => []RunsOnlyNormal` | the same |
| `SchedulerProofs!TimersWakeSleepers` | `Spec => []TimersAreOwed` | the same |
| `SchedulerProofs!SleepersAreTimed` | `Spec => []SleepersHaveTimers` | the same |
| `SchedulerProofs!NoExitIsMissed` | `Spec => []NoMissedExit` | the same; the run checks it on one core only |
| `SchedulerProofs!ZombiesAreReaped` | `Spec => ZombiesWaitForParent`, an action property | the same |
| `SchedulerProofs!SwitchesNeverFail` | `Spec => []NoSwitchFails`: the Asserts of `Unsuspend` in `UpdateTimerEntries` and of `SuspendSystemCall` never fail | the same |
| `SchedulerOneCore!OneCoreNeverPanics` | `Spec => []NoPanic` | the same, and `OneCore`: one core, `MaxOthers = 0` and programs that reap before they exit or exec, as in the run; `0 \notin SleepTimes`; any number of pids |
| `SchedulerOneCore!OneCoreOnlySleepPanics` | `Spec => [](\A c \in Cores : pc[c] \in Panics => pc[c] = "panicSleep")`: the Asserts on the argument of `sleep` are the only ones that can fail | the same without `0 \notin SleepTimes` |
| `SchedulerOneCore!OneCoreImplementsTable` | `Spec => ImplementsProcessTable`, the whole refinement | as `OneCoreNeverPanics` |
| `PageFrameProofs!FramesAreGivenOnce` | `Spec => []FramesGivenOnce` | `PageFrameAssumption`: any memory and requests; and one core, or no single-frame requests (`NoSharedCursor`) |
| `FileDescriptorProofs!RefCountsStayExact` | `Spec => []RefCountsAreExact` | `FileAssumption`: finitely many VFS objects; any handles, descriptors, vnodes, flags and sizes |
| `FileDescriptorProofs!TerminalStaysAtZero` | `Spec => []TerminalHasNoPosition` | the same |
| `FileDescriptorProofs!DescriptorsImplementOpenFiles` | `Spec => ImplementsOpenFiles`, the whole refinement | the same |
| `TerminalDeviceProofs!LinesStayFormed` | `Spec => []TypeOK` | `TerminalAssumption`: any readers, keys, requests and bound of the input |
| `TerminalDeviceProofs!BlockedReadersAreQueued` | `Spec => []QueueIsBlockedReaders` | the same |
| `TerminalDeviceProofs!RawReadersAreWoken` | `Spec => RawInputWakes` | the same |
| `KeyboardProofs!ReaderStaysBehind` | `Spec => []TypeOK`, with the Assert of `GetFromBuffer` | `KeyboardAssumption`: any keys, any bytes that programs write, any size of the ring above 0, any number of interrupts |
| `KeyboardProofs!CodesAreReadInOrder` | `Spec => ReadsInOrder`, an action property | the same |
| `KeyboardProofs!ShiftKeysAreTracked` | `Spec => ShiftIsTracked`, an action property | the same |
| `TerminalProofs!CursorStaysOnScreen` | `Spec => []TypeOK` | `TerminalSizeAssumption`: a screen of any size, any glyphs and arguments |
| `TerminalProofs!CursorIsDrawnOnce` | `Spec => [](OneCursorGlyph /\ CursorIsDrawn)`; the second part says that the one cell is on the screen | the same |

The arguments, and the inductive invariant that each needs:

- Spinlock. Mutual exclusion is not inductive: a ticket drawn twice would show
  only later. `TicketsInOrder` says that the tickets of the engaged cores are
  distinct and lie, modulo the wrap-around, in the window from `servingTicket` to
  `nextTicket`, whose length is the number of engaged cores, and that who is
  inside holds the served ticket. That is preserved by each access; since there
  are fewer cores than tickets the window never closes on itself.
  The refinement of `FifoLock` maps the queue to the engaged cores in the order of
  their distance from `servingTicket`. `TicketsInOrder` makes the distances a
  bijection with an interval (`WaitedIsBijection`), so that the mapped queue is
  the only sequence in that order (`QueueBecomes`); a fetch-and-add then appends
  to it, a successful spin takes the lock for its head, the store of `Release`
  shortens it, and all other accesses stutter.
- Scheduler, first invariant. `UniqueTasks` alone is not inductive. `IInv` adds the
  types, that every pid in use is below `nextPid` (so that fork adds a new one),
  and per core (`LocalInv`) how `restoreFrame`, `found`, the scan index and the
  state of the current task go with the program counter: whether a core owns the
  task in `currentTask` is what decides if a push duplicates it.
  `SchedulerProofs` proves first what each shape of step does to `IInv` (a step that
  moves no task, a push, a pop).
- Scheduler, second invariant. Wake-ups are about tasks wherever they are, in the
  queue or owned by a core, so `WInv` speaks of `Live` tasks and not of queue
  positions. `Timers` is the two timer properties with the sleeper that is still
  on its core. A timer that fires must find a task that is blocked in a sleep,
  and must not wake one that is blocked in a read: `Readers` keeps the two apart.
  `Families` says that `childrenPids` and the pid left in `rax` are children of
  the task, which is what makes the task in `WaitForChild` the parent of the
  zombie it removes; `Reaping` keeps that zombie in place between the two locked
  regions of `WaitForChild`. `Waits` is `NoMissedExit` with the tasks on cores: a
  child may exit while the parent is on its way to the queue, or be on its own
  way there when the parent looks for it. That `ExitCurrentTask` panics when it
  does not find the parent in the queue is part of the argument: the exit that
  nobody would be told of does not complete.
  The same invariants give `SwitchesNeverFail`: a timer entry belongs to a task
  that is suspended in the queue, so `Unsuspend` finds it.
- Scheduler, one core. On several cores, or with three unfinished tasks, the
  Asserts do fail (see below), so `OInv` is what two unfinished tasks on one core
  keep. The scan of `SwitchToNextTask` pops every runnable task and skips the one
  behind each: `QueueOrder` says why none is lost, namely that two unfinished
  tasks are neighbours at the end of the queue, and that one is last when the core
  has the other; zombies, of which there may be any number, are in front.
  `OneFamily` says that the first task is the parent of all others and that its
  `childrenPids` lists each of them once: what a child looks for when it exits and
  what `WaitForChild` removes is there. `WokenByChild` says that a parent that was
  woken, and has not run yet, still has the zombie in `rax` that it was woken for,
  so that it passes the Assert behind the suspension; `FrameAgrees` ties the core
  to the frame of its task. For the refinement each action maps to one step of
  `ProcessTable` or to none; in a switch the process becomes ready when its task
  is pushed, and the next one runs from the moment the scan pops its task. `QueueOrder` also
  turns the bound of fork, a cardinality, into what it means here: the queue of a
  task that forks holds only zombies (`OnlyZombiesQueued`). A sleep that is refused
  is the only step that leaves `OInv`; the core stops there (`HaltedStays`), which
  gives `OneCoreOnlySleepPanics`.
- Page frames. `FramesGivenOnce` needs that the frames a search has counted are
  free while it holds the lock (`ScanInv`), that frames set aside and not yet
  returned are marked and belong to one call (`PendingInv`), and that a single
  request still finds the cursor where it left it (`SingleInv`), which is where
  `NoSharedCursor` is used. Run `page_frames_two_cores` shows that the assumption
  cannot be dropped.
- Descriptors. `FInv` adds to the counts that the slots of an unborn VFS object are
  empty (so that a copy adds only what it counts), that a handle with a vnode is
  counted and that the file behind it exists, and that a terminal is empty and its
  handles are at 0. A count is a cardinality, so each operation is followed by
  what it does to the set of references: one more, one less, or, for fork and
  exec, the disjoint union with those of a whole table. For `OpenFiles` the lemmas
  on `Table` turn the same facts around: a handle that is deleted is in no table, and
  one that is reused by `Open` is new to all of them.
- Terminal. `TInv` states the two properties with the indices spelled out, and that
  a queued reader asked for at least one character. `RawInputWakes` is not
  inductive: right after a wake-up more may be waiting than the next reader wants,
  because the woken one has not taken its part yet. `RInv` counts what woken readers
  still owe: there are fewer characters than the first reader wants plus all that
  is owed, as long as the mode stays raw. Nothing owed gives the property.
- Keyboard. `SlotsHoldTyped` says that the slots of the last `BUFFER_SIZE`
  codes hold them. An interrupt or a write overwrites one slot, and two indices
  less than a round apart have different ones (`SlotsDiffer`). A reader that is
  further behind reads slot `readIndex % BUFFER_SIZE`, which is the slot of the
  newest index a whole number of rounds later (`RoundsKeepSlot`). These two lemmas
  rest on the uniqueness of quotient and remainder. `FlagsFollowKeys` ties the
  flags to the history of interrupts, which neither reads nor writes touch.
- Screen. `SInv` is the type invariant, `OneCursorGlyph`, and that the cursor cell is
  on the screen between two calls: a pending wrap at the end of the last row
  would put it below, and there the drawing fails an Assert. Every turn of the loop
  ends in `Settle` and writes no underscore of its own, so that one lemma
  (`TurnKeepsSInv`) serves all of them; only the beginning and the end of `Write`
  change the glyph.

What is only model-checked, and why:

- liveness under fairness: `ReadyTasksRun`, `SleepEnds`, `WokenParentReaps`,
  `NewLinesEndRead`, and the fairness in `ImplementsFifoLock`;
- what a recursive definition computes: `ImplementsLineDiscipline` (all lines as one
  sequence), `ScreenShowsText`, and everything about `Ext2`, `Paths` and `Paging`,
  which follow trees with recursive operators;
- the heap: `NoSlotIsLost` counts along the free list, and `BlocksAreDisjoint` and
  `SlotsFitTightly` need what `Pow` and `CeilLog2` compute for every size, both
  by induction.

## Where code and documents disagree

Two disagreements are runs (`PROJECT.json`, findings):

- `scheduler_three_tasks`: the scan of `SwitchToNextTask` has no `break`
  (`Scheduler.cpp:185-192`), pops every runnable task and keeps the last.
- `page_frames_two_cores`: `RequestPageFrame` reads its result from the shared
  cursor after it released the lock (`PageFrameAllocator.cpp:73`).

Others are states that the models reach, or a consequence of a definition that
follows the code:

- A system call that resumes on another core asserts on the task of the core it
  left (`Scheduler.cpp:275`; `panicResume`). An `exec` with living children forgets
  them, and reaping one fails `Assert(removed)` (483; `panicRemoved`). A task whose
  parent is gone or running on another core panics when it exits (219;
  `panicParent`).
- A `sleep` of nothing, or of parts of a millisecond, fails an Assert
  (`Scheduler.cpp:369`, `SystemCall.cpp:68`; `panicSleep`).
- The search for a free frame does not start at the lowest address, as
  `PageFrameAllocator.cpp:66` says, but at the cursor.
- The bitmap reserves its own frames with a size rounded down to whole pages
  (`PageFrameAllocator.cpp:56`): a last frame that it fills in part stays free
  and is given away. Such a frame is not in `Reserved`, and `FramesGivenOnce` says
  nothing about what it holds.
- `FindFreeFileDescriptor` takes the last free slot (`VFS.cpp:188`), where POSIX,
  which `README.md:5` names as an aim, takes the lowest (`FreeDescriptor`).
- `Open` with truncation asserts the type of the vnode before it checks it
  (`VFS.cpp:262`; `panic = "truncate"`). A read behind the end of a file does not
  return (`Ext2.cpp:167`; `panic = "read"`). A keyboard that was sought asserts
  (`KeyboardDevice.cpp:41`; `panic = "Keyboard"` with a vnode of that type). A
  negative descriptor indexes the vector (`VFS.cpp:48`), and a directory read with
  another count than that of an entry asserts (`VFS.cpp:329`).
- The keyboard's tables count the NUL of their strings (`sizeof`): the scan code
  behind the last character sends a 0, whose echo asserts (`String.cpp:151`). A
  read or write of the keyboard device of more or less than one byte asserts. A 0
  that a program writes there is read as nothing (`Result`).
- A canonical read that empties the line being typed removes it, and the next one
  asserts (`TerminalDevice.cpp:30`, `Vector.h:155`; `ReadPanics`). A newline in
  canonical mode wakes nobody (71-72; `TypeCanonical`).
- A full last row leaves the cursor below the screen (`Terminal.cpp:134`,
  `Framebuffer.cpp:38`; `panic`). `ESC[1J` ends every row at the cursor's column
  (`Terminal.cpp:335`; `Erased`). The fill behind a scroll begins one pixel
  early and leaves the last one (`Framebuffer.cpp:56`), which whole cells do not show.
- Inodes are allocated only in groups with free blocks (`Ext2.cpp:348`;
  `FreeInode`), so that `Create` asserts on a disk with free inodes (236). The
  scan of the inode bitmap runs over as many bits as a group has blocks (365, 375),
  not inodes. The first vnode that is cached is linked to a null
  `currentInCache` (`VFS.cpp:42`).
- A name that is missing in the middle of a path is created in place of the last
  one (`VFS.cpp:222`; `Opened`). `CreateDirectory` of a path that exists asserts
  (590; `panic = "exists"`), and so does a link in the middle of a path (137;
  `panic = "link"`), hence every relative path after a `chdir` to a link, and a
  double slash (94; `panic = "name"`). `chdir` accepts a regular file (576).
- The number of pages of a segment ignores its offset in the first page
  (`ELF.cpp:106`): a segment that straddles a boundary fails an `Assert`
  (`panic = "segment"`), or lacks the last page of its zeroed rest. A segment of no
  bytes asks for 2^52 pages (`panic = "memory"`), and two segments in one page assert
  (`PagingManager.cpp:124`; `panic = "present"`). `exec` of a missing file stops the
  kernel (`ELF.cpp:12`; `panic = "open"`).
- `FileMap` asserts on a length of 0 and on an unaligned address (`FileMap.cpp:8`, 18;
  `panic = "length"`, `panic = "aligned"`). A map at a given address, or a segment,
  ahead of the userspace allocator makes a later map at a chosen address assert
  (`PagingManager.cpp:124`; `panic = "present"`). `FileMap` takes addresses in the
  kernel half: the page then goes into a table that all processes share, or into
  a new one that only this process and its forks have.
- The page frames of a task that exits or execs are never given back (`Exit`,
  `Execute`).
- The bound of doubly indirect blocks lacks the singly indirect ones
  (`Ext2.cpp:312`), the number of a block is computed without the first data block
  (379), and `PagingManager::FlagMismatchLevel` returns without releasing its lock;
  nothing in the models depends on these.

## What is not modelled

- The permanent allocator: on one core a bump pointer, on several a race on its
  unlocked test about which the repository promises nothing.
- Escape sequences that the terminal does not know or that end early, on which it
  panics or asserts (`Terminal.cpp:88`, 155-169, 189, 250, 302-321), and directory
  entries without an inode, which an image with deleted files has and `FindInDirectory`
  asserts on (`Ext2.cpp:107`).
- Indirect blocks, which only files of the image have; the bytes of directory
  entries and of link targets.
- Flags of page table entries, the TLB, the arguments, environment and auxiliary
  vector that `CreateTask` puts on the stack.
- `RandomDevice` and `FramebufferDevice`: copies without control of their own.
- GDT, IDT, TSS, PIC, PIT, LAPIC, serial port, I/O and boot: straight-line hardware
  set-up, whose result is the initial state of the modules.
- The buffers of `String` and `Vector`, fonts, colours, pixels: data that no property tells apart.
- Several cores in `VFS`, `TerminalDevice` and the keyboard, whose state has no
  lock; the hazards of `PROJECT.json` name the places.
- Kernel stacks: a task is in the queue before its core has left its stack
  (`Scheduler.cpp:178`).

## Plan

In this order, each step with its run or its place in an existing one:

1. Terminal and scheduler on two cores: `TerminalDevice` with the check, the
   push and the suspension of `Read` as separate steps, composed with the
   suspension protocol of `Scheduler`, down to the kernel stack that a core
   executes on.
2. The permanent allocator in steps, on top of `PageFrameAllocator`, joined with
   the `heap` run.
3. Ext2: indirect blocks of existing files, a second layout with another first
   data block; two processes with working directories of their own.
4. Proofs: the heap with the slot sizes as a constant function, so that disjoint
   blocks do not depend on powers of two; the flattened lines of the terminal as
   a sequence of their own, for the refinement of `LineDiscipline`.
