--------------------------- MODULE FileDescriptors ---------------------------
(***************************************************************************)
(* File descriptors and file handles (kernel/src/VFS.cpp).  A VFS object   *)
(* holds the descriptors of one program image; fork and exec copy it, and  *)
(* the copies share reference-counted handles.  An exec drops its old VFS  *)
(* object, and the delete of a reaped task's one runs no destructor of     *)
(* VFS: neither decrements a refCount, so both keep their references.      *)
(* System calls run with interrupts off: on one core each is one step.  A  *)
(* descriptor that is not present is Closed; the handle that it still      *)
(* points to is never read.                                                *)
(***************************************************************************)
EXTENDS Naturals, Sequences, FiniteSets

CONSTANTS
  Vfs, ShellVfs,     \* the VFS objects; the first one
  Handles,           \* heap slots for FileHandle objects
  Nodes, Type,       \* the vnodes and their types
  NoNode, Closed,
  OpenFlags,         \* the flag words programs pass to Open
  Counts,            \* the sizes programs read and write
  MaxOffset,         \* bound: file sizes and offsets
  MaxDescriptors     \* bound: length of fileDescriptors

ASSUME FileAssumption ==
  /\ ShellVfs \in Vfs /\ IsFiniteSet(Vfs)
  /\ Closed \notin Handles /\ NoNode \notin Nodes
  /\ Type \in [Nodes -> {"RegularFile", "Directory", "Terminal", "Keyboard"}]
  /\ Counts \subseteq Nat
  /\ MaxOffset \in Nat /\ MaxDescriptors \in Nat

VARIABLES
  fileDescriptors,   \* per VFS object: sequence of handles or Closed
  handle,            \* per heap slot: a FileHandle; refCount 0 when free
  fileSize,          \* per vnode; Missing when the file does not exist
  task,              \* per VFS object: "none", "runs" or "gone"
  panic

vars == <<fileDescriptors, handle, fileSize, task, panic>>

Missing == MaxOffset + 1

NoFlags == [directoryMode |-> FALSE, appendMode |-> FALSE, readMode |-> FALSE,
            writeMode |-> FALSE, closeOnExecute |-> FALSE]
Free == [refCount |-> 0, vnode |-> NoNode, offset |-> 0, flags |-> NoFlags]

Init ==
  /\ fileDescriptors = [v \in Vfs |-> <<>>]
  /\ handle = [h \in Handles |-> Free]
  /\ fileSize \in [Nodes -> {0, 1, Missing}]
  /\ \A n \in Nodes : CASE Type[n] = "RegularFile" -> fileSize[n] # 0
                         [] Type[n] = "Directory" -> fileSize[n] = 1
                         [] OTHER -> fileSize[n] = 0
  /\ task = [v \in Vfs |-> IF v = ShellVfs THEN "runs" ELSE "none"]
  /\ panic = "none"

Runs(v) == task[v] = "runs" /\ panic = "none"
Slots(v) == DOMAIN fileDescriptors[v]

(* GetFileDescriptor(d) # nullptr.  Descriptors are not negative: one      *)
(* would fail the Assert of Vector::Get.                                   *)
Present(v, d) == d \in Slots(v) /\ fileDescriptors[v][d] # Closed
HandleOf(v, d) == handle[fileDescriptors[v][d]]
NodeType(v, d) == Type[HandleOf(v, d).vnode]

-----------------------------------------------------------------------------
(* Open, Stat, Close                                                       *)

(* FindFreeFileDescriptor: the last slot that is not present, or a new one.*)
FreeDescriptor(v) ==
  LET free == {d \in Slots(v) : fileDescriptors[v][d] = Closed} IN
    IF free = {} THEN Len(fileDescriptors[v]) + 1
    ELSE CHOOSE d \in free : \A e \in free : e <= d

Grown(v) ==
  IF FreeDescriptor(v) > Len(fileDescriptors[v])
  THEN Append(fileDescriptors[v], Closed) ELSE fileDescriptors[v]

WithinHeap(v) == Len(Grown(v)) <= MaxDescriptors

Writes(f) == f.access \in {"WriteOnly", "ReadWrite"}
Truncates(f) == Writes(f) /\ f.truncate

Flags(f) == [directoryMode |-> f.directory, appendMode |-> f.append,
             readMode |-> f.access # "WriteOnly", writeMode |-> Writes(f),
             closeOnExecute |-> f.closeOnExecute]

(* TraversePath and Create leave Open without a vnode, or it must be new.  *)
NoVnode(n, f) == IF f.create THEN fileSize[n] # Missing /\ f.exclude ELSE fileSize[n] = Missing

(* The checks of the type, after the truncation.                           *)
BadType(n, f) ==
  \/ f.directory /\ Type[n] # "Directory"
  \/ Writes(f) /\ Type[n] = "Directory"

SizeAfterOpen(n, f) ==
  IF NoVnode(n, f) THEN fileSize
  ELSE IF Truncates(f) \/ fileSize[n] = Missing THEN [fileSize EXCEPT ![n] = 0] ELSE fileSize

(* Open truncates, or asserts that it may.                                 *)
BadTruncate(n, f) == ~NoVnode(n, f) /\ Truncates(f) /\ Type[n] # "RegularFile"

(* A failed Open leaves its new handle behind, with refCount 1.            *)
OpenFails(v, n, f, h) ==
  /\ Runs(v) /\ WithinHeap(v)
  /\ handle[h].refCount = 0
  /\ NoVnode(n, f) \/ BadType(n, f) \/ BadTruncate(n, f)
  /\ fileDescriptors' = [fileDescriptors EXCEPT ![v] = Grown(v)]
  /\ handle' = [handle EXCEPT ![h].refCount = 1]
  /\ fileSize' = IF BadTruncate(n, f) THEN fileSize ELSE SizeAfterOpen(n, f)
  /\ panic' = IF BadTruncate(n, f) THEN "truncate" ELSE "none"
  /\ UNCHANGED task

Open(v, n, f, h) ==
  /\ Runs(v) /\ WithinHeap(v)
  /\ handle[h].refCount = 0
  /\ ~NoVnode(n, f) /\ ~BadType(n, f) /\ ~BadTruncate(n, f)
  /\ fileDescriptors' = [fileDescriptors EXCEPT
                           ![v] = [Grown(v) EXCEPT ![FreeDescriptor(v)] = h]]
  /\ handle' = [handle EXCEPT ![h] =
                  [refCount |-> 1, vnode |-> n, offset |-> 0, flags |-> Flags(f)]]
  /\ fileSize' = SizeAfterOpen(n, f)
  /\ UNCHANGED <<task, panic>>

(* The Stat system call: Open read-only and Close.                         *)
Stat(v, n) ==
  /\ Runs(v) /\ WithinHeap(v)
  /\ fileSize[n] # Missing
  /\ \E h \in Handles : handle[h].refCount = 0
  /\ fileDescriptors' = [fileDescriptors EXCEPT ![v] = Grown(v)]
  /\ UNCHANGED <<handle, fileSize, task, panic>>

ReleasedAlways(h) ==    \* mutant: the handle is deleted by every Close
  Free

(* A handle after refCount--, and delete at zero.                          *)
Released(h) == IF handle[h].refCount = 1 THEN Free ELSE [handle[h] EXCEPT !.refCount = @ - 1]

Close(v, d) ==
  /\ Runs(v) /\ Present(v, d)
  /\ LET h == fileDescriptors[v][d] IN handle' = [handle EXCEPT ![h] = Released(h)]
  /\ fileDescriptors' = [fileDescriptors EXCEPT ![v][d] = Closed]
  /\ UNCHANGED <<fileSize, task, panic>>

-----------------------------------------------------------------------------
(* Read, Write, Seek                                                       *)

SetOffset(v, d, offset) ==
  handle' = [handle EXCEPT ![fileDescriptors[v][d]].offset = offset]

ReadEnd(offset, count, size) == IF offset + count > size THEN size ELSE offset + count

(* Ext2::Read returns what is left of the file.  From an offset behind the *)
(* end its subtraction wraps around, and the loop over the blocks ends in  *)
(* GetBlockAddr's Panic, or in a page fault before that.                   *)
Read(v, d, count) ==
  /\ Runs(v) /\ Present(v, d) /\ HandleOf(v, d).flags.readMode
  /\ NodeType(v, d) = "RegularFile" /\ ~HandleOf(v, d).flags.directoryMode
  /\ LET offset == HandleOf(v, d).offset
         size == fileSize[HandleOf(v, d).vnode]
     IN IF offset > size THEN panic' = "read" /\ UNCHANGED handle
        ELSE SetOffset(v, d, ReadEnd(offset, count, size)) /\ UNCHANGED panic
  /\ UNCHANGED <<fileDescriptors, fileSize, task>>

(* Directory entries are read one by one; another count fails an Assert.   *)
ReadDirectory(v, d) ==
  /\ Runs(v) /\ Present(v, d) /\ HandleOf(v, d).flags.directoryMode
  /\ LET offset == HandleOf(v, d).offset
         size == fileSize[HandleOf(v, d).vnode]
     IN SetOffset(v, d, IF offset < size THEN offset + 1 ELSE offset)
  /\ UNCHANGED <<fileDescriptors, fileSize, task, panic>>

(* Read and Write of the devices without a position assert that it is 0;   *)
(* panic names the device whose Assert failed.                             *)
DeviceRead(v, d) ==
  /\ Runs(v) /\ Present(v, d) /\ HandleOf(v, d).flags.readMode
  /\ NodeType(v, d) \in {"Terminal", "Keyboard"}
  /\ panic' = IF HandleOf(v, d).offset = 0 THEN "none" ELSE NodeType(v, d)
  /\ UNCHANGED <<fileDescriptors, handle, fileSize, task>>

(* Where Write begins: append mode moves the offset to the end first.      *)
WriteStart(v, d) ==
  IF HandleOf(v, d).flags.appendMode THEN fileSize[HandleOf(v, d).vnode]
                                     ELSE HandleOf(v, d).offset

DeviceWrite(v, d) ==
  /\ Runs(v) /\ Present(v, d) /\ HandleOf(v, d).flags.writeMode
  /\ NodeType(v, d) \in {"Terminal", "Keyboard"}
  /\ SetOffset(v, d, WriteStart(v, d))
  /\ panic' = IF WriteStart(v, d) = 0 THEN "none" ELSE NodeType(v, d)
  /\ UNCHANGED <<fileDescriptors, fileSize, task>>

(* Fill the gap up to the offset with zeros, write.                        *)
Write(v, d, count) ==
  /\ Runs(v) /\ Present(v, d) /\ HandleOf(v, d).flags.writeMode
  /\ NodeType(v, d) = "RegularFile"
  /\ LET n == HandleOf(v, d).vnode
         end == WriteStart(v, d) + count
     IN /\ end <= MaxOffset
        /\ SetOffset(v, d, end)
        /\ fileSize' = [fileSize EXCEPT ![n] = IF @ < end THEN end ELSE @]
  /\ UNCHANGED <<fileDescriptors, task, panic>>

SeekableAlways(type) ==    \* mutant: the check for a terminal is missing
  TRUE

Seekable(type) == type # "Terminal"

(* RepositionOffset, whatever the seek type.                               *)
RepositionOffset(v, d, offset) ==
  /\ Runs(v) /\ Present(v, d)
  /\ Seekable(NodeType(v, d))
  /\ SetOffset(v, d, offset)
  /\ UNCHANGED <<fileDescriptors, fileSize, task, panic>>

-----------------------------------------------------------------------------
(* Fork and Execute.  (Exit does not touch the VFS: the task stops.)       *)

References(descriptors, h) == Cardinality({d \in DOMAIN descriptors : descriptors[d] = h})

CountedNotShared(descriptors) ==    \* mutant: the copy does not count its references
  handle

(* The copy constructor: refCount++ for each present descriptor.           *)
Counted(descriptors) ==
  [h \in Handles |-> [handle[h] EXCEPT !.refCount = @ + References(descriptors, h)]]

Fork(v, w) ==
  /\ Runs(v) /\ task[w] = "none"
  /\ fileDescriptors' = [fileDescriptors EXCEPT ![w] = fileDescriptors[v]]
  /\ handle' = Counted(fileDescriptors[v])
  /\ task' = [task EXCEPT ![w] = "runs"]
  /\ UNCHANGED <<fileSize, panic>>

ClosedOnExecute(v, d) == Present(v, d) /\ HandleOf(v, d).flags.closeOnExecute

(* The new image gets a copy of the VFS; OnExecute closes in the copy; the *)
(* program and its interpreter, opened and closed again, leave free slots. *)
Execute(v, w, opened) ==
  /\ Runs(v) /\ task[w] = "none"
  /\ LET kept == [d \in Slots(v) |->
                    IF ClosedOnExecute(v, d) THEN Closed ELSE fileDescriptors[v][d]]
         free == Cardinality({d \in DOMAIN kept : kept[d] = Closed})
         new == IF opened > free THEN opened - free ELSE 0
     IN /\ Len(kept) + new <= MaxDescriptors
        /\ fileDescriptors' = [fileDescriptors EXCEPT ![w] = kept \o [k \in 1..new |-> Closed]]
        /\ handle' = Counted(kept)
  /\ task' = [task EXCEPT ![v] = "gone", ![w] = "runs"]
  /\ UNCHANGED <<fileSize, panic>>

Next == \E v \in Vfs :
  \/ \E n \in Nodes :
       \/ Stat(v, n)
       \/ \E f \in OpenFlags, h \in Handles : Open(v, n, f, h) \/ OpenFails(v, n, f, h)
  \/ \E d \in 1..MaxDescriptors :
       \/ Close(v, d) \/ ReadDirectory(v, d) \/ DeviceRead(v, d) \/ DeviceWrite(v, d)
       \/ \E k \in Counts : Read(v, d, k) \/ Write(v, d, k)
       \/ \E offset \in 0..MaxOffset : RepositionOffset(v, d, offset)
  \/ \E w \in Vfs : Fork(v, w) \/ \E opened \in 1..2 : Execute(v, w, opened)

Spec == Init /\ [][Next]_vars

-----------------------------------------------------------------------------
(* Properties                                                              *)

(* The descriptors, of any VFS object, that refer to the handle.           *)
Referring(h) ==
  {r \in Vfs \X (1..MaxDescriptors) :
     r[2] \in Slots(r[1]) /\ fileDescriptors[r[1]][r[2]] = h}

(* Open, Close and the copies of fork and exec keep refCount equal to the  *)
(* number of descriptors that refer to the handle, in the VFS objects of   *)
(* running tasks and of dropped images alike, so no descriptor refers to a *)
(* deleted one.  A handle without a vnode was left by a failed Open.       *)
RefCountsAreExact ==
  \A h \in Handles :
    Cardinality(Referring(h)) = IF handle[h].vnode = NoNode THEN 0 ELSE handle[h].refCount

(* The Assert on the position in the terminal's Read and Write never fails,*)
(* through whichever descriptor and after whatever seeks and writes: seeks *)
(* are refused, and append mode moves the offset to a size that is 0.      *)
TerminalHasNoPosition == panic # "Terminal"

(* What the VFS objects look like to programs.                             *)
Table == [v \in Vfs |-> [d \in 1..MaxDescriptors |->
            IF Present(v, d) THEN fileDescriptors[v][d] ELSE Closed]]
Offset == [h \in Handles |-> handle[h].offset]

Abstract == INSTANCE OpenFiles WITH
  Processes <- Vfs, Descriptors <- 1..MaxDescriptors, Files <- Handles, Offsets <- 0..MaxOffset,
  table <- Table, offset <- Offset

(* Descriptors behave as OpenFiles says: each Open has its own offset,     *)
(* shared only with the copies that fork and exec make, and the files of   *)
(* other descriptors are not disturbed by Close and later Opens.           *)
ImplementsOpenFiles == Abstract!Spec
=============================================================================
