------------------------ MODULE FileDescriptorProofs ------------------------
(***************************************************************************)
(* Reference counts are exact, the terminal never sees a position and      *)
(* descriptors implement OpenFiles, for every number of VFS objects,       *)
(* handles, descriptors and vnodes.                                        *)
(***************************************************************************)
EXTENDS FileDescriptors, FiniteSetTheorems, TLAPS

FileHandle ==
  [refCount : Nat, vnode : Nodes \cup {NoNode}, offset : 0..MaxOffset,
   flags : {NoFlags} \cup {Flags(f) : f \in OpenFlags}]

Types ==
  /\ fileDescriptors \in [Vfs -> Seq(Handles \cup {Closed})]
  /\ handle \in [Handles -> FileHandle]
  /\ fileSize \in [Nodes -> 0..Missing]
  /\ task \in [Vfs -> {"none", "runs", "gone"}]

(* A VFS object that no task has yet is empty.                             *)
Tables ==
  \A v \in Vfs : /\ Len(fileDescriptors[v]) <= MaxDescriptors
                 /\ task[v] = "none" => fileDescriptors[v] = <<>>

(* A handle without a vnode is at offset 0; one with a vnode is counted,   *)
(* its file exists, and a terminal has no position to be at.               *)
Positions ==
  \A h \in Handles :
    IF handle[h].vnode = NoNode THEN handle[h].offset = 0
    ELSE /\ handle[h].refCount > 0
         /\ fileSize[handle[h].vnode] <= MaxOffset
         /\ Type[handle[h].vnode] = "Terminal" => handle[h].offset = 0

TerminalsAreEmpty == \A n \in Nodes : Type[n] = "Terminal" => fileSize[n] = 0

FInv == /\ Types /\ Tables /\ Positions /\ TerminalsAreEmpty
        /\ RefCountsAreExact /\ TerminalHasNoPosition

-----------------------------------------------------------------------------
(* The descriptors of a VFS object.                                        *)

(* A set of indices has a last one.                                        *)
LEMMA LastExists ==
  ASSUME NEW n \in Nat, NEW S \in SUBSET (1..n), S # {}
  PROVE  \E d \in S : \A e \in S : e <= d
<1> DEFINE T == {n - d : d \in S}
<1>1. T \subseteq Nat /\ T # {}
  <2>1. \A d \in S : n - d \in Nat
    OBVIOUS
  <2>2. QED
    BY Zenon, <2>1
<1>2. \E x \in T : \A y \in T : ~(<<y, x>> \in OpToRel(<, Nat))
  <2> HIDE DEF T
  <2>1. QED
    BY Zenon, <1>1, NatLessThanWellFounded, WFMin
<1>3. PICK x \in T : \A y \in T : ~(y < x)
  BY Zenon, <1>1, <1>2 DEF OpToRel
<1>4. PICK d \in S : x = n - d
  BY Zenon, <1>3
<1>5. \A e \in S : ~(n - e < n - d)
  BY Zenon, <1>3, <1>4
<1>6. QED
  BY <1>5

(* The slots are numbered from 1.                                          *)
LEMMA SlotProperties ==
  ASSUME Types, NEW v \in Vfs
  PROVE  /\ fileDescriptors[v] \in Seq(Handles \cup {Closed})
         /\ Len(fileDescriptors[v]) \in Nat /\ Slots(v) = 1..Len(fileDescriptors[v])
         /\ \A d \in Slots(v) : fileDescriptors[v][d] \in Handles \cup {Closed}
BY DEF Types, Slots

(* FindFreeFileDescriptor leaves every descriptor as it is and returns one *)
(* that is not present.                                                    *)
LEMMA GrownProperties ==
  ASSUME Types, NEW v \in Vfs
  PROVE  /\ Grown(v) \in Seq(Handles \cup {Closed})
         /\ Slots(v) \subseteq DOMAIN Grown(v)
         /\ \A d \in Slots(v) : Grown(v)[d] = fileDescriptors[v][d]
         /\ \A d \in DOMAIN Grown(v) \ Slots(v) : Grown(v)[d] = Closed
         /\ FreeDescriptor(v) \in DOMAIN Grown(v) /\ Grown(v)[FreeDescriptor(v)] = Closed
         /\ FreeDescriptor(v) \in Slots(v) => fileDescriptors[v][FreeDescriptor(v)] = Closed
<1> DEFINE s == fileDescriptors[v]
           free == {d \in Slots(v) : s[d] = Closed}
<1>1. s \in Seq(Handles \cup {Closed}) /\ Len(s) \in Nat /\ Slots(v) = 1..Len(s) /\ DOMAIN s = Slots(v)
  BY Zenon, SlotProperties DEF Slots
<1>2. CASE free = {}
  <2>1. FreeDescriptor(v) = Len(s) + 1 /\ Grown(v) = Append(s, Closed)
    BY <1>1, <1>2 DEF FreeDescriptor, Grown
  <2> HIDE DEF s
  <2>2. QED
    BY <1>1, <2>1 DEF s
<1>3. CASE free # {}
  <2>1. \E d \in free : \A e \in free : e <= d
    BY Zenon, <1>1, <1>3, LastExists
  <2>2. FreeDescriptor(v) \in free
    BY Zenon, <1>3, <2>1 DEF FreeDescriptor
  <2>3. Grown(v) = s
    BY <1>1, <2>2 DEF Grown
  <2>4. QED
    BY Zenon, <1>1, <2>2, <2>3
<1>4. QED
  BY Zenon, <1>2, <1>3

-----------------------------------------------------------------------------
(* The references to a handle, over all VFS objects.                       *)

(* There are finitely many.                                                *)
LEMMA ReferringFinite ==
  ASSUME NEW h
  PROVE  IsFiniteSet(Referring(h)) /\ Cardinality(Referring(h)) \in Nat
<1>1. IsFiniteSet(1..MaxDescriptors)
  BY FileAssumption, FS_Interval
<1>2. IsFiniteSet(Vfs \X (1..MaxDescriptors))
  BY Zenon, <1>1, FileAssumption, FS_Product
<1>3. Referring(h) \in SUBSET (Vfs \X (1..MaxDescriptors))
  BY Zenon DEF Referring
<1>4. IsFiniteSet(Referring(h))
  BY Zenon, <1>2, <1>3, FS_Subset
<1>5. QED
  BY Zenon, <1>4, FS_CardinalityType

(* The references as pairs.                                                *)
LEMMA ReferringPairs ==
  ASSUME Types, Tables, NEW h, NEW r
  PROVE  r \in Referring(h) <=>
           \E v \in Vfs : \E d \in Slots(v) : r = <<v, d>> /\ fileDescriptors[v][d] = h
<1>1. \A v \in Vfs : Slots(v) \subseteq 1..MaxDescriptors
  BY SlotProperties, FileAssumption DEF Tables
<1>2. QED
  BY <1>1 DEF Referring

(* A handle that no slot has counted refers to no vnode, and one without a *)
(* vnode is in no descriptor.                                              *)
LEMMA UnusedProperties ==
  ASSUME FInv, NEW h \in Handles
  PROVE  /\ handle[h].refCount = 0 => handle[h].vnode = NoNode
         /\ handle[h].vnode = NoNode <=> Referring(h) = {}
<1>1. /\ Cardinality(Referring(h)) = IF handle[h].vnode = NoNode THEN 0 ELSE handle[h].refCount
      /\ handle[h].vnode # NoNode => handle[h].refCount > 0
      /\ handle[h].refCount \in Nat
  BY Zenon DEF FInv, RefCountsAreExact, Positions, Types, FileHandle
<1>2. Cardinality(Referring(h)) = 0 <=> Referring(h) = {}
  BY Zenon, ReferringFinite, FS_EmptySet
<1>3. QED
  BY <1>1, <1>2

(* GetFileDescriptor returns a descriptor whose handle is open.            *)
LEMMA PresentProperties ==
  ASSUME FInv, NEW v \in Vfs, NEW d, Present(v, d)
  PROVE  /\ fileDescriptors[v][d] \in Handles
         /\ <<v, d>> \in Referring(fileDescriptors[v][d])
         /\ HandleOf(v, d) \in FileHandle
         /\ HandleOf(v, d).vnode \in Nodes
         /\ d \in 1..MaxDescriptors
<1> DEFINE h == fileDescriptors[v][d]
<1>1. Types /\ Tables
  BY Zenon DEF FInv
<1>2. h \in Handles /\ d \in Slots(v)
  BY Zenon, <1>1, SlotProperties DEF Present
<1>3. <<v, d>> \in Referring(h)
  BY Zenon, <1>1, <1>2, ReferringPairs
<1>4. handle[h] \in FileHandle
  BY Zenon, <1>1, <1>2 DEF Types
<1>5. handle[h].vnode # NoNode
  BY Zenon, <1>2, <1>3, UnusedProperties
<1>6. d \in 1..MaxDescriptors
  BY <1>1, <1>2, SlotProperties, FileAssumption DEF Tables
<1>7. QED
  BY Zenon, <1>2, <1>3, <1>4, <1>5, <1>6 DEF HandleOf, FileHandle

(* A step that leaves all descriptors alone leaves the references alone.   *)
LEMMA ReferringKept ==
  ASSUME fileDescriptors' = fileDescriptors
  PROVE  \A h : Referring(h)' = Referring(h)
BY Zenon DEF Referring, Slots

(* A step that gives VFS object v the descriptors s.                       *)
LEMMA TableStep ==
  ASSUME Types, Tables, NEW v \in Vfs, NEW s \in Seq(Handles \cup {Closed}),
         Len(s) <= MaxDescriptors,
         fileDescriptors' = [fileDescriptors EXCEPT ![v] = s]
  PROVE  /\ fileDescriptors' \in [Vfs -> Seq(Handles \cup {Closed})]
         /\ fileDescriptors'[v] = s
         /\ \A w \in Vfs \ {v} : fileDescriptors'[w] = fileDescriptors[w]
         /\ \A w \in Vfs : Len(fileDescriptors'[w]) <= MaxDescriptors
         /\ \A h : Referring(h)' = {r \in Referring(h) : r[1] # v}
                                     \cup {<<v, d>> : d \in {e \in DOMAIN s : s[e] = h}}
<1>1. /\ fileDescriptors' \in [Vfs -> Seq(Handles \cup {Closed})]
      /\ fileDescriptors'[v] = s
      /\ \A w \in Vfs \ {v} : fileDescriptors'[w] = fileDescriptors[w]
  BY Zenon DEF Types
<1>2. \A w \in Vfs : Len(fileDescriptors'[w]) <= MaxDescriptors
  BY Zenon, <1>1 DEF Tables
<1>3. DOMAIN s \subseteq 1..MaxDescriptors
  <2>1. Len(s) \in Nat /\ DOMAIN s = 1..Len(s)
    OBVIOUS
  <2>2. QED
    BY <2>1, FileAssumption
<1>4. ASSUME NEW h, NEW r
      PROVE  r \in Referring(h)' <=> \/ r \in Referring(h) /\ r[1] # v
                                     \/ \E d \in DOMAIN s : r = <<v, d>> /\ s[d] = h
  <2>1. CASE r[1] = v
    BY <1>1, <1>3, <2>1 DEF Referring, Slots
  <2>2. CASE r[1] # v
    BY <1>1, <2>2 DEF Referring, Slots
  <2>3. QED
    BY Zenon, <2>1, <2>2
<1>5. QED
  BY <1>1, <1>2, <1>4

(* The descriptors of v that refer to a handle.                            *)
LEMMA OwnReferences ==
  ASSUME Types, Tables, NEW v \in Vfs, NEW h
  PROVE  {<<v, d>> : d \in {e \in Slots(v) : fileDescriptors[v][e] = h}}
           = {r \in Referring(h) : r[1] = v}
<1>1. \A r : r \in {q \in Referring(h) : q[1] = v} <=>
               \E d \in Slots(v) : r = <<v, d>> /\ fileDescriptors[v][d] = h
  BY ReferringPairs
<1>2. QED
  BY Zenon, <1>1

(* FindFreeFileDescriptor makes no reference.                              *)
LEMMA GrownStep ==
  ASSUME Types, Tables, NEW v \in Vfs, WithinHeap(v),
         fileDescriptors' = [fileDescriptors EXCEPT ![v] = Grown(v)]
  PROVE  /\ fileDescriptors' \in [Vfs -> Seq(Handles \cup {Closed})]
         /\ \A w \in Vfs \ {v} : fileDescriptors'[w] = fileDescriptors[w]
         /\ \A w \in Vfs : Len(fileDescriptors'[w]) <= MaxDescriptors
         /\ \A h \in Handles : Referring(h)' = Referring(h)
<1>1. Grown(v) \in Seq(Handles \cup {Closed}) /\ Len(Grown(v)) <= MaxDescriptors
  BY Zenon, GrownProperties DEF WithinHeap
<1>2. \A h \in Handles : {e \in DOMAIN Grown(v) : Grown(v)[e] = h}
                           = {e \in Slots(v) : fileDescriptors[v][e] = h}
  BY Zenon, GrownProperties, FileAssumption
<1>3. \A h : Referring(h)' =
              {r \in Referring(h) : r[1] # v}
                \cup {<<v, d>> : d \in {e \in DOMAIN Grown(v) : Grown(v)[e] = h}}
  BY ZenonT(30), <1>1, TableStep
<1>4. \A h \in Handles : Referring(h)' = Referring(h)
  <2> SUFFICES ASSUME NEW h \in Handles
               PROVE  Referring(h)' = Referring(h)
    BY Zenon
  <2>1. {<<v, d>> : d \in {e \in DOMAIN Grown(v) : Grown(v)[e] = h}}
          = {<<v, d>> : d \in {e \in Slots(v) : fileDescriptors[v][e] = h}}
    BY Zenon, <1>2
  <2>2. {<<v, d>> : d \in {e \in Slots(v) : fileDescriptors[v][e] = h}}
          = {r \in Referring(h) : r[1] = v}
    BY Zenon, OwnReferences
  <2>3. QED
    BY Zenon, <1>3, <2>1, <2>2
<1>5. QED
  BY Zenon, <1>1, <1>4, TableStep

-----------------------------------------------------------------------------
(* Read, Write and Seek change one offset.                                 *)

(* The handle of a descriptor after SetOffset.                             *)
LEMMA OffsetStep ==
  ASSUME FInv, NEW v \in Vfs, NEW d, Present(v, d), NEW o \in 0..MaxOffset,
         SetOffset(v, d, o)
  PROVE  /\ handle' \in [Handles -> FileHandle]
         /\ \A h \in Handles :
              /\ handle'[h].refCount = handle[h].refCount
              /\ handle'[h].vnode = handle[h].vnode
              /\ handle'[h].offset = IF h = fileDescriptors[v][d] THEN o ELSE handle[h].offset
<1> DEFINE h == fileDescriptors[v][d]
           r == [handle[h] EXCEPT !.offset = o]
<1>1. h \in Handles /\ handle \in [Handles -> FileHandle] /\ handle[h] \in FileHandle
  BY Zenon, PresentProperties DEF FInv, Types
<1>2. handle' = [handle EXCEPT ![h] = r]
  BY Zenon DEF SetOffset
<1>3. /\ r \in FileHandle /\ r.refCount = handle[h].refCount /\ r.vnode = handle[h].vnode
      /\ r.offset = o
  BY Zenon, <1>1 DEF FileHandle
<1> HIDE DEF r, h
<1>4. QED
  BY Zenon, <1>1, <1>2, <1>3 DEF h

(* So it keeps the invariant, if a terminal stays at 0 and no file goes.   *)
LEMMA MoveStep ==
  ASSUME FInv, NEW v \in Vfs, NEW d, Present(v, d), NEW o \in 0..MaxOffset,
         SetOffset(v, d, o),
         NodeType(v, d) = "Terminal" => o = 0,
         UNCHANGED <<fileDescriptors, task>>,
         fileSize' \in [Nodes -> 0..Missing],
         \A n \in Nodes : fileSize[n] <= MaxOffset => fileSize'[n] <= MaxOffset,
         TerminalsAreEmpty', TerminalHasNoPosition'
  PROVE  FInv'
<1> DEFINE h == fileDescriptors[v][d]
<1>1. Types'
  BY Zenon, OffsetStep DEF FInv, Types
<1>2. Tables'
  BY Zenon DEF FInv, Tables
<1>3. RefCountsAreExact'
  BY OffsetStep, ReferringKept DEF FInv, RefCountsAreExact
<1>4. Positions'
  <2> SUFFICES ASSUME NEW g \in Handles
               PROVE  IF handle'[g].vnode = NoNode THEN handle'[g].offset = 0
                      ELSE /\ handle'[g].refCount > 0
                           /\ fileSize'[handle'[g].vnode] <= MaxOffset
                           /\ Type[handle'[g].vnode] = "Terminal" => handle'[g].offset = 0
    BY Zenon DEF Positions
  <2>1. h \in Handles /\ handle[h].vnode \in Nodes /\ NodeType(v, d) = Type[handle[h].vnode]
    BY Zenon, PresentProperties DEF HandleOf, NodeType
  <2>2. handle[g].vnode \in Nodes \cup {NoNode}
    BY Zenon DEF FInv, Types, FileHandle
  <2>3. /\ handle'[g].refCount = handle[g].refCount
        /\ handle'[g].vnode = handle[g].vnode
        /\ handle'[g].offset = IF g = h THEN o ELSE handle[g].offset
    BY OffsetStep
  <2>4. /\ handle[g].vnode = NoNode => handle[g].offset = 0
        /\ handle[g].vnode # NoNode =>
             /\ handle[g].refCount > 0
             /\ fileSize[handle[g].vnode] <= MaxOffset
             /\ Type[handle[g].vnode] = "Terminal" => handle[g].offset = 0
    BY Zenon DEF FInv, Positions
  <2>5. g = h => handle[g].vnode # NoNode
    BY Zenon, <2>1, FileAssumption
  <2> HIDE DEF h
  <2>6. QED
    BY Zenon, <2>1, <2>2, <2>3, <2>4, <2>5
<1>5. QED
  BY Zenon, <1>1, <1>2, <1>3, <1>4 DEF FInv

(* What an operation knows of a descriptor that is present.                *)
LEMMA DescriptorProperties ==
  ASSUME FInv, NEW v \in Vfs, NEW d, Present(v, d)
  PROVE  LET r == HandleOf(v, d) IN
           /\ r.offset \in 0..MaxOffset
           /\ r.vnode \in Nodes /\ NodeType(v, d) = Type[r.vnode]
           /\ fileSize[r.vnode] \in 0..MaxOffset
           /\ NodeType(v, d) = "Terminal" => r.offset = 0 /\ fileSize[r.vnode] = 0
           /\ WriteStart(v, d) \in 0..MaxOffset
           /\ NodeType(v, d) = "Terminal" => WriteStart(v, d) = 0
<1> DEFINE h == fileDescriptors[v][d]
           n == handle[h].vnode
<1>1. /\ h \in Handles /\ handle[h] \in FileHandle /\ n \in Nodes
      /\ HandleOf(v, d) = handle[h] /\ NodeType(v, d) = Type[n]
  BY Zenon, PresentProperties DEF HandleOf, NodeType
<1>2. n # NoNode /\ handle[h].offset \in 0..MaxOffset
  BY Zenon, <1>1, FileAssumption DEF FileHandle
<1>3. fileSize[n] <= MaxOffset /\ (Type[n] = "Terminal" => handle[h].offset = 0)
  BY Zenon, <1>1, <1>2 DEF FInv, Positions
<1>4. fileSize[n] \in 0..MaxOffset /\ (Type[n] = "Terminal" => fileSize[n] = 0)
  BY <1>1, <1>3, FileAssumption DEF FInv, TerminalsAreEmpty, Types, Missing
<1>5. WriteStart(v, d) \in {handle[h].offset, fileSize[n]}
  BY Zenon, <1>1 DEF WriteStart
<1> HIDE DEF h, n
<1>6. QED
  BY Zenon, <1>1, <1>2, <1>3, <1>4, <1>5 DEF n

(* The operations that leave the sizes of files alone.                     *)
LEMMA PositionsKeepFInv ==
  ASSUME FInv, NEW v \in Vfs, NEW d,
         \/ \E count \in Counts : Read(v, d, count)
         \/ ReadDirectory(v, d) \/ DeviceRead(v, d) \/ DeviceWrite(v, d)
         \/ \E offset \in 0..MaxOffset : RepositionOffset(v, d, offset)
  PROVE  FInv'
<1>1. /\ Present(v, d) /\ UNCHANGED <<fileDescriptors, task, fileSize>> /\ panic = "none"
  BY Zenon DEF Read, ReadDirectory, DeviceRead, DeviceWrite, RepositionOffset, Runs
<1>2. /\ fileSize' \in [Nodes -> 0..Missing] /\ TerminalsAreEmpty'
      /\ \A n \in Nodes : fileSize[n] <= MaxOffset => fileSize'[n] <= MaxOffset
  BY Zenon, <1>1 DEF FInv, Types, TerminalsAreEmpty
<1>3. ASSUME NEW o \in 0..MaxOffset, SetOffset(v, d, o), TerminalHasNoPosition',
             NodeType(v, d) = "Terminal" => o = 0
      PROVE  FInv'
  BY Zenon, <1>1, <1>2, <1>3, MoveStep
<1>4. ASSUME handle' = handle, TerminalHasNoPosition' PROVE FInv'
  <2>1. Types' /\ Tables' /\ Positions'
    BY Zenon, <1>1, <1>4 DEF FInv, Types, Tables, Positions
  <2>2. RefCountsAreExact'
    BY Zenon, <1>1, <1>4, ReferringKept DEF FInv, RefCountsAreExact
  <2>3. QED
    BY Zenon, <1>2, <1>4, <2>1, <2>2 DEF FInv
<1> DEFINE r == HandleOf(v, d)
<1>5. /\ r.offset \in 0..MaxOffset /\ fileSize[r.vnode] \in 0..MaxOffset
      /\ NodeType(v, d) = "Terminal" => r.offset = 0 /\ fileSize[r.vnode] = 0
      /\ WriteStart(v, d) \in 0..MaxOffset
      /\ NodeType(v, d) = "Terminal" => WriteStart(v, d) = 0
  BY Zenon, <1>1, DescriptorProperties
<1>6. ASSUME NEW count \in Counts, Read(v, d, count) PROVE FInv'
  <2>1. NodeType(v, d) # "Terminal" /\ count \in Nat
    BY Zenon, <1>6, FileAssumption DEF Read
  <2>2. CASE r.offset > fileSize[r.vnode]
    <3>1. panic' = "read" /\ handle' = handle
      BY Zenon, <1>6, <2>2 DEF Read
    <3>2. QED
      BY Zenon, <1>4, <3>1 DEF TerminalHasNoPosition
  <2>3. CASE ~(r.offset > fileSize[r.vnode])
    <3>1. /\ SetOffset(v, d, ReadEnd(r.offset, count, fileSize[r.vnode]))
          /\ panic' = panic
      BY Zenon, <1>6, <2>3 DEF Read
    <3>2. ReadEnd(r.offset, count, fileSize[r.vnode]) \in 0..MaxOffset
      <4> HIDE DEF r
      <4>1. QED
        BY <1>5, <2>1, FileAssumption DEF ReadEnd
    <3>3. QED
      BY Zenon, <1>1, <1>3, <2>1, <3>1, <3>2 DEF TerminalHasNoPosition
  <2>4. QED
    BY Zenon, <2>2, <2>3
<1>7. ASSUME ReadDirectory(v, d) PROVE FInv'
  <2> DEFINE o == IF r.offset < fileSize[r.vnode] THEN r.offset + 1 ELSE r.offset
  <2>1. SetOffset(v, d, o) /\ panic' = panic
    BY Zenon, <1>7 DEF ReadDirectory
  <2>2. o \in 0..MaxOffset /\ (NodeType(v, d) = "Terminal" => o = 0)
    <3> HIDE DEF r
    <3>1. QED
      BY <1>5, FileAssumption
  <2> HIDE DEF o
  <2>3. QED
    BY Zenon, <1>1, <1>3, <2>1, <2>2 DEF TerminalHasNoPosition
<1>8. ASSUME DeviceRead(v, d) PROVE FInv'
  BY Zenon, <1>4, <1>5, <1>8 DEF DeviceRead, TerminalHasNoPosition
<1>9. ASSUME DeviceWrite(v, d) PROVE FInv'
  BY Zenon, <1>3, <1>5, <1>9 DEF DeviceWrite, TerminalHasNoPosition
<1>10. ASSUME NEW o \in 0..MaxOffset, RepositionOffset(v, d, o) PROVE FInv'
  BY Zenon, <1>1, <1>3, <1>10 DEF RepositionOffset, Seekable, TerminalHasNoPosition
<1>11. QED
  BY Zenon, <1>6, <1>7, <1>8, <1>9, <1>10

(* Write may let the file grow.                                            *)
LEMMA WriteKeepsFInv ==
  ASSUME FInv, NEW v \in Vfs, NEW d, NEW count \in Counts, Write(v, d, count)
  PROVE  FInv'
<1> DEFINE n == HandleOf(v, d).vnode
           end == WriteStart(v, d) + count
<1>1. /\ Present(v, d) /\ NodeType(v, d) = "RegularFile" /\ end <= MaxOffset
      /\ SetOffset(v, d, end)
      /\ fileSize' = [fileSize EXCEPT ![n] = IF fileSize[n] < end THEN end ELSE fileSize[n]]
      /\ UNCHANGED <<fileDescriptors, task, panic>>
  BY Zenon DEF Write
<1>2. n \in Nodes /\ Type[n] = "RegularFile" /\ fileSize[n] \in 0..MaxOffset
      /\ end \in 0..MaxOffset
  <2>1. n \in Nodes /\ Type[n] = "RegularFile" /\ fileSize[n] \in 0..MaxOffset
        /\ WriteStart(v, d) \in 0..MaxOffset
    BY Zenon, <1>1, DescriptorProperties
  <2>2. QED
    BY <1>1, <2>1, FileAssumption
<1> HIDE DEF n, end
<1>3. /\ fileSize' \in [Nodes -> 0..Missing]
      /\ \A m \in Nodes : fileSize[m] <= MaxOffset => fileSize'[m] <= MaxOffset
      /\ TerminalsAreEmpty'
  BY <1>1, <1>2, FileAssumption DEF FInv, Types, TerminalsAreEmpty, Missing
<1>4. TerminalHasNoPosition'
  BY Zenon, <1>1 DEF FInv, TerminalHasNoPosition
<1>5. QED
  BY Zenon, <1>1, <1>2, <1>3, <1>4, MoveStep

-----------------------------------------------------------------------------
(* Open and Close.                                                         *)

(* Open gives a new or truncated file the size 0.                          *)
LEMMA SizeStep ==
  ASSUME FInv, NEW n \in Nodes, NEW f, fileSize' \in {fileSize, SizeAfterOpen(n, f)}
  PROVE  /\ fileSize' \in [Nodes -> 0..Missing] /\ TerminalsAreEmpty'
         /\ \A m \in Nodes : fileSize[m] <= MaxOffset => fileSize'[m] <= MaxOffset
<1>1. fileSize' = fileSize \/ fileSize' = [fileSize EXCEPT ![n] = 0]
  BY Zenon DEF SizeAfterOpen
<1>2. 0 \in 0..Missing /\ 0 <= MaxOffset
  BY FileAssumption DEF Missing
<1>3. fileSize \in [Nodes -> 0..Missing] /\ TerminalsAreEmpty
  BY Zenon DEF FInv, Types
<1>4. \A m \in Nodes : fileSize'[m] \in {fileSize[m], 0}
  BY Zenon, <1>1, <1>3
<1>5. QED
  BY Zenon, <1>1, <1>2, <1>3, <1>4 DEF TerminalsAreEmpty

(* The positions after a step that changes the handle h and lets no file   *)
(* go.                                                                     *)
LEMMA PositionsStep ==
  ASSUME FInv, NEW h \in Handles, NEW r \in FileHandle,
         handle' = [handle EXCEPT ![h] = r],
         \A m \in Nodes : fileSize[m] <= MaxOffset => fileSize'[m] <= MaxOffset,
         IF r.vnode = NoNode THEN r.offset = 0
         ELSE /\ r.refCount > 0 /\ fileSize'[r.vnode] <= MaxOffset
              /\ Type[r.vnode] = "Terminal" => r.offset = 0
  PROVE  /\ handle' \in [Handles -> FileHandle] /\ Positions'
         /\ handle'[h] = r /\ \A g \in Handles \ {h} : handle'[g] = handle[g]
<1>1. handle' \in [Handles -> FileHandle]
      /\ handle'[h] = r /\ \A g \in Handles \ {h} : handle'[g] = handle[g]
  BY Zenon DEF FInv, Types
<1>2. \A g \in Handles : handle[g].vnode \in Nodes \cup {NoNode}
  BY Zenon DEF FInv, Types, FileHandle
<1>3. QED
  BY Zenon, <1>1, <1>2 DEF FInv, Positions

(* A failed Open leaves a handle that nobody refers to.                    *)
LEMMA OpenFailsKeepsFInv ==
  ASSUME FInv, NEW v \in Vfs, NEW n \in Nodes, NEW f, NEW h \in Handles, OpenFails(v, n, f, h)
  PROVE  FInv'
<1> DEFINE r == [handle[h] EXCEPT !.refCount = 1]
<1>1. /\ WithinHeap(v) /\ handle[h].refCount = 0
      /\ fileDescriptors' = [fileDescriptors EXCEPT ![v] = Grown(v)]
      /\ handle' = [handle EXCEPT ![h] = r]
      /\ fileSize' \in {fileSize, SizeAfterOpen(n, f)}
      /\ panic' \in {"truncate", "none"} /\ task' = task /\ task[v] = "runs"
  BY Zenon DEF OpenFails, Runs
<1>2. Types /\ Tables /\ handle[h] \in FileHandle
  BY Zenon DEF FInv, Types
<1>3. handle[h].vnode = NoNode /\ handle[h].offset = 0
  BY Zenon, <1>1, UnusedProperties DEF FInv, Positions
<1>4. r \in FileHandle /\ r.vnode = NoNode /\ r.offset = 0
  BY Zenon, <1>2, <1>3 DEF FileHandle
<1> HIDE DEF r
<1>5. /\ fileSize' \in [Nodes -> 0..Missing] /\ TerminalsAreEmpty'
      /\ \A m \in Nodes : fileSize[m] <= MaxOffset => fileSize'[m] <= MaxOffset
  BY <1>1, SizeStep
<1>6. /\ handle' \in [Handles -> FileHandle] /\ Positions'
      /\ handle'[h] = r /\ \A g \in Handles \ {h} : handle'[g] = handle[g]
  BY Zenon, <1>1, <1>4, <1>5, PositionsStep
<1>7. /\ fileDescriptors' \in [Vfs -> Seq(Handles \cup {Closed})]
      /\ \A w \in Vfs \ {v} : fileDescriptors'[w] = fileDescriptors[w]
      /\ \A w \in Vfs : Len(fileDescriptors'[w]) <= MaxDescriptors
      /\ \A g \in Handles : Referring(g)' = Referring(g)
  BY Zenon, <1>1, <1>2, GrownStep
<1>8. Types' /\ Tables'
  BY Zenon, <1>1, <1>2, <1>5, <1>6, <1>7 DEF Types, Tables
<1>9. RefCountsAreExact'
  BY Zenon, <1>3, <1>4, <1>6, <1>7 DEF FInv, RefCountsAreExact
<1>10. QED
  BY Zenon, <1>1, <1>5, <1>6, <1>8, <1>9 DEF FInv, TerminalHasNoPosition

(* Stat opens a descriptor and closes it again.                            *)
LEMMA StatKeepsFInv ==
  ASSUME FInv, NEW v \in Vfs, NEW n, Stat(v, n)
  PROVE  FInv'
<1>1. /\ WithinHeap(v) /\ task[v] = "runs"
      /\ fileDescriptors' = [fileDescriptors EXCEPT ![v] = Grown(v)]
      /\ UNCHANGED <<handle, fileSize, task, panic>>
  BY Zenon DEF Stat, Runs
<1>2. Types /\ Tables
  BY DEF FInv
<1>3. /\ fileDescriptors' \in [Vfs -> Seq(Handles \cup {Closed})]
      /\ \A w \in Vfs \ {v} : fileDescriptors'[w] = fileDescriptors[w]
      /\ \A w \in Vfs : Len(fileDescriptors'[w]) <= MaxDescriptors
      /\ \A g \in Handles : Referring(g)' = Referring(g)
  BY Zenon, <1>1, <1>2, GrownStep
<1>4. Types' /\ Tables'
  BY Zenon, <1>1, <1>2, <1>3 DEF Types, Tables
<1>5. RefCountsAreExact'
  BY Zenon, <1>1, <1>3 DEF FInv, RefCountsAreExact
<1>6. QED
  BY Zenon, <1>1, <1>4, <1>5 DEF FInv, Positions, TerminalsAreEmpty, TerminalHasNoPosition

(* Open refers to its new handle through a descriptor that was free.       *)
LEMMA OpenReferences ==
  ASSUME FInv, NEW v \in Vfs, NEW h \in Handles, WithinHeap(v),
         fileDescriptors' = [fileDescriptors EXCEPT
                               ![v] = [Grown(v) EXCEPT ![FreeDescriptor(v)] = h]]
  PROVE  /\ fileDescriptors' \in [Vfs -> Seq(Handles \cup {Closed})]
         /\ \A w \in Vfs \ {v} : fileDescriptors'[w] = fileDescriptors[w]
         /\ \A w \in Vfs : Len(fileDescriptors'[w]) <= MaxDescriptors
         /\ Referring(h)' = Referring(h) \cup {<<v, FreeDescriptor(v)>>}
         /\ <<v, FreeDescriptor(v)>> \notin Referring(h)
         /\ \A g \in Handles \ {h} : Referring(g)' = Referring(g)
<1> DEFINE e == FreeDescriptor(v)
           s == [Grown(v) EXCEPT ![e] = h]
<1>1. Types /\ Tables
  BY Zenon DEF FInv
<1>2. /\ Grown(v) \in Seq(Handles \cup {Closed}) /\ e \in DOMAIN Grown(v)
      /\ Grown(v)[e] = Closed /\ Len(Grown(v)) <= MaxDescriptors
      /\ e \in Slots(v) => fileDescriptors[v][e] = Closed
  BY Zenon, <1>1, GrownProperties DEF WithinHeap
<1>3. /\ s \in Seq(Handles \cup {Closed}) /\ Len(s) = Len(Grown(v))
      /\ DOMAIN s = DOMAIN Grown(v)
      /\ \A d \in DOMAIN s : s[d] = IF d = e THEN h ELSE Grown(v)[d]
  <2> HIDE DEF e
  <2>1. QED
    BY <1>2
<1>4. Len(s) <= MaxDescriptors
  BY Zenon, <1>2, <1>3
<1>5. ASSUME NEW g \in Handles
      PROVE  /\ g = h => {d \in DOMAIN s : s[d] = g}
                          = {d \in Slots(v) : fileDescriptors[v][d] = g} \cup {e}
             /\ g # h => {d \in DOMAIN s : s[d] = g}
                          = {d \in Slots(v) : fileDescriptors[v][d] = g}
  <2>1. g # Closed
    BY Zenon, FileAssumption
  <2>2. \A d : d \in Slots(v) /\ fileDescriptors[v][d] = g <=> d \in DOMAIN s /\ Grown(v)[d] = g
    BY <1>1, <1>3, <2>1, GrownProperties
  <2> HIDE DEF e, s
  <2>3. QED
    BY Zenon, <1>2, <1>3, <2>1, <2>2
<1> HIDE DEF s, e
<1>6. fileDescriptors' = [fileDescriptors EXCEPT ![v] = s]
  BY Zenon DEF s, e
<1>7. /\ fileDescriptors' \in [Vfs -> Seq(Handles \cup {Closed})]
      /\ \A w \in Vfs \ {v} : fileDescriptors'[w] = fileDescriptors[w]
      /\ \A w \in Vfs : Len(fileDescriptors'[w]) <= MaxDescriptors
      /\ \A g : Referring(g)' = {r \in Referring(g) : r[1] # v}
                                  \cup {<<v, d>> : d \in {k \in DOMAIN s : s[k] = g}}
  BY Zenon, <1>1, <1>3, <1>4, <1>6, TableStep
<1>8. \A g : {<<v, d>> : d \in {k \in Slots(v) : fileDescriptors[v][k] = g}}
               = {r \in Referring(g) : r[1] = v}
  BY Zenon, <1>1, OwnReferences
<1>9. ASSUME NEW g \in Handles \ {h} PROVE Referring(g)' = Referring(g)
  <2>1. {k \in DOMAIN s : s[k] = g} = {k \in Slots(v) : fileDescriptors[v][k] = g}
    BY Zenon, <1>5
  <2>2. Referring(g)' = {r \in Referring(g) : r[1] # v} \cup {r \in Referring(g) : r[1] = v}
    BY Zenon, <1>7, <1>8, <2>1
  <2>3. QED
    BY Zenon, <2>2
<1>10. Referring(h)' = Referring(h) \cup {<<v, e>>}
  <2>1. {k \in DOMAIN s : s[k] = h} = {k \in Slots(v) : fileDescriptors[v][k] = h} \cup {e}
    BY Zenon, <1>5
  <2>2. {<<v, d>> : d \in {k \in DOMAIN s : s[k] = h}}
          = {<<v, d>> : d \in {k \in Slots(v) : fileDescriptors[v][k] = h}} \cup {<<v, e>>}
    BY Zenon, <2>1
  <2>3. Referring(h)' = {r \in Referring(h) : r[1] # v}
                          \cup ({r \in Referring(h) : r[1] = v} \cup {<<v, e>>})
    BY Zenon, <1>7, <1>8, <2>2
  <2>4. QED
    BY Zenon, <2>3
<1>11. <<v, e>> \notin Referring(h)
  BY <1>1, <1>2, ReferringPairs, FileAssumption
<1>12. QED
  BY Zenon, <1>7, <1>9, <1>10, <1>11 DEF e

(* Open: one reference, counted once.                                      *)
LEMMA OpenKeepsFInv ==
  ASSUME FInv, NEW v \in Vfs, NEW n \in Nodes, NEW f \in OpenFlags, NEW h \in Handles,
         Open(v, n, f, h)
  PROVE  FInv'
<1> DEFINE r == [refCount |-> 1, vnode |-> n, offset |-> 0, flags |-> Flags(f)]
<1>1. /\ WithinHeap(v) /\ handle[h].refCount = 0 /\ ~NoVnode(n, f)
      /\ fileDescriptors' = [fileDescriptors EXCEPT
                               ![v] = [Grown(v) EXCEPT ![FreeDescriptor(v)] = h]]
      /\ handle' = [handle EXCEPT ![h] = r]
      /\ fileSize' = SizeAfterOpen(n, f)
      /\ UNCHANGED <<task, panic>> /\ task[v] = "runs"
  BY Zenon DEF Open, Runs
<1>2. Types /\ Tables /\ fileSize[n] \in 0..Missing
  BY Zenon DEF FInv, Types
<1>3. r \in FileHandle /\ r.refCount = 1 /\ r.vnode = n /\ r.offset = 0
  BY FileAssumption DEF FileHandle
<1> HIDE DEF r
<1>4. /\ fileSize' \in [Nodes -> 0..Missing] /\ TerminalsAreEmpty'
      /\ \A m \in Nodes : fileSize[m] <= MaxOffset => fileSize'[m] <= MaxOffset
  BY <1>1, SizeStep
<1>5. fileSize'[n] <= MaxOffset
  <2>1. CASE Truncates(f) \/ fileSize[n] = Missing
    <3>1. fileSize' = [fileSize EXCEPT ![n] = 0]
      BY Zenon, <1>1, <2>1 DEF SizeAfterOpen
    <3>2. QED
      BY <3>1, FileAssumption DEF FInv, Types
  <2>2. CASE ~(Truncates(f) \/ fileSize[n] = Missing)
    <3>1. fileSize' = fileSize
      BY Zenon, <1>1, <2>2 DEF SizeAfterOpen
    <3>2. QED
      BY <1>2, <2>2, <3>1, FileAssumption DEF Missing
  <2>3. QED
    BY Zenon, <2>1, <2>2
<1>6. /\ n # NoNode
      /\ IF r.vnode = NoNode THEN r.offset = 0
         ELSE /\ r.refCount > 0 /\ fileSize'[r.vnode] <= MaxOffset
              /\ Type[r.vnode] = "Terminal" => r.offset = 0
  BY <1>3, <1>5, FileAssumption
<1>7. /\ handle' \in [Handles -> FileHandle] /\ Positions'
      /\ handle'[h] = r /\ \A g \in Handles \ {h} : handle'[g] = handle[g]
  BY Zenon, <1>1, <1>3, <1>4, <1>6, PositionsStep
<1>8. /\ fileDescriptors' \in [Vfs -> Seq(Handles \cup {Closed})]
      /\ \A w \in Vfs \ {v} : fileDescriptors'[w] = fileDescriptors[w]
      /\ \A w \in Vfs : Len(fileDescriptors'[w]) <= MaxDescriptors
      /\ Referring(h)' = Referring(h) \cup {<<v, FreeDescriptor(v)>>}
      /\ \A g \in Handles \ {h} : Referring(g)' = Referring(g)
  BY Zenon, <1>1, OpenReferences
<1>9. Types' /\ Tables'
  BY Zenon, <1>1, <1>2, <1>4, <1>7, <1>8 DEF Types, Tables
<1>10. Cardinality(Referring(h)') = 1
  <2>1. Referring(h) = {}
    BY Zenon, <1>1, UnusedProperties
  <2>2. Referring(h)' = {<<v, FreeDescriptor(v)>>}
    BY Zenon, <1>8, <2>1
  <2>3. QED
    BY Zenon, <2>2, FS_Singleton
<1>11. RefCountsAreExact'
  BY ZenonT(30), <1>3, <1>6, <1>7, <1>8, <1>10 DEF FInv, RefCountsAreExact
<1>12. QED
  BY Zenon, <1>1, <1>4, <1>7, <1>9, <1>11 DEF FInv, TerminalHasNoPosition

(* Close drops one reference.                                              *)
LEMMA CloseReferences ==
  ASSUME FInv, NEW v \in Vfs, NEW d, Close(v, d)
  PROVE  /\ fileDescriptors' \in [Vfs -> Seq(Handles \cup {Closed})]
         /\ \A w \in Vfs \ {v} : fileDescriptors'[w] = fileDescriptors[w]
         /\ \A w \in Vfs : Len(fileDescriptors'[w]) <= MaxDescriptors
         /\ \A g \in Handles : Referring(g)' = Referring(g) \ {<<v, d>>}
<1> DEFINE s == [fileDescriptors[v] EXCEPT ![d] = Closed]
<1>1. Types /\ Tables /\ d \in Slots(v)
  BY Zenon DEF FInv, Close, Present
<1>2. fileDescriptors[v] \in Seq(Handles \cup {Closed}) /\ Len(fileDescriptors[v]) <= MaxDescriptors
  BY Zenon, <1>1 DEF Types, Tables
<1>3. /\ s \in Seq(Handles \cup {Closed}) /\ Len(s) = Len(fileDescriptors[v])
      /\ DOMAIN s = Slots(v)
      /\ \A k \in DOMAIN s : s[k] = IF k = d THEN Closed ELSE fileDescriptors[v][k]
  BY <1>1, <1>2 DEF Slots
<1> HIDE DEF s
<1>4. fileDescriptors' = [fileDescriptors EXCEPT ![v] = s]
  BY Zenon DEF Close, s
<1>5. Len(s) <= MaxDescriptors
  BY Zenon, <1>2, <1>3
<1>6. /\ fileDescriptors' \in [Vfs -> Seq(Handles \cup {Closed})]
      /\ \A w \in Vfs \ {v} : fileDescriptors'[w] = fileDescriptors[w]
      /\ \A w \in Vfs : Len(fileDescriptors'[w]) <= MaxDescriptors
      /\ \A g : Referring(g)' = {r \in Referring(g) : r[1] # v}
                                  \cup {<<v, e>> : e \in {k \in DOMAIN s : s[k] = g}}
  BY Zenon, <1>1, <1>3, <1>4, <1>5, TableStep
<1>7. ASSUME NEW g \in Handles PROVE Referring(g)' = Referring(g) \ {<<v, d>>}
  <2>1. g # Closed
    BY Zenon, FileAssumption
  <2>2. {k \in DOMAIN s : s[k] = g} = {k \in Slots(v) : fileDescriptors[v][k] = g} \ {d}
    BY Zenon, <1>3, <2>1
  <2>3. {<<v, e>> : e \in {k \in DOMAIN s : s[k] = g}}
          = {<<v, e>> : e \in {k \in Slots(v) : fileDescriptors[v][k] = g}} \ {<<v, d>>}
    BY <2>2
  <2>4. {<<v, e>> : e \in {k \in Slots(v) : fileDescriptors[v][k] = g}}
          = {r \in Referring(g) : r[1] = v}
    BY Zenon, <1>1, OwnReferences
  <2>5. Referring(g)' = {r \in Referring(g) : r[1] # v}
                          \cup ({r \in Referring(g) : r[1] = v} \ {<<v, d>>})
    BY Zenon, <1>6, <2>3, <2>4
  <2>6. QED
    BY Zenon, <2>5
<1>8. QED
  BY Zenon, <1>6, <1>7

(* Close counts down, and frees the handle with its last reference.        *)
LEMMA CloseKeepsFInv ==
  ASSUME FInv, NEW v \in Vfs, NEW d, Close(v, d)
  PROVE  FInv'
<1>0. PICK h : h = fileDescriptors[v][d]
  BY Zenon
<1> DEFINE r == Released(h)
<1>1. /\ Present(v, d) /\ task[v] = "runs"
      /\ handle' = [handle EXCEPT ![h] = r]
      /\ UNCHANGED <<fileSize, task, panic>>
  BY Zenon, <1>0 DEF Close, Runs
<1>2. /\ Types /\ Tables /\ h \in Handles /\ handle[h] \in FileHandle
      /\ handle[h].vnode \in Nodes /\ <<v, d>> \in Referring(h)
  BY Zenon, <1>0, <1>1, PresentProperties DEF FInv, HandleOf
<1>3. /\ handle[h].refCount \in Nat \ {0} /\ handle[h].vnode # NoNode
      /\ Cardinality(Referring(h)) = handle[h].refCount
      /\ fileSize[handle[h].vnode] <= MaxOffset
      /\ Type[handle[h].vnode] = "Terminal" => handle[h].offset = 0
  <2>1. handle[h].vnode # NoNode /\ handle[h].refCount \in Nat
    BY Zenon, <1>2, FileAssumption DEF FileHandle
  <2>2. QED
    BY <1>2, <2>1 DEF FInv, RefCountsAreExact, Positions
<1>4. /\ handle[h].refCount = 1 => r = Free
      /\ handle[h].refCount # 1 => r = [handle[h] EXCEPT !.refCount = handle[h].refCount - 1]
  BY Zenon DEF Released
<1>5. /\ Free \in FileHandle /\ Free.refCount = 0 /\ Free.vnode = NoNode /\ Free.offset = 0
  BY FileAssumption DEF Free, FileHandle
<1> HIDE DEF r
<1>6. /\ r \in FileHandle /\ r.refCount = handle[h].refCount - 1
      /\ IF r.vnode = NoNode THEN r.offset = 0
         ELSE /\ r.refCount > 0 /\ fileSize[r.vnode] <= MaxOffset
              /\ Type[r.vnode] = "Terminal" => r.offset = 0
      /\ r.vnode = NoNode => r.refCount = 0
  <2>1. CASE handle[h].refCount = 1
    BY SMTT(30), <1>4, <1>5, <2>1
  <2>2. CASE handle[h].refCount # 1
    <3>1. /\ r \in FileHandle /\ r.refCount = handle[h].refCount - 1
          /\ r.vnode = handle[h].vnode /\ r.offset = handle[h].offset
      BY <1>2, <1>3, <1>4, <2>2 DEF FileHandle
    <3>2. QED
      BY <1>3, <2>2, <3>1
  <2>3. QED
    BY Zenon, <2>1, <2>2
<1>7. /\ handle' \in [Handles -> FileHandle] /\ Positions'
      /\ handle'[h] = r /\ \A g \in Handles \ {h} : handle'[g] = handle[g]
  BY Zenon, <1>1, <1>2, <1>6, PositionsStep
<1>8. /\ fileDescriptors' \in [Vfs -> Seq(Handles \cup {Closed})]
      /\ \A w \in Vfs \ {v} : fileDescriptors'[w] = fileDescriptors[w]
      /\ \A w \in Vfs : Len(fileDescriptors'[w]) <= MaxDescriptors
      /\ \A g \in Handles : Referring(g)' = Referring(g) \ {<<v, d>>}
  BY Zenon, CloseReferences
<1>9. Types' /\ Tables'
  BY Zenon, <1>1, <1>2, <1>7, <1>8 DEF Types, Tables
<1>10. Cardinality(Referring(h)') = handle[h].refCount - 1
  <2>1. Cardinality(Referring(h) \ {<<v, d>>}) = Cardinality(Referring(h)) - 1
    BY Zenon, <1>2, ReferringFinite, FS_RemoveElement
  <2>2. Referring(h)' = Referring(h) \ {<<v, d>>}
    BY Zenon, <1>2, <1>8
  <2>3. QED
    BY Zenon, <1>3, <2>1, <2>2
<1>11. \A g \in Handles \ {h} : Referring(g)' = Referring(g)
  <2>1. \A g \in Handles \ {h} : <<v, d>> \notin Referring(g)
    BY Zenon, <1>0 DEF Referring
  <2>2. QED
    BY Zenon, <1>8, <2>1
<1>12. RefCountsAreExact'
  <2>1. \A g \in Handles \ {h} : Cardinality(Referring(g)') =
          IF handle'[g].vnode = NoNode THEN 0 ELSE handle'[g].refCount
    BY Zenon, <1>7, <1>11 DEF FInv, RefCountsAreExact
  <2>2. Cardinality(Referring(h)') =
          IF handle'[h].vnode = NoNode THEN 0 ELSE handle'[h].refCount
    BY Zenon, <1>6, <1>7, <1>10
  <2>3. \A g \in Handles : g = h \/ g \in Handles \ {h}
    BY Zenon
  <2>4. QED
    BY Zenon, <2>1, <2>2, <2>3 DEF RefCountsAreExact
<1>13. QED
  BY Zenon, <1>1, <1>7, <1>9, <1>12 DEF FInv, TerminalHasNoPosition, TerminalsAreEmpty

-----------------------------------------------------------------------------
(* Fork and Execute.                                                       *)

(* A set of descriptors, as references from w.                             *)
LEMMA PairsCounted ==
  ASSUME NEW w, NEW D, IsFiniteSet(D)
  PROVE  /\ IsFiniteSet({<<w, d>> : d \in D})
         /\ Cardinality({<<w, d>> : d \in D}) = Cardinality(D)
<1> DEFINE P == {<<w, d>> : d \in D}
           pair == [d \in D |-> <<w, d>>]
<1>1. pair \in Bijection(D, P)
  BY Zenon DEF Bijection, Injection, Surjection, IsInjective
<1>2. ExistsBijection(D, P)
  BY Zenon, <1>1 DEF ExistsBijection
<1>3. QED
  BY Zenon, <1>2, FS_Bijection

(* A VFS object that was empty gets the descriptors s.                     *)
LEMMA FilledReferences ==
  ASSUME Types, Tables, NEW w \in Vfs, fileDescriptors[w] = <<>>,
         NEW s \in Seq(Handles \cup {Closed}), Len(s) <= MaxDescriptors,
         fileDescriptors' = [fileDescriptors EXCEPT ![w] = s]
  PROVE  \A h : /\ Referring(h)' = Referring(h)
                                       \cup {<<w, d>> : d \in {e \in DOMAIN s : s[e] = h}}
               /\ \A r \in Referring(h) : r[1] # w
<1>1. \A h : Referring(h)' = {r \in Referring(h) : r[1] # w}
                               \cup {<<w, d>> : d \in {e \in DOMAIN s : s[e] = h}}
  BY ZenonT(30), TableStep
<1>2. \A h : \A r \in Referring(h) : r[1] # w
  BY DEF Referring, Slots
<1>3. \A h : {r \in Referring(h) : r[1] # w} = Referring(h)
  BY Zenon, <1>2
<1>4. QED
  BY Zenon, <1>1, <1>2, <1>3

(* The copy constructor of VFS: w gets descriptors of v, and each of them  *)
(* that is present is counted.                                             *)
LEMMA CopyReferences ==
  ASSUME FInv, NEW v \in Vfs, NEW w \in Vfs, task[w] = "none",
         NEW s \in Seq(Handles \cup {Closed}), Len(s) <= MaxDescriptors,
         fileDescriptors' = [fileDescriptors EXCEPT ![w] = s],
         \A d \in DOMAIN s : s[d] # Closed => d \in Slots(v) /\ fileDescriptors[v][d] = s[d],
         NEW h \in Handles
  PROVE  /\ References(s, h) \in Nat
         /\ Cardinality(Referring(h)') = Cardinality(Referring(h)) + References(s, h)
         /\ handle[h].vnode = NoNode => References(s, h) = 0
<1> DEFINE D == {d \in DOMAIN s : s[d] = h}
           P == {<<w, d>> : d \in D}
<1>1. Types /\ Tables /\ h # Closed /\ fileDescriptors[w] = <<>>
  BY Zenon, FileAssumption DEF FInv, Tables
<1>2. IsFiniteSet(D)
  <2>1. DOMAIN s = 1..Len(s) /\ Len(s) \in Nat
    OBVIOUS
  <2>2. IsFiniteSet(1..Len(s)) /\ D \in SUBSET (1..Len(s))
    BY <2>1, FS_Interval
  <2>3. QED
    BY Zenon, <2>2, FS_Subset
<1>3. References(s, h) = Cardinality(D) /\ Cardinality(D) \in Nat
  BY Zenon, <1>2, FS_CardinalityType DEF References
<1>4. Referring(h)' = Referring(h) \cup P /\ Referring(h) \cap P = {}
  <2>1. \A g : /\ Referring(g)' = Referring(g)
                                     \cup {<<w, d>> : d \in {e \in DOMAIN s : s[e] = g}}
              /\ \A r \in Referring(g) : r[1] # w
    BY ZenonT(30), <1>1, FilledReferences
  <2>2. \A r \in P : r[1] = w
    OBVIOUS
  <2>3. QED
    BY Zenon, <2>1, <2>2
<1>5. IsFiniteSet(P) /\ Cardinality(P) = Cardinality(D)
  <2> HIDE DEF D
  <2>1. QED
    BY Zenon, <1>2, PairsCounted
<1>6. Cardinality(Referring(h) \cup P) = Cardinality(Referring(h)) + Cardinality(D)
  <2> HIDE DEF P, D
  <2>1. IsFiniteSet(Referring(h)) /\ Cardinality(Referring(h)) \in Nat
    BY Zenon, ReferringFinite
  <2>2. Cardinality(Referring(h) \cup P)
          = Cardinality(Referring(h)) + Cardinality(P) - Cardinality(Referring(h) \cap P)
    BY Zenon, <1>5, <2>1, FS_Union
  <2>3. Cardinality(Referring(h) \cap P) = 0
    BY Zenon, <1>4, FS_EmptySet
  <2>4. QED
    BY <1>3, <1>5, <2>1, <2>2, <2>3
<1>7. ASSUME handle[h].vnode = NoNode PROVE Cardinality(D) = 0
  <2>1. \A d \in D : <<v, d>> \in Referring(h)
    BY Zenon, <1>1, ReferringPairs
  <2>2. Referring(h) = {}
    BY Zenon, <1>7, UnusedProperties
  <2>3. D = {}
    BY Zenon, <2>1, <2>2
  <2> HIDE DEF D
  <2>4. QED
    BY Zenon, <2>3, FS_EmptySet
<1> HIDE DEF P, D
<1>8. QED
  BY Zenon, <1>3, <1>4, <1>6, <1>7

(* So the copy keeps the invariant.                                        *)
LEMMA CopyKeepsFInv ==
  ASSUME FInv, NEW v \in Vfs, NEW w \in Vfs, task[w] = "none",
         NEW s \in Seq(Handles \cup {Closed}), Len(s) <= MaxDescriptors,
         fileDescriptors' = [fileDescriptors EXCEPT ![w] = s],
         \A d \in DOMAIN s : s[d] # Closed => d \in Slots(v) /\ fileDescriptors[v][d] = s[d],
         handle' = Counted(s),
         task' \in [Vfs -> {"none", "runs", "gone"}], task'[w] = "runs",
         \A u \in Vfs \ {w} : task'[u] = "none" => task[u] = "none",
         UNCHANGED <<fileSize, panic>>
  PROVE  FInv'
<1>1. Types /\ Tables
  BY Zenon DEF FInv
<1>2. /\ fileDescriptors' \in [Vfs -> Seq(Handles \cup {Closed})]
      /\ \A u \in Vfs \ {w} : fileDescriptors'[u] = fileDescriptors[u]
      /\ \A u \in Vfs : Len(fileDescriptors'[u]) <= MaxDescriptors
  BY Zenon, <1>1, TableStep
<1>3. \A h \in Handles :
        /\ References(s, h) \in Nat
        /\ Cardinality(Referring(h)') = Cardinality(Referring(h)) + References(s, h)
        /\ handle[h].vnode = NoNode => References(s, h) = 0
  BY Zenon, CopyReferences
<1>4. ASSUME NEW h \in Handles
      PROVE  /\ handle'[h] \in FileHandle
             /\ handle'[h].refCount = handle[h].refCount + References(s, h)
             /\ handle'[h].vnode = handle[h].vnode /\ handle'[h].offset = handle[h].offset
  <2> DEFINE k == handle[h].refCount + References(s, h)
  <2>1. handle'[h] = [handle[h] EXCEPT !.refCount = k]
    BY Zenon DEF Counted
  <2>2. handle[h] \in FileHandle /\ k \in Nat
    BY <1>1, <1>3 DEF Types, FileHandle
  <2> HIDE DEF k
  <2>3. QED
    BY <2>1, <2>2 DEF FileHandle, k
<1>5. handle' \in [Handles -> FileHandle]
  <2>1. handle' = [h \in Handles |-> handle'[h]]
    BY Zenon DEF Counted
  <2>2. QED
    BY Zenon, <1>4, <2>1
<1>6. Types' /\ Tables'
  BY Zenon, <1>1, <1>2, <1>5 DEF Types, Tables
<1>7. RefCountsAreExact'
  <2> SUFFICES ASSUME NEW h \in Handles
               PROVE  Cardinality(Referring(h)') =
                        IF handle'[h].vnode = NoNode THEN 0 ELSE handle'[h].refCount
    BY Zenon DEF RefCountsAreExact
  <2>1. Cardinality(Referring(h)) = IF handle[h].vnode = NoNode THEN 0 ELSE handle[h].refCount
    BY Zenon DEF FInv, RefCountsAreExact
  <2>2. QED
    BY SMTT(30), <1>3, <1>4, <2>1
<1>8. Positions'
  <2>1. \A h \in Handles : handle[h].refCount \in Nat
    BY Zenon, <1>1 DEF Types, FileHandle
  <2>2. QED
    BY <1>3, <1>4, <2>1 DEF FInv, Positions
<1>9. QED
  BY Zenon, <1>6, <1>7, <1>8 DEF FInv, TerminalHasNoPosition, TerminalsAreEmpty

(* Fork copies all descriptors.                                            *)
LEMMA ForkKeepsFInv ==
  ASSUME FInv, NEW v \in Vfs, NEW w \in Vfs, Fork(v, w)
  PROVE  FInv'
<1>1. /\ task[w] = "none" /\ handle' = Counted(fileDescriptors[v])
      /\ fileDescriptors' = [fileDescriptors EXCEPT ![w] = fileDescriptors[v]]
      /\ task' = [task EXCEPT ![w] = "runs"]
      /\ UNCHANGED <<fileSize, panic>>
  BY Zenon DEF Fork
<1>2. /\ fileDescriptors[v] \in Seq(Handles \cup {Closed})
      /\ Len(fileDescriptors[v]) <= MaxDescriptors
      /\ task \in [Vfs -> {"none", "runs", "gone"}]
  BY Zenon DEF FInv, Types, Tables
<1>3. /\ task' \in [Vfs -> {"none", "runs", "gone"}] /\ task'[w] = "runs"
      /\ \A u \in Vfs \ {w} : task'[u] = "none" => task[u] = "none"
  BY Zenon, <1>1, <1>2
<1>4. QED
  BY Zenon, <1>1, <1>2, <1>3, CopyKeepsFInv DEF Slots

(* Execute copies the descriptors that are not closed on exec, and leaves  *)
(* free slots behind them.                                                 *)
LEMMA ExecuteCopies ==
  ASSUME FInv, NEW v \in Vfs, NEW w \in Vfs, NEW opened \in Nat, Execute(v, w, opened)
  PROVE  /\ task[v] = "runs" /\ task[w] = "none" /\ UNCHANGED <<fileSize, panic>>
         /\ task' = [task EXCEPT ![v] = "gone", ![w] = "runs"]
         /\ \E s \in Seq(Handles \cup {Closed}) :
              /\ Len(s) <= MaxDescriptors
              /\ fileDescriptors' = [fileDescriptors EXCEPT ![w] = s]
              /\ handle' = Counted(s)
              /\ \A d \in DOMAIN s :
                   s[d] # Closed => d \in Slots(v) /\ fileDescriptors[v][d] = s[d]
<1> DEFINE kept == [d \in Slots(v) |->
                      IF ClosedOnExecute(v, d) THEN Closed ELSE fileDescriptors[v][d]]
           free == Cardinality({d \in DOMAIN kept : kept[d] = Closed})
           new == IF opened > free THEN opened - free ELSE 0
           closed == [k \in 1..new |-> Closed]
           s == kept \o closed
<1>1. /\ task[v] = "runs" /\ task[w] = "none" /\ UNCHANGED <<fileSize, panic>>
      /\ task' = [task EXCEPT ![v] = "gone", ![w] = "runs"]
      /\ Len(kept) + new <= MaxDescriptors
      /\ fileDescriptors' = [fileDescriptors EXCEPT ![w] = s]
      /\ handle' = Counted(kept)
  BY Zenon DEF Execute, Runs
<1>2. Types /\ Slots(v) = 1..Len(fileDescriptors[v]) /\ Len(fileDescriptors[v]) \in Nat
  BY Zenon, SlotProperties DEF FInv
<1>3. kept \in Seq(Handles \cup {Closed}) /\ DOMAIN kept = Slots(v) /\ Len(kept) \in Nat
  <2>1. \A d \in Slots(v) : fileDescriptors[v][d] \in Handles \cup {Closed}
    BY Zenon, <1>2, SlotProperties
  <2>2. kept \in [1..Len(fileDescriptors[v]) -> Handles \cup {Closed}]
    BY Zenon, <1>2, <2>1
  <2>3. QED
    BY <1>2, <2>2
<1>4. new \in Nat
  <2>1. {d \in DOMAIN kept : kept[d] = Closed} \in SUBSET (1..Len(fileDescriptors[v]))
    BY Zenon, <1>2
  <2>2. IsFiniteSet(1..Len(fileDescriptors[v]))
    BY <1>2, FS_Interval
  <2>3. free \in Nat
    BY Zenon, <2>1, <2>2, FS_Subset, FS_CardinalityType
  <2> HIDE DEF free
  <2>4. QED
    BY <2>3
<1>5. \A d \in Slots(v) : kept[d] # Closed => fileDescriptors[v][d] = kept[d]
  BY Zenon
<1> HIDE DEF kept, new
<1>6. closed \in Seq(Handles \cup {Closed}) /\ Len(closed) = new
      /\ \A d \in 1..new : closed[d] = Closed
  BY <1>4
<1> HIDE DEF closed
<1>7. /\ s \in Seq(Handles \cup {Closed}) /\ Len(s) = Len(kept) + new
      /\ DOMAIN s = 1..(Len(kept) + new)
      /\ \A d \in DOMAIN s : IF d \in DOMAIN kept THEN s[d] = kept[d] ELSE s[d] = Closed
  BY SMTT(30), <1>3, <1>4, <1>6
<1> HIDE DEF s
<1>8. DOMAIN kept \subseteq DOMAIN s
  BY <1>3, <1>4, <1>7
<1>9. Counted(s) = Counted(kept)
  <2>1. \A h \in Handles : {d \in DOMAIN s : s[d] = h} = {d \in DOMAIN kept : kept[d] = h}
    BY Zenon, <1>7, <1>8, FileAssumption
  <2>2. \A h \in Handles : References(s, h) = References(kept, h)
    BY Zenon, <2>1 DEF References
  <2>3. QED
    BY Zenon, <2>2 DEF Counted
<1>10. \A d \in DOMAIN s : s[d] # Closed => d \in Slots(v) /\ fileDescriptors[v][d] = s[d]
  BY Zenon, <1>3, <1>5, <1>7
<1>11. QED
  BY Zenon, <1>1, <1>7, <1>9, <1>10

(* Execute keeps the references of the image that it drops.                *)
LEMMA ExecuteKeepsFInv ==
  ASSUME FInv, NEW v \in Vfs, NEW w \in Vfs, NEW opened \in Nat, Execute(v, w, opened)
  PROVE  FInv'
<1>1. /\ task[v] = "runs" /\ task[w] = "none" /\ UNCHANGED <<fileSize, panic>>
      /\ task' = [task EXCEPT ![v] = "gone", ![w] = "runs"]
  BY Zenon, ExecuteCopies
<1>2. PICK s \in Seq(Handles \cup {Closed}) :
        /\ Len(s) <= MaxDescriptors
        /\ fileDescriptors' = [fileDescriptors EXCEPT ![w] = s]
        /\ handle' = Counted(s)
        /\ \A d \in DOMAIN s :
             s[d] # Closed => d \in Slots(v) /\ fileDescriptors[v][d] = s[d]
  BY Zenon, ExecuteCopies
<1>3. /\ task' \in [Vfs -> {"none", "runs", "gone"}] /\ task'[w] = "runs"
      /\ \A u \in Vfs \ {w} : task'[u] = "none" => task[u] = "none"
  BY Zenon, <1>1 DEF FInv, Types
<1>4. QED
  BY Zenon, <1>1, <1>2, <1>3, CopyKeepsFInv

-----------------------------------------------------------------------------

(* At boot no file is open.                                                *)
LEMMA InitFInv == Init => FInv
<1> SUFFICES ASSUME Init PROVE FInv
  BY Zenon
<1>1. Free \in FileHandle /\ Free.vnode = NoNode /\ Free.offset = 0
  BY FileAssumption DEF Free, FileHandle
<1>2. /\ \A v \in Vfs : fileDescriptors[v] = <<>>
      /\ \A h \in Handles : handle[h] = Free
  BY Zenon DEF Init
<1>3. {0, 1, Missing} \subseteq 0..Missing
  BY FileAssumption DEF Missing
<1>4. Types
  <2>1. fileDescriptors \in [Vfs -> Seq(Handles \cup {Closed})] /\ handle \in [Handles -> FileHandle]
    BY <1>1 DEF Init
  <2>2. fileSize \in [Nodes -> 0..Missing] /\ task \in [Vfs -> {"none", "runs", "gone"}]
    BY Zenon, <1>3 DEF Init
  <2>3. QED
    BY Zenon, <2>1, <2>2 DEF Types
<1>5. Tables /\ Positions
  BY <1>1, <1>2, FileAssumption DEF Tables, Positions
<1>6. TerminalsAreEmpty /\ TerminalHasNoPosition
  BY Zenon DEF Init, TerminalsAreEmpty, TerminalHasNoPosition
<1>7. RefCountsAreExact
  <2>1. \A h : Referring(h) = {}
    BY <1>2 DEF Referring, Slots
  <2>2. QED
    BY Zenon, <1>1, <1>2, <2>1, FS_EmptySet DEF RefCountsAreExact
<1>8. QED
  BY Zenon, <1>4, <1>5, <1>6, <1>7 DEF FInv

(* Every system call keeps the invariant.                                  *)
LEMMA NextKeepsFInv == FInv /\ [Next]_vars => FInv'
<1> SUFFICES ASSUME FInv, [Next]_vars PROVE FInv'
  BY Zenon
<1>1. CASE UNCHANGED vars
  <2>1. Types' /\ Tables' /\ Positions' /\ TerminalsAreEmpty' /\ TerminalHasNoPosition'
    BY Zenon, <1>1 DEF vars, FInv, Types, Tables, Positions, TerminalsAreEmpty, TerminalHasNoPosition
  <2>2. RefCountsAreExact'
    BY Zenon, <1>1, ReferringKept DEF vars, FInv, RefCountsAreExact
  <2>3. QED
    BY Zenon, <2>1, <2>2 DEF FInv
<1>2. ASSUME NEW v \in Vfs, NEW n \in Nodes, Stat(v, n) PROVE FInv'
  BY Zenon, <1>2, StatKeepsFInv
<1>3. ASSUME NEW v \in Vfs, NEW n \in Nodes, NEW f \in OpenFlags, NEW h \in Handles,
             Open(v, n, f, h) \/ OpenFails(v, n, f, h)
      PROVE  FInv'
  BY Zenon, <1>3, OpenKeepsFInv, OpenFailsKeepsFInv
<1>4. ASSUME NEW v \in Vfs, NEW d \in 1..MaxDescriptors,
             \/ Close(v, d) \/ ReadDirectory(v, d) \/ DeviceRead(v, d) \/ DeviceWrite(v, d)
             \/ \E k \in Counts : Read(v, d, k) \/ Write(v, d, k)
             \/ \E offset \in 0..MaxOffset : RepositionOffset(v, d, offset)
      PROVE  FInv'
  BY Zenon, <1>4, CloseKeepsFInv, PositionsKeepFInv, WriteKeepsFInv
<1>5. ASSUME NEW v \in Vfs, NEW w \in Vfs,
             Fork(v, w) \/ \E opened \in 1..2 : Execute(v, w, opened)
      PROVE  FInv'
  BY <1>5, ForkKeepsFInv, ExecuteKeepsFInv
<1>6. QED
  BY Zenon, <1>1, <1>2, <1>3, <1>4, <1>5 DEF Next

(* The invariant holds in every reachable state.                           *)
LEMMA SpecFInv == Spec => []FInv
BY InitFInv, NextKeepsFInv, PTL DEF Spec

(* Open, Close, the copies of fork and exec, and failed opens: a refCount  *)
(* is the number of descriptors that refer to the handle, whatever the     *)
(* number of tasks, descriptors and handles.                               *)
THEOREM RefCountsStayExact == Spec => []RefCountsAreExact
<1>1. FInv => RefCountsAreExact
  BY Zenon DEF FInv
<1>2. QED
  BY <1>1, SpecFInv, PTL

(* The terminal's Assert on the position never fails, whatever programs    *)
(* open, seek, write and inherit.                                          *)
THEOREM TerminalStaysAtZero == Spec => []TerminalHasNoPosition
<1>1. FInv => TerminalHasNoPosition
  BY Zenon DEF FInv
<1>2. QED
  BY <1>1, SpecFInv, PTL

-----------------------------------------------------------------------------
(* The refinement of OpenFiles.  The entries of Table are the references:  *)
(* what a step does to Referring is what it does to Table.                 *)

Entries ==
  /\ Table \in [Vfs -> [1..MaxDescriptors -> Handles \cup {Closed}]]
  /\ Offset \in [Handles -> 0..MaxOffset]
  /\ \A v \in Vfs : \A d \in 1..MaxDescriptors : \A h \in Handles :
       Table[v][d] = h <=> <<v, d>> \in Referring(h)
  /\ \A h \in Handles : /\ handle[h].vnode = NoNode <=> Referring(h) = {}
                        /\ handle[h].vnode = NoNode => handle[h].offset = 0

(* Descriptors that are not present appear as closed, present ones refer   *)
(* to their handle.                                                        *)
LEMMA FInvEntries == FInv => Entries
<1> SUFFICES ASSUME FInv PROVE Entries
  OBVIOUS
<1>1. Types /\ Tables
  BY Zenon DEF FInv
<1>2. ASSUME NEW v \in Vfs, NEW d \in 1..MaxDescriptors
      PROVE  /\ Table[v][d] = IF Present(v, d) THEN fileDescriptors[v][d] ELSE Closed
             /\ Present(v, d) => fileDescriptors[v][d] \in Handles
             /\ \A h \in Handles : Table[v][d] = h <=> <<v, d>> \in Referring(h)
  <2>1. Table[v][d] = IF Present(v, d) THEN fileDescriptors[v][d] ELSE Closed
    BY Zenon DEF Table
  <2>2. Present(v, d) => fileDescriptors[v][d] \in Handles
    BY Zenon, PresentProperties
  <2>3. ASSUME NEW h \in Handles PROVE Table[v][d] = h <=> <<v, d>> \in Referring(h)
    <3>1. <<v, d>> \in Referring(h) <=> d \in Slots(v) /\ fileDescriptors[v][d] = h
      BY Zenon DEF Referring
    <3>2. h # Closed
      BY Zenon, FileAssumption
    <3>3. QED
      BY Zenon, <2>1, <3>1, <3>2 DEF Present
  <2>4. QED
    BY Zenon, <2>1, <2>2, <2>3
<1>3. Table \in [Vfs -> [1..MaxDescriptors -> Handles \cup {Closed}]]
  BY Zenon, <1>2 DEF Table
<1>4. \A h \in Handles : handle[h].offset \in 0..MaxOffset
  BY Zenon, <1>1 DEF Types, FileHandle
<1>5. Offset \in [Handles -> 0..MaxOffset]
  BY Zenon, <1>4 DEF Offset
<1>6. \A h \in Handles : /\ handle[h].vnode = NoNode <=> Referring(h) = {}
                         /\ handle[h].vnode = NoNode => handle[h].offset = 0
  <2>1. \A h \in Handles : handle[h].vnode = NoNode <=> Referring(h) = {}
    BY Zenon, UnusedProperties
  <2>2. \A h \in Handles : handle[h].vnode = NoNode => handle[h].offset = 0
    BY Zenon DEF FInv, Positions
  <2>3. QED
    BY Zenon, <2>1, <2>2
<1>7. QED
  BY Zenon, <1>2, <1>3, <1>5, <1>6 DEF Entries

(* The same after a step.                                                  *)
LEMMA FInvEntriesNext == FInv' => Entries'
BY FInvEntries, PTL

(* Two tables with the same references are equal.                          *)
LEMMA SameEntries ==
  ASSUME NEW S \in [Vfs -> [1..MaxDescriptors -> Handles \cup {Closed}]],
         NEW T \in [Vfs -> [1..MaxDescriptors -> Handles \cup {Closed}]],
         \A v \in Vfs : \A d \in 1..MaxDescriptors : \A h \in Handles :
           S[v][d] = h <=> T[v][d] = h
  PROVE  S = T
<1> DEFINE D == 1..MaxDescriptors
           R == Handles \cup {Closed}
<1> HIDE DEF D, R
<1>1. ASSUME NEW v \in Vfs PROVE S[v] = T[v]
  <2>1. S[v] \in [D -> R] /\ T[v] \in [D -> R]
    BY Zenon DEF D, R
  <2>2. \A d \in D : S[v][d] \in R /\ T[v][d] \in R
    BY Zenon, <2>1
  <2>3. \A d \in D : S[v][d] = T[v][d]
    BY <2>2 DEF D, R
  <2>4. QED
    BY <2>1, <2>3
<1>2. S \in [Vfs -> [D -> R]] /\ T \in [Vfs -> [D -> R]]
  BY Zenon DEF D, R
<1>3. QED
  BY <1>1, <1>2

(* The table that the references after a step make up.                     *)
LEMMA TableBecomes ==
  ASSUME FInv', NEW T \in [Vfs -> [1..MaxDescriptors -> Handles \cup {Closed}]],
         \A v \in Vfs : \A d \in 1..MaxDescriptors : \A h \in Handles :
           T[v][d] = h <=> <<v, d>> \in Referring(h)'
  PROVE  Table' = T
<1>1. Entries'
  BY Zenon, FInvEntriesNext
<1>2. Table' \in [Vfs -> [1..MaxDescriptors -> Handles \cup {Closed}]]
  BY Zenon, <1>1 DEF Entries
<1>3. \A v \in Vfs : \A d \in 1..MaxDescriptors : \A h \in Handles :
        Table'[v][d] = h <=> <<v, d>> \in Referring(h)'
  BY Zenon, <1>1 DEF Entries
<1>4. PICK S : S = Table'
  BY Zenon
<1>5. S \in [Vfs -> [1..MaxDescriptors -> Handles \cup {Closed}]]
  BY Zenon, <1>2, <1>4
<1>6. \A v \in Vfs : \A d \in 1..MaxDescriptors : \A h \in Handles :
        S[v][d] = h <=> T[v][d] = h
  <2>1. \A v \in Vfs : \A d \in 1..MaxDescriptors : \A h \in Handles :
          S[v][d] = h <=> <<v, d>> \in Referring(h)'
    BY Zenon, <1>3, <1>4
  <2>2. QED
    BY ZenonT(30), <2>1
<1>7. S = T
  BY SMTT(30), <1>5, <1>6, SameEntries
<1>8. QED
  BY Zenon, <1>4, <1>7

(* A step that keeps the references keeps the table.                       *)
LEMMA TableKept ==
  ASSUME FInv, FInv', \A h \in Handles : Referring(h)' = Referring(h)
  PROVE  Table' = Table
<1>1. Entries
  BY Zenon, FInvEntries
<1>2. ASSUME NEW v \in Vfs, NEW d \in 1..MaxDescriptors, NEW h \in Handles
      PROVE  Table[v][d] = h <=> <<v, d>> \in Referring(h)'
  <2>1. Referring(h)' = Referring(h)
    BY Zenon
  <2>2. Table[v][d] = h <=> <<v, d>> \in Referring(h)
    BY Zenon, <1>1 DEF Entries
  <2>3. QED
    BY Zenon, <2>1, <2>2
<1>3. Table \in [Vfs -> [1..MaxDescriptors -> Handles \cup {Closed}]]
  BY Zenon, <1>1 DEF Entries
<1>4. QED
  BY Zenon, <1>2, <1>3, TableBecomes

(* One entry of a table is replaced.                                       *)
LEMMA EntryReplaced ==
  ASSUME NEW T \in [Vfs -> [1..MaxDescriptors -> Handles \cup {Closed}]],
         NEW v \in Vfs, NEW d \in 1..MaxDescriptors, NEW x \in Handles \cup {Closed}
  PROVE  LET U == [T EXCEPT ![v][d] = x] IN
           /\ U \in [Vfs -> [1..MaxDescriptors -> Handles \cup {Closed}]]
           /\ \A u \in Vfs : \A e \in 1..MaxDescriptors :
                U[u][e] = IF u = v /\ e = d THEN x ELSE T[u][e]
<1> DEFINE D == 1..MaxDescriptors
           R == Handles \cup {Closed}
           U == [T EXCEPT ![v][d] = x]
<1>1. T \in [Vfs -> [D -> R]] /\ d \in D /\ x \in R
  BY Zenon
<1> HIDE DEF D, R
<1>2. U \in [Vfs -> [D -> R]]
  BY Zenon, <1>1
<1>3. \A u \in Vfs : \A e \in D : U[u][e] = IF u = v /\ e = d THEN x ELSE T[u][e]
  BY Zenon, <1>1
<1>4. QED
  BY Zenon, <1>2, <1>3 DEF D, R

(* Offsets change only where a step writes them.                           *)
LEMMA OffsetKept ==
  ASSUME \A h \in Handles : handle'[h].offset = handle[h].offset
  PROVE  Offset' = Offset
BY Zenon DEF Offset

(* Stat and a failed Open leave the descriptors as they were.              *)
LEMMA StatStutters ==
  ASSUME FInv, FInv', NEW v \in Vfs, NEW n \in Nodes,
         Stat(v, n) \/ \E f \in OpenFlags, h \in Handles : OpenFails(v, n, f, h)
  PROVE  Table' = Table /\ Offset' = Offset
<1>1. /\ WithinHeap(v) /\ fileDescriptors' = [fileDescriptors EXCEPT ![v] = Grown(v)]
      /\ \/ handle' = handle
         \/ \E h \in Handles : handle' = [handle EXCEPT ![h].refCount = 1]
  BY Zenon DEF Stat, OpenFails
<1>2. Types /\ Tables
  BY Zenon DEF FInv
<1>3. \A h \in Handles : Referring(h)' = Referring(h)
  BY Zenon, <1>1, <1>2, GrownStep
<1>4. \A h \in Handles : handle'[h].offset = handle[h].offset
  BY ZenonT(30), <1>1, <1>2 DEF Types, FileHandle
<1>5. QED
  BY Zenon, <1>3, <1>4, TableKept, OffsetKept

(* Open refers to a file that no descriptor referred to.                   *)
LEMMA OpenRefines ==
  ASSUME FInv, FInv', NEW v \in Vfs, NEW n \in Nodes, NEW f \in OpenFlags, NEW h \in Handles,
         Open(v, n, f, h)
  PROVE  Abstract!Open(v, FreeDescriptor(v), h) /\ FreeDescriptor(v) \in 1..MaxDescriptors
<1>0. PICK d : d = FreeDescriptor(v)
  BY Zenon
<1>1. /\ WithinHeap(v) /\ handle[h].refCount = 0
      /\ fileDescriptors' = [fileDescriptors EXCEPT
                               ![v] = [Grown(v) EXCEPT ![FreeDescriptor(v)] = h]]
      /\ handle' = [handle EXCEPT ![h] =
                      [refCount |-> 1, vnode |-> n, offset |-> 0, flags |-> Flags(f)]]
  BY Zenon DEF Open
<1>2. Types /\ Tables /\ Entries
  BY Zenon, FInvEntries DEF FInv
<1>3. /\ Referring(h)' = Referring(h) \cup {<<v, d>>}
      /\ \A g \in Handles \ {h} : Referring(g)' = Referring(g)
  BY Zenon, <1>0, <1>1, OpenReferences
<1>4. d \in 1..MaxDescriptors /\ ~Present(v, d)
  <2>1. /\ d \in DOMAIN Grown(v) /\ Grown(v) \in Seq(Handles \cup {Closed})
        /\ d \in Slots(v) => fileDescriptors[v][d] = Closed
    BY Zenon, <1>0, <1>2, GrownProperties
  <2>2. Len(Grown(v)) <= MaxDescriptors
    BY Zenon, <1>1 DEF WithinHeap
  <2>3. QED
    BY <2>1, <2>2, FileAssumption DEF Present
<1>5. Table[v][d] = Closed
  BY Zenon, <1>4 DEF Table
<1>6. Referring(h) = {}
  BY Zenon, <1>1, UnusedProperties
<1>7. \A u \in Vfs : \A e \in 1..MaxDescriptors : Table[u][e] # h
  BY Zenon, <1>2, <1>6 DEF Entries
<1>8. Table' = [Table EXCEPT ![v][d] = h]
  <2>1. Table \in [Vfs -> [1..MaxDescriptors -> Handles \cup {Closed}]]
    BY Zenon, <1>2 DEF Entries
  <2>2. PICK T : T = [Table EXCEPT ![v][d] = h]
    BY Zenon
  <2>3. /\ T \in [Vfs -> [1..MaxDescriptors -> Handles \cup {Closed}]]
        /\ \A u \in Vfs : \A e \in 1..MaxDescriptors :
             T[u][e] = IF u = v /\ e = d THEN h ELSE Table[u][e]
    BY <1>4, <2>1, <2>2, EntryReplaced
  <2>4. ASSUME NEW u \in Vfs, NEW e \in 1..MaxDescriptors, NEW g \in Handles
        PROVE  T[u][e] = g <=> <<u, e>> \in Referring(g)'
    <3>1. T[u][e] = IF u = v /\ e = d THEN h ELSE Table[u][e]
      BY Zenon, <2>3
    <3>2. Table[u][e] = g <=> <<u, e>> \in Referring(g)
      BY Zenon, <1>2 DEF Entries
    <3>3. CASE g = h
      <4>1. <<u, e>> \in Referring(g)' <=> u = v /\ e = d
        BY Zenon, <1>3, <1>6, <3>3
      <4>2. QED
        BY Zenon, <1>7, <3>1, <3>3, <4>1
    <3>4. CASE g # h
      <4>1. Referring(g)' = Referring(g)
        BY Zenon, <1>3, <3>4
      <4>2. <<u, e>> \in Referring(g)' <=> Table[u][e] = g
        BY Zenon, <3>2, <4>1
      <4>3. Table[v][d] # g
        BY Zenon, <1>5, FileAssumption
      <4>4. QED
        BY Zenon, <3>1, <3>4, <4>2, <4>3
    <3>5. QED
      BY Zenon, <3>3, <3>4
  <2>5. Table' = T
    BY Zenon, <2>3, <2>4, TableBecomes
  <2>6. QED
    BY Zenon, <2>2, <2>5
<1>9. Offset' = [Offset EXCEPT ![h] = 0]
  BY Zenon, <1>1, <1>2 DEF Offset, Types, FileHandle
<1>10. QED
  BY Zenon, <1>0, <1>4, <1>5, <1>7, <1>8, <1>9 DEF Abstract!Open, Abstract!Referenced

(* Close forgets the offset with the last reference.                       *)
LEMMA CloseRefines ==
  ASSUME FInv, FInv', NEW v \in Vfs, NEW d \in 1..MaxDescriptors, Close(v, d)
  PROVE  Abstract!Close(v, d)
<1>0. PICK h : h = fileDescriptors[v][d]
  BY Zenon
<1>1. Present(v, d) /\ handle' = [handle EXCEPT ![h] = Released(h)]
  BY Zenon, <1>0 DEF Close
<1>2. Types /\ Tables /\ Entries /\ Positions
  BY Zenon, FInvEntries DEF FInv
<1>3. h \in Handles /\ Table[v][d] = h /\ h # Closed
  BY Zenon, <1>0, <1>1, PresentProperties, FileAssumption DEF Table
<1>4. \A g \in Handles : Referring(g)' = Referring(g) \ {<<v, d>>}
  BY Zenon, CloseReferences
<1>5. Table' = [Table EXCEPT ![v][d] = Closed]
  <2>1. Table \in [Vfs -> [1..MaxDescriptors -> Handles \cup {Closed}]]
    BY Zenon, <1>2 DEF Entries
  <2>2. PICK T : T = [Table EXCEPT ![v][d] = Closed]
    BY Zenon
  <2>3. /\ T \in [Vfs -> [1..MaxDescriptors -> Handles \cup {Closed}]]
        /\ \A u \in Vfs : \A e \in 1..MaxDescriptors :
             T[u][e] = IF u = v /\ e = d THEN Closed ELSE Table[u][e]
    BY SMTT(30), <2>1, <2>2, EntryReplaced
  <2>4. ASSUME NEW u \in Vfs, NEW e \in 1..MaxDescriptors, NEW g \in Handles
        PROVE  T[u][e] = g <=> <<u, e>> \in Referring(g)'
    <3>1. T[u][e] = IF u = v /\ e = d THEN Closed ELSE Table[u][e]
      BY Zenon, <2>3
    <3>2. Table[u][e] = g <=> <<u, e>> \in Referring(g)
      BY Zenon, <1>2 DEF Entries
    <3>3. <<u, e>> \in Referring(g)' <=> <<u, e>> \in Referring(g) /\ ~(u = v /\ e = d)
      BY Zenon, <1>4
    <3>4. g # Closed
      BY Zenon, FileAssumption
    <3>5. QED
      BY Zenon, <3>1, <3>2, <3>3, <3>4
  <2>5. Table' = T
    BY Zenon, <2>3, <2>4, TableBecomes
  <2>6. QED
    BY Zenon, <2>2, <2>5
<1>6. ASSUME NEW g \in Handles
      PROVE  handle'[g].offset =
               IF \E q \in Vfs, e \in 1..MaxDescriptors : <<q, e>> # <<v, d>> /\ Table[q][e] = g
               THEN handle[g].offset ELSE 0
  <2>1. (\E q \in Vfs, e \in 1..MaxDescriptors : <<q, e>> # <<v, d>> /\ Table[q][e] = g)
          <=> Referring(g)' # {}
    <3>1. \A r \in Referring(g) : \E q \in Vfs, e \in 1..MaxDescriptors : r = <<q, e>>
      BY DEF Referring
    <3>2. \A q \in Vfs : \A e \in 1..MaxDescriptors :
            Table[q][e] = g <=> <<q, e>> \in Referring(g)
      BY Zenon, <1>2 DEF Entries
    <3>3. Referring(g)' = Referring(g) \ {<<v, d>>}
      BY Zenon, <1>4
    <3>4. ASSUME NEW q \in Vfs, NEW e \in 1..MaxDescriptors, <<q, e>> # <<v, d>>, Table[q][e] = g
          PROVE  <<q, e>> \in Referring(g)'
      BY Zenon, <3>2, <3>3, <3>4
    <3>5. ASSUME NEW r \in Referring(g)'
          PROVE  \E q \in Vfs, e \in 1..MaxDescriptors : <<q, e>> # <<v, d>> /\ Table[q][e] = g
      <4>1. r \in Referring(g) /\ r # <<v, d>>
        BY Zenon, <3>3
      <4>2. PICK q \in Vfs, e \in 1..MaxDescriptors : r = <<q, e>>
        BY Zenon, <3>1, <4>1
      <4>3. QED
        BY Zenon, <3>2, <4>1, <4>2
    <3>6. QED
      BY Zenon, <3>4, <3>5
  <2>2. handle'[g].vnode = NoNode => Referring(g)' = {} /\ handle'[g].offset = 0
    BY Zenon, FInvEntriesNext DEF Entries
  <2>3. handle'[g].vnode # NoNode => Referring(g)' # {} /\ handle'[g].offset = handle[g].offset
    <3>1. handle'[g].vnode # NoNode => Referring(g)' # {}
      BY Zenon, FInvEntriesNext DEF Entries
    <3>2. handle'[g] = IF g = h THEN Released(h) ELSE handle[g]
      BY Zenon, <1>1, <1>2 DEF Types
    <3>3. handle[h] \in FileHandle /\ Free.vnode = NoNode
      BY Zenon, <1>2, <1>3 DEF Types, Free
    <3>4. handle'[g].vnode # NoNode => handle'[g].offset = handle[g].offset
      BY Zenon, <3>2, <3>3 DEF Released, FileHandle
    <3>5. QED
      BY Zenon, <3>1, <3>4
  <2>4. QED
    BY Zenon, <2>1, <2>2, <2>3
<1>7. Offset' = [g \in Handles |->
        IF \E q \in Vfs, e \in 1..MaxDescriptors : <<q, e>> # <<v, d>> /\ Table[q][e] = g
        THEN Offset[g] ELSE 0]
  BY Zenon, <1>6 DEF Offset
<1>8. QED
  BY Zenon, <1>3, <1>5, <1>7 DEF Abstract!Close

(* Read, Write and Seek move the offset of one file; a panic moves none.   *)
LEMMA MoveRefines ==
  ASSUME FInv, FInv', NEW v \in Vfs, NEW d \in 1..MaxDescriptors,
         \/ ReadDirectory(v, d) \/ DeviceRead(v, d) \/ DeviceWrite(v, d)
         \/ \E k \in Counts : Read(v, d, k) \/ Write(v, d, k)
         \/ \E offset \in 0..MaxOffset : RepositionOffset(v, d, offset)
  PROVE  Table' = Table /\ (Offset' = Offset \/ Abstract!Move(v, d))
<1>1. /\ Present(v, d) /\ fileDescriptors' = fileDescriptors
      /\ \/ handle' = handle
         \/ \E o : SetOffset(v, d, o)
  BY Zenon DEF ReadDirectory, DeviceRead, DeviceWrite, Read, Write, RepositionOffset
<1>2. Table' = Table
  BY Zenon, <1>1, ReferringKept, TableKept
<1>3. PICK h : h = fileDescriptors[v][d]
  BY Zenon
<1>4. h \in Handles /\ Table[v][d] = h /\ h # Closed
  BY Zenon, <1>1, <1>3, PresentProperties, FileAssumption DEF Table
<1>5. handle \in [Handles -> FileHandle]
  BY Zenon DEF FInv, Types
<1>6. CASE handle' = handle
  BY Zenon, <1>2, <1>6 DEF Offset
<1>7. ASSUME NEW o, SetOffset(v, d, o)
      PROVE  Abstract!Move(v, d)
  <2>1. handle' = [handle EXCEPT ![h].offset = o]
    BY Zenon, <1>3, <1>7 DEF SetOffset
  <2>2. Offset' = [Offset EXCEPT ![h] = o]
    BY Zenon, <1>4, <1>5, <2>1 DEF Offset, FileHandle
  <2>3. o \in 0..MaxOffset
    <3>1. Offset' \in [Handles -> 0..MaxOffset]
      BY Zenon, FInvEntriesNext DEF Entries
    <3>2. Offset'[h] = o
      BY Zenon, <1>4, <2>2 DEF Offset
    <3>3. QED
      BY Zenon, <1>4, <3>1, <3>2
  <2>4. QED
    BY Zenon, <1>2, <1>4, <2>2, <2>3 DEF Abstract!Move
<1>8. QED
  BY Zenon, <1>1, <1>2, <1>6, <1>7

(* The copies of fork and exec share the files of their origin.            *)
LEMMA CopyRefines ==
  ASSUME FInv, FInv', NEW v \in Vfs, NEW w \in Vfs, task[w] = "none",
         NEW s \in Seq(Handles \cup {Closed}), Len(s) <= MaxDescriptors,
         fileDescriptors' = [fileDescriptors EXCEPT ![w] = s],
         \A d \in DOMAIN s : s[d] # Closed => d \in Slots(v) /\ fileDescriptors[v][d] = s[d],
         handle' = Counted(s)
  PROVE  Abstract!Inherit(v, w)
<1> DEFINE D == 1..MaxDescriptors
           kept == {d \in DOMAIN s : s[d] # Closed}
<1>1. Types /\ Tables /\ Entries
  BY Zenon, FInvEntries DEF FInv
<1>2. fileDescriptors[w] = <<>>
  BY Zenon, <1>1 DEF Tables
<1>3. Table[w] = [d \in D |-> Closed]
  <2>1. \A d \in D : ~Present(w, d)
    BY <1>2 DEF Present, Slots
  <2>2. QED
    BY Zenon, <2>1 DEF Table
<1>4. Offset' = Offset
  <2>1. \A h \in Handles : handle'[h].offset = handle[h].offset
    BY Zenon, <1>1 DEF Counted, Types, FileHandle
  <2>2. QED
    BY Zenon, <2>1, OffsetKept
<1>5. kept \in SUBSET D
  BY FileAssumption
<1>6. \A d \in kept : Table[v][d] = s[d]
  BY Zenon, <1>5 DEF Table, Present
<1>7. Table' = [Table EXCEPT ![w] = [d \in D |-> IF d \in kept THEN Table[v][d] ELSE Closed]]
  <2>1. \A d \in D : Present(w, d)' <=> d \in kept
    BY Zenon, <1>1, TableStep DEF Present, Slots
  <2>2. \A d \in D : Table'[w][d] = IF d \in kept THEN Table[v][d] ELSE Closed
    BY Zenon, <1>1, <1>6, <2>1, TableStep DEF Table
  <2>3. \A u \in Vfs \ {w} : Table'[u] = Table[u]
    BY <1>1, TableStep DEF Table, Present, Slots
  <2>4. PICK K : K = [d \in D |-> IF d \in kept THEN Table[v][d] ELSE Closed]
    BY Zenon
  <2>5. Table'[w] = K
    <3>1. Table'[w] = [d \in D |-> Table'[w][d]]
      BY DEF Table
    <3>2. QED
      BY Zenon, <2>2, <2>4, <3>1
  <2>6. Table = [u \in Vfs |-> Table[u]] /\ Table' = [u \in Vfs |-> Table'[u]]
    BY Zenon DEF Table
  <2>7. Table' = [Table EXCEPT ![w] = K]
    BY Zenon, <2>3, <2>5, <2>6
  <2>8. QED
    BY Zenon, <2>4, <2>7
<1>8. QED
  BY Zenon, <1>3, <1>4, <1>5, <1>7 DEF Abstract!Inherit

(* At boot every descriptor is closed and every file at offset 0.          *)
LEMMA InitRefines == Init => Abstract!Init
<1> SUFFICES ASSUME Init PROVE Abstract!Init
  OBVIOUS
<1>1. \A v \in Vfs : \A d : ~Present(v, d)
  BY DEF Init, Present, Slots
<1>2. \A h \in Handles : handle[h].offset = 0
  BY Zenon DEF Init, Free
<1>3. Table = [v \in Vfs |-> [d \in 1..MaxDescriptors |-> Closed]]
  BY Zenon, <1>1 DEF Table
<1>4. Offset = [h \in Handles |-> 0]
  BY Zenon, <1>2 DEF Offset
<1>5. QED
  BY Zenon, <1>3, <1>4 DEF Abstract!Init

(* Every system call is a step of OpenFiles, or changes nothing that       *)
(* programs see of their descriptors.                                      *)
LEMMA NextRefines == FInv /\ FInv' /\ [Next]_vars => [Abstract!Next]_(Abstract!vars)
<1> SUFFICES ASSUME FInv, FInv', [Next]_vars
             PROVE  Abstract!Next \/ (Table' = Table /\ Offset' = Offset)
  BY Zenon DEF Abstract!vars
<1>1. CASE UNCHANGED vars
  BY Zenon, <1>1 DEF vars, Table, Offset, Present, Slots
<1>2. ASSUME NEW v \in Vfs, NEW n \in Nodes,
             Stat(v, n) \/ \E f \in OpenFlags, h \in Handles : OpenFails(v, n, f, h)
      PROVE  Table' = Table /\ Offset' = Offset
  BY Zenon, <1>2, StatStutters
<1>3. ASSUME NEW v \in Vfs, NEW n \in Nodes, NEW f \in OpenFlags, NEW h \in Handles,
             Open(v, n, f, h)
      PROVE  Abstract!Next
  <2>1. Abstract!Open(v, FreeDescriptor(v), h) /\ FreeDescriptor(v) \in 1..MaxDescriptors
    BY Zenon, <1>3, OpenRefines
  <2>2. QED
    BY Zenon, <2>1 DEF Abstract!Next
<1>4. ASSUME NEW v \in Vfs, NEW d \in 1..MaxDescriptors, Close(v, d)
      PROVE  Abstract!Next
  <2>1. Abstract!Close(v, d)
    BY Zenon, <1>4, CloseRefines
  <2>2. QED
    BY Zenon, <2>1 DEF Abstract!Next
<1>5. ASSUME NEW v \in Vfs, NEW d \in 1..MaxDescriptors,
             \/ ReadDirectory(v, d) \/ DeviceRead(v, d) \/ DeviceWrite(v, d)
             \/ \E k \in Counts : Read(v, d, k) \/ Write(v, d, k)
             \/ \E offset \in 0..MaxOffset : RepositionOffset(v, d, offset)
      PROVE  Abstract!Next \/ (Table' = Table /\ Offset' = Offset)
  <2>1. Table' = Table /\ (Offset' = Offset \/ Abstract!Move(v, d))
    BY Zenon, <1>5, MoveRefines
  <2>2. QED
    BY Zenon, <2>1 DEF Abstract!Next
<1>6. ASSUME NEW v \in Vfs, NEW w \in Vfs, Fork(v, w)
      PROVE  Abstract!Next
  <2>1. /\ task[w] = "none" /\ handle' = Counted(fileDescriptors[v])
        /\ fileDescriptors' = [fileDescriptors EXCEPT ![w] = fileDescriptors[v]]
    BY Zenon, <1>6 DEF Fork
  <2>2. /\ fileDescriptors[v] \in Seq(Handles \cup {Closed})
        /\ Len(fileDescriptors[v]) <= MaxDescriptors
        /\ Slots(v) = DOMAIN fileDescriptors[v]
    BY Zenon, SlotProperties DEF FInv, Tables, Slots
  <2>3. Abstract!Inherit(v, w)
    BY Zenon, <2>1, <2>2, CopyRefines
  <2>4. QED
    BY Zenon, <2>3 DEF Abstract!Next
<1>7. ASSUME NEW v \in Vfs, NEW w \in Vfs, NEW opened \in 1..2, Execute(v, w, opened)
      PROVE  Abstract!Next
  <2>1. opened \in Nat
    OBVIOUS
  <2>2. task[w] = "none"
    BY Zenon, <1>7, <2>1, ExecuteCopies
  <2>3. PICK s \in Seq(Handles \cup {Closed}) :
          /\ Len(s) <= MaxDescriptors
          /\ fileDescriptors' = [fileDescriptors EXCEPT ![w] = s]
          /\ handle' = Counted(s)
          /\ \A d \in DOMAIN s :
               s[d] # Closed => d \in Slots(v) /\ fileDescriptors[v][d] = s[d]
    BY Zenon, <1>7, <2>1, ExecuteCopies
  <2>4. Abstract!Inherit(v, w)
    BY Zenon, <2>2, <2>3, CopyRefines
  <2>5. QED
    BY Zenon, <2>4 DEF Abstract!Next
<1>8. QED
  BY Zenon, <1>1, <1>2, <1>3, <1>4, <1>5, <1>6, <1>7 DEF Next

(* Open, Close, Read, Write, Seek, fork and exec implement OpenFiles: an   *)
(* offset belongs to one Open and to the copies made of its descriptor,    *)
(* whatever the number of tasks, descriptors and handles.                  *)
THEOREM DescriptorsImplementOpenFiles == Spec => ImplementsOpenFiles
<1>1. FInv /\ FInv' /\ [Next]_vars => [Abstract!Next]_(Abstract!vars)
  BY Zenon, NextRefines
<1>2. QED
  BY <1>1, SpecFInv, InitRefines, PTL DEF Spec, ImplementsOpenFiles, Abstract!Spec

=============================================================================
