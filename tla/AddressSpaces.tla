--------------------------- MODULE AddressSpaces ---------------------------
(***************************************************************************)
(* What the kernel promises a process about its memory: an address space   *)
(* of its own, from addresses to bytes, which only its own stores, maps    *)
(* and program loads change, and which a fork copies as it is.  After the  *)
(* kernel has stopped nothing is promised any more.                        *)
(***************************************************************************)
EXTENDS Integers, Sequences

CONSTANTS
  Processes, Pages,
  Zero, Junk, Unmapped, NoSpace,
  PageSize, RTDL_ADDR,
  StackPages,       \* the pages of the user stack
  Images, NoImage,
  Bytes, StoreAddrs, Lengths

VARIABLES
  space,            \* per process: NoSpace, or the bytes of each page
  start,            \* per process: where the program begins
  stopped

Init ==
  /\ space = [p \in Processes |-> NoSpace]
  /\ start = [p \in Processes |-> 0]
  /\ stopped = FALSE

Live(p) == space[p] # NoSpace
Offsets == 0..(PageSize - 1)
Nothing == [k \in Offsets |-> Unmapped]

-----------------------------------------------------------------------------
(* Programs.  An image is [type, entry, segments, interpreter]; a segment  *)
(* is [virtAddr, bytes, memorySize].                                       *)

Base(image) == IF image.type = "shared" THEN RTDL_ADDR ELSE 0

(* The pages of a segment: as many as its size alone needs, from the page  *)
(* of its first byte.  A segment that begins inside a page may reach       *)
(* further; what is behind does not belong to the process.                 *)
Extent(image, seg) ==
  LET first == Base(image) + seg.virtAddr
      low == first - (first % PageSize)
  IN low..(low + PageSize * ((seg.memorySize + PageSize - 1) \div PageSize) - 1)

Segments(image) == {image.segments[i] : i \in DOMAIN image.segments}

(* The byte of the image at an address.                                    *)
ByteOf(image, a) ==
  LET within == {seg \in Segments(image) : a \in Extent(image, seg)}
      seg == CHOOSE s \in within : TRUE
      k == a - Base(image) - seg.virtAddr + 1
  IN IF within = {} THEN Unmapped
     ELSE IF k \in DOMAIN seg.bytes THEN seg.bytes[k] ELSE Zero

LoadedByte(image, a) ==
  IF ByteOf(image, a) = Unmapped /\ image.interpreter # NoImage
  THEN ByteOf(image.interpreter, a) ELSE ByteOf(image, a)

(* The dynamic linker starts first.                                        *)
Start(image) ==
  LET first == IF image.interpreter = NoImage THEN image ELSE image.interpreter
  IN Base(first) + first.entry

(* The stack's frames are mapped as they are.                              *)
Load(p, image) ==
  /\ start'[p] = Start(image)
  /\ space'[p] = [page \in Pages |-> [k \in Offsets |->
       IF page \in StackPages THEN Junk ELSE LoadedByte(image, page * PageSize + k)]]

-----------------------------------------------------------------------------
Fork(p, q) ==
  /\ Live(p) /\ ~Live(q)
  /\ space'[q] = space[p]
  /\ start'[q] = start[p]

(* Zeroed pages where nothing was mapped, one behind the other.  What lies *)
(* beyond the user's half is not the process's.                            *)
Map(p, length) ==
  /\ Live(p) /\ UNCHANGED start[p]
  /\ space'[p] # NoSpace /\ DOMAIN space'[p] = Pages
  /\ LET new == {page \in Pages : space'[p][page] # space[p][page]}
     IN /\ \E first \in Pages : new = (first..(first + (length - 1) \div PageSize)) \cap Pages
        /\ \A page \in new : /\ space[p][page] = Nothing
                             /\ space'[p][page] = [k \in Offsets |-> Zero]

Store(p, a, byte) ==
  /\ Live(p) /\ space[p][a \div PageSize] # Nothing
  /\ space'[p] = [space[p] EXCEPT ![a \div PageSize][a % PageSize] = byte]
  /\ UNCHANGED start[p]

Exit(p) ==
  /\ Live(p)
  /\ space'[p] = NoSpace
  /\ UNCHANGED start[p]

(* Only one process's memory changes, whatever happens.                    *)
Next ==
  \/ stopped'
  \/ /\ UNCHANGED stopped
     /\ \E p \in Processes :
          /\ \A q \in Processes \ {p} : space'[q] = space[q] /\ start'[q] = start[q]
          /\ \/ Exit(p)
             \/ \E length \in Lengths : Map(p, length)
             \/ \E a \in StoreAddrs, byte \in Bytes : Store(p, a, byte)
             \/ \E q \in Processes : Fork(q, p)
             \/ \E image \in Images : Load(p, image)

Spec == Init /\ [][Next]_<<space, start, stopped>>
=============================================================================
