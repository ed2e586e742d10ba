------------------------------ MODULE MCPaging ------------------------------
EXTENDS Paging

CONSTANTS ByteA, ByteB

Segment(virtAddr, bytes, memorySize) ==
  [virtAddr |-> virtAddr, bytes |-> bytes, memorySize |-> memorySize]

Image(type, start, segments, interpreter) ==
  [type |-> type, entry |-> start, segments |-> segments, interpreter |-> interpreter]

(* A text that begins inside a page, and data with a zeroed rest.          *)
Static == Image("executable", 1, <<Segment(1, <<ByteA, ByteB>>, 2 + 1)>>, NoImage)

Linker == Image("shared", 1, <<Segment(0, <<ByteB, ByteA>>, 2)>>, NoImage)

Dynamic == Image("executable", 2, <<Segment(0, <<ByteA>>, 1), Segment(2, <<ByteB>>, 2)>>, Linker)

(* The zeroed rest reaches one page further than its size alone needs; a   *)
(* segment is above the allocator's first address.                         *)
Overhang == Image("executable", 1, <<Segment(1, <<ByteB>>, 2), Segment(10, <<ByteA>>, 1)>>,
                  NoImage)

(* The bytes of the file do.                                               *)
Straddling == Image("executable", 1, <<Segment(1, <<ByteA, ByteB>>, 2)>>, NoImage)

(* Two segments in one page.                                               *)
Adjoining == Image("executable", 1, <<Segment(0, <<ByteA>>, 1), Segment(1, <<ByteB>>, 1)>>, NoImage)

(* A segment of no bytes.                                                  *)
EmptySegment == Image("executable", 1, <<Segment(0, <<>>, 0)>>, NoImage)

(* An interpreter that asks for an interpreter.                            *)
Nested == Image("executable", 2, <<Segment(2, <<ByteA>>, 1)>>,
                Image("shared", 1, <<Segment(2, <<ByteB>>, 1)>>, Linker))

(* The kernel is in the last quarter: one page of it, behind two tables.   *)
MCBootTables ==
  [f \in 1..3 |-> [i \in Indexes |->
     IF i = (IF f = defaultPml4 THEN EntryCount - 1 ELSE 0) THEN f + 1 ELSE 0]]

MCImages == {Nested, Static, Dynamic, Overhang, Straddling, Adjoining, EmptySegment}
=============================================================================
