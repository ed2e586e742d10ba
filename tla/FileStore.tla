----------------------------- MODULE FileStore -----------------------------
(***************************************************************************)
(* What a file system promises: a tree of names below one root, of which a *)
(* directory stays a directory and a file stands for a sequence of bytes   *)
(* that only writes and truncations of that file change.  A new name goes  *)
(* into a directory.  A write behind the end fills the gap with zeros.     *)
(* Once the store is full it promises nothing any more.                    *)
(***************************************************************************)
EXTENDS Naturals, Sequences

CONSTANTS Names, Zero, Positions, Data

VARIABLES nodes, full               \* nodes: [path, type, bytes] of all that exists

Parent(path) == SubSeq(path, 1, Len(path) - 1)
IsDirectory(path) == \E node \in nodes : node.path = path /\ node.type = "directory"

Init ==
  /\ full = FALSE
  /\ IsDirectory(<<>>)
  /\ \A node \in nodes : node.path # <<>> => IsDirectory(Parent(node.path))

Longer(m, n) == IF m < n THEN n ELSE m

Overwritten(old, pos, data) ==
  [k \in 1..Longer(Len(old), pos + Len(data)) |->
     IF k \in (pos + 1)..(pos + Len(data)) THEN data[k - pos]
     ELSE IF k \in DOMAIN old THEN old[k] ELSE Zero]

(* Each call gives one node: a new one, ...                                *)
Create(node) ==
  /\ \A old \in nodes : old.path # node.path
  /\ IsDirectory(Parent(node.path))
  /\ node.path[Len(node.path)] \in Names
  /\ node.type \in {"file", "directory"} /\ node.bytes = <<>>

(* ... or one in place of the node with its path.                          *)
Truncate(old, node) == node = [old EXCEPT !.bytes = <<>>]

Write(old, node) ==
  \E pos \in Positions, data \in Data :
    node = [old EXCEPT !.bytes = Overwritten(@, pos, data)]

Next ==
  \/ full'
  \/ /\ UNCHANGED full
     /\ \E node \in nodes' \ nodes :
          /\ nodes' \ {node} = {other \in nodes : other.path # node.path}
          /\ \/ Create(node)
             \/ \E old \in {other \in nodes : other.path = node.path /\ other.type = "file"} :
                  Truncate(old, node) \/ Write(old, node)

Spec == Init /\ [][Next]_<<nodes, full>>
=============================================================================
