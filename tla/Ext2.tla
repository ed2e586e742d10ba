-------------------------------- MODULE Ext2 --------------------------------
(***************************************************************************)
(* The ext2 file system (kernel/src/Ext2.cpp) on a RAM disk of few small   *)
(* blocks in block groups, with the vnodes that VFS keeps of its files     *)
(* (kernel/src/VFS.cpp).  An inode is read from the disk when its vnode is *)
(* made, and only the copy in memory changes after that.  A byte is a      *)
(* model value, a directory entry takes one byte, and the entries of the   *)
(* image are padded to its blocks by the last one.  New files have direct  *)
(* blocks only, DirectCount of them (12 in the code).  Calls are not       *)
(* interleaved.                                                            *)
(***************************************************************************)
EXTENDS Integers, Sequences, FiniteSets

CONSTANTS
  Zero, Junk,                       \* bytes: zero, and what is on the disk before
  blockSize, DirectCount,
  blockGroupsCount, blocksPerBlockGroup, inodesPerBlockGroup,
  ImageBlocks,                      \* the entries in the directories of the image, per block
  ImageInodes,                      \* per inode of the image: [size, direct, target]
  ReservedInodes                    \* in use, but not in the directories

ASSUME Ext2Assumption ==
  /\ blockSize \in Nat \ {0} /\ DirectCount \in Nat \ {0}
  /\ blockGroupsCount \in Nat \ {0}
  /\ blocksPerBlockGroup \in Nat \ {0, 1} /\ inodesPerBlockGroup \in Nat \ {0, 1}

VARIABLES
  disk,                             \* per block: its bytes
  usedBlocks, usedInodes,           \* the two usage bitmaps
  unallocatedBlocksCount,           \* per block group
  vnodes,                           \* the vnode cache, in the order of nextInCache
  panic

Groups == 0..(blockGroupsCount - 1)
Blocks == 0..(blockGroupsCount * blocksPerBlockGroup - 1)
Inodes == 1..(blockGroupsCount * inodesPerBlockGroup)
GroupOf(block) == block \div blocksPerBlockGroup
INODE_ROOT_DIR == 2

NoBlocks == [k \in 0..(DirectCount - 1) |-> 0]

(* GetInode: what the inode table on the disk holds, which is never        *)
(* written back.                                                           *)
GetInode(n) ==
  IF n \in DOMAIN ImageInodes THEN ImageInodes[n]
  ELSE [size |-> 0, direct |-> NoBlocks, target |-> <<>>]

Entry(name, n, type) == [name |-> name, inodeNum |-> n, type |-> type]

(* The operators work on a record s of the variables, since one call may   *)
(* allocate and write several times.  s.vnode is the vnode that an         *)
(* operator returns, by its place in the cache: 0 is nullptr.              *)
State == [disk |-> disk, usedBlocks |-> usedBlocks, usedInodes |-> usedInodes,
          unallocated |-> unallocatedBlocksCount, vnodes |-> vnodes, vnode |-> 0, panic |-> panic]

Panicked(s) == s.panic # "none"
Stops(s, why) == [s EXCEPT !.panic = why]
Then(s, Step(_)) == IF Panicked(s) THEN s ELSE Step(s)
LeastOrZero(S) == IF S = {} THEN 0 ELSE CHOOSE m \in S : \A n \in S : m <= n

-----------------------------------------------------------------------------
(* The vnode cache, from the root on.  CacheVNode appends the root itself  *)
(* to an entry that does not exist yet.                                    *)

ConstructVnode(s, n, fileSystem, inode, type) ==
  [s EXCEPT !.vnodes = Append(@, [inodeNum |-> n, fileSystem |-> fileSystem, type |-> type,
                                  fileSize |-> inode.size, size0 |-> inode.size,
                                  direct |-> inode.direct, target |-> inode.target, mounted |-> 0]),
            !.vnode = Len(s.vnodes) + 1]

SearchInCache(s, n, fileSystem) ==
  LeastOrZero({v \in DOMAIN s.vnodes : s.vnodes[v].inodeNum = n /\ s.vnodes[v].fileSystem = fileSystem})

-----------------------------------------------------------------------------
(* Allocate: the first clear bit, in the groups that have unallocated      *)
(* blocks; 0 if there is none.                                             *)

FreeBlock(s) == LeastOrZero({block \in Blocks \ s.usedBlocks : s.unallocated[GroupOf(block)] > 0})

(* The code searches as many bits as a group has blocks; mke2fs has set    *)
(* those behind the last inode of the group.                               *)
FreeInode(s) ==
  LeastOrZero({n \in Inodes \ s.usedInodes : s.unallocated[(n - 1) \div inodesPerBlockGroup] > 0})

AllocateBlock(s) ==
  LET Taken(block) == [s EXCEPT !.usedBlocks = @ \cup {block},
                                !.unallocated[GroupOf(block)] = @ - 1]
  IN IF FreeBlock(s) = 0 THEN s ELSE Taken(FreeBlock(s))

-----------------------------------------------------------------------------
(* Read and Write of a vnode                                               *)

BlockIndex(pos) == pos \div blockSize

(* GetBlockAddr with allocateMissingBlock: the missing block, or the 0 of  *)
(* a full disk, becomes a direct pointer.                                  *)
WithBlock(s, v, index) ==
  IF index >= DirectCount THEN Stops(AllocateBlock(s), "direct")
  ELSE IF s.vnodes[v].direct[index] # 0 THEN s
  ELSE [AllocateBlock(s) EXCEPT !.vnodes[v].direct[index] = FreeBlock(s)]

(* DiskOperation, for one byte.                                            *)
WithByte(s, v, pos, byte) ==
  Then(WithBlock(s, v, BlockIndex(pos)),
       LAMBDA t : [t EXCEPT !.disk[t.vnodes[v].direct[BlockIndex(pos)]][pos % blockSize] = byte])

SizesAfter(vnode, end) ==
  IF vnode.fileSize < end THEN [vnode EXCEPT !.fileSize = end, !.size0 = end] ELSE vnode

(* Ext2::Write: the bytes, then the sizes.                                 *)
RECURSIVE WithBytes(_, _, _, _)
WithBytes(s, v, pos, data) ==
  IF Panicked(s) THEN s
  ELSE IF data = <<>> THEN [s EXCEPT !.vnodes[v] = SizesAfter(@, pos)]
  ELSE WithBytes(WithByte(s, v, pos, data[1]), v, pos + 1, Tail(data))

ByteAt(s, v, pos) == s.disk[s.vnodes[v].direct[BlockIndex(pos)]][pos % blockSize]

-----------------------------------------------------------------------------
(* Directories                                                             *)

(* The vnode of an entry that ReadDirectory returned.                      *)
VnodeOf(s, entry) ==
  LET cached == SearchInCache(s, entry.inodeNum, "ext2")
  IN IF cached # 0 THEN [s EXCEPT !.vnode = cached]
     ELSE ConstructVnode(s, entry.inodeNum, "ext2", GetInode(entry.inodeNum), entry.type)

(* FindInDirectory, from parsedLength on: every entry up to the one with   *)
(* the name gets a vnode.  Entries without an inode, which fail an Assert, *)
(* are what a deletion leaves, and nothing is deleted.                     *)
RECURSIVE Ext2FindFrom(_, _, _, _)
Ext2FindFrom(s, directory, name, parsedLength) ==
  LET entry == ByteAt(s, directory, parsedLength)
      child == VnodeOf(s, entry)
  IN IF parsedLength >= s.vnodes[directory].size0 THEN [s EXCEPT !.vnode = 0]
     ELSE IF entry.name = name THEN child
     ELSE Ext2FindFrom(child, directory, name, parsedLength + 1)

WriteDirectoryEntry(s, directory, entry) ==
  Then(s, LAMBDA t : WithBytes(t, directory, t.vnodes[directory].fileSize, <<entry>>))

ParentOfNewRoot(s, directory) ==    \* mutant: ".." is the root
  INODE_ROOT_DIR

ParentOfNew(s, directory) == s.vnodes[directory].inodeNum

(* Create: the entry in the directory, then those of a new directory.      *)
Ext2Create(s, directory, name, type) ==
  LET v == Len(s.vnodes) + 1
      New(n) == ConstructVnode([s EXCEPT !.usedInodes = @ \cup {n}], n, "ext2",
                               [GetInode(n) EXCEPT !.size = 0], type)
      Named(n) == WriteDirectoryEntry(New(n), directory, Entry(name, n, type))
      Self(t, n) == WriteDirectoryEntry(t, v, Entry(".", n, type))
      Parent(t) == WriteDirectoryEntry(t, v, Entry("..", ParentOfNew(s, directory), type))
      Created(n) == IF n = 0 THEN Stops(s, "inode")
                    ELSE IF type = "directory" THEN Parent(Self(Named(n), n)) ELSE Named(n)
  IN Created(FreeInode(s))

TruncateKeepsFileSize(s, v) ==    \* mutant: the copy of the size in the vnode stays
  [s EXCEPT !.vnodes[v].size0 = 0]

TruncateDropsBlocks(s, v) ==    \* mutant: the pointers are cleared, but not the bitmap
  [s EXCEPT !.vnodes[v].size0 = 0, !.vnodes[v].fileSize = 0, !.vnodes[v].direct = NoBlocks]

Ext2Truncate(s, v) == [s EXCEPT !.vnodes[v].size0 = 0, !.vnodes[v].fileSize = 0]

-----------------------------------------------------------------------------
(* The image when Ext2 is mounted as the root, whose vnode comes first.    *)
Image ==
  ConstructVnode(
    [disk |-> [block \in Blocks |-> [k \in 0..(blockSize - 1) |->
                 IF block \in DOMAIN ImageBlocks THEN ImageBlocks[block][k + 1] ELSE Junk]],
     usedBlocks |-> {0} \cup DOMAIN ImageBlocks,
     usedInodes |-> ReservedInodes \cup DOMAIN ImageInodes,
     unallocated |-> [g \in Groups |->
        Cardinality({b \in Blocks \ ({0} \cup DOMAIN ImageBlocks) : GroupOf(b) = g})],
     vnodes |-> <<>>, vnode |-> 0, panic |-> "none"],
    INODE_ROOT_DIR, "ext2", GetInode(INODE_ROOT_DIR), "directory")
=============================================================================
