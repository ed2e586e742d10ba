------------------------------- MODULE Paths -------------------------------
(***************************************************************************)
(* Paths in the virtual file system (kernel/src/VFS.cpp): working          *)
(* directories, "." and "..", symbolic links and the devices that DeviceFS *)
(* mounts on /dev, over the vnodes and the ext2 disk of module Ext2.       *)
(* A string is the sequence of its parts, with "/" as a part of its own:   *)
(* "/d/a" is <<"/", "d", "/", "a">>, and between adjacent slashes there is *)
(* an empty name.  The calls are those of one process.                     *)
(***************************************************************************)
EXTENDS Ext2

LOCAL INSTANCE SequencesExt

CONSTANTS
  Names,                            \* in the calls
  DeviceNames,                      \* in the order of the constructor of DeviceFS
  OpenPaths, DirectoryPaths, WorkingPaths,      \* arguments of the three calls
  FlagSets,                         \* of Open: "truncate" is with a write mode
  Positions, Data,                  \* of Write
  MaxWorkingDirectory               \* bound on the parts of the working directory

VARIABLES workingDirectory

vars == <<disk, usedBlocks, usedInodes, unallocatedBlocksCount, vnodes, panic, workingDirectory>>

-----------------------------------------------------------------------------
(* Strings                                                                 *)

Slashes(path) == {i \in DOMAIN path : path[i] = "/"}
Count(path) == Cardinality(Slashes(path))

Split(path, index) ==
  LET cuts == <<0>> \o SetToSortSeq(Slashes(path), <) \o <<Len(path) + 1>>
  IN SubSeq(path, cuts[index + 1] + 1, cuts[index + 2] - 1)

ConvertToAbsolutePath(path, currentDirectory) ==
  LET Trimmed(absolute) == IF Last(absolute) = "/" THEN Front(absolute) ELSE absolute
  IN Trimmed(IF Split(path, 0) = <<>> THEN path ELSE currentDirectory \o path)

-----------------------------------------------------------------------------
(* DeviceFS                                                                *)

DeviceInode(name) == LeastOrZero({i \in DOMAIN DeviceNames : DeviceNames[i] = name})

(* The root and the devices get vnodes when DeviceFS is constructed, and   *)
(* the root is then mounted on the last vnode that is mounted there.       *)
NoInode == [size |-> 0, direct |-> NoBlocks, target |-> <<>>]

RECURSIVE WithDevices(_, _)
WithDevices(s, i) ==
  IF i > Len(DeviceNames) THEN s
  ELSE WithDevices(ConstructVnode(s, i, "dev", NoInode, "device"), i + 1)

DeviceFS(s) == WithDevices(ConstructVnode(s, 0, "dev", NoInode, "directory"), 1)

FindInDirectory(s, directory, name) ==
  IF s.vnodes[directory].fileSystem = "ext2" THEN Ext2FindFrom(s, directory, name, 0)
  ELSE [s EXCEPT !.vnode = IF DeviceInode(name) = 0 THEN 0
                           ELSE SearchInCache(s, DeviceInode(name), "dev")]

-----------------------------------------------------------------------------
(* TraversePath                                                            *)

RECURSIVE Mounts(_, _)
Mounts(s, v) == <<v>> \o IF s.vnodes[v].mounted = 0 THEN <<>> ELSE Mounts(s, s.vnodes[v].mounted)

(* The results of a search: s has the vnode found.                         *)
Found(s, containing, fileName) ==
  [s |-> s, containing |-> containing, fileName |-> fileName,
   error |-> IF s.vnode = 0 THEN "NoFile" ELSE "None"]

(* In the most recently mounted directory that has the name, or the first. *)
RECURSIVE FindInMounts(_, _, _)
FindInMounts(s, mounts, name) ==
  LET InLast(found) == IF found.vnode # 0 \/ Len(mounts) = 1
                      THEN Found(found, Last(mounts), name)
                      ELSE FindInMounts(found, Front(mounts), name)
  IN InLast(FindInDirectory(s, Last(mounts), name))

(* From the directory r.s.vnode on.  Each name before the one at depth was *)
(* a part of the path, as its slash was.  The target of a link is made     *)
(* absolute here and again by the call that follows it.                    *)
RECURSIVE Walk(_, _, _)
Walk(r, path, depth) ==
  LET currentDirectory == SubSeq(path, 1, 2 * depth + 1)
      Link(next, target) ==
        IF depth # Count(path) - 1 \/ target = <<>> THEN [next EXCEPT !.s = Stops(@, "link")]
        ELSE Walk([next EXCEPT !.s.vnode = 1], ConvertToAbsolutePath(target, workingDirectory), 0)
      Reached(next, file) ==
        IF file.type # "link" THEN Walk(next, path, depth + 1)
        ELSE Link(next, ConvertToAbsolutePath(file.target, currentDirectory))
      Entered(next) ==
        IF next.error = "NoFile" THEN next ELSE Reached(next, next.s.vnodes[next.s.vnode])
      Search(mounts, fileName) ==
        IF \E m \in Range(mounts) : r.s.vnodes[m].type # "directory"
        THEN [r EXCEPT !.s.vnode = 0, !.fileName = fileName, !.error = "NotDirectory"]
        ELSE Entered(FindInMounts(r.s, mounts, fileName))
  IN IF depth = Count(path) THEN r
     ELSE IF Split(path, depth + 1) = <<>> THEN [r EXCEPT !.s = Stops(@, "name")]
     ELSE Search(Mounts(r.s, r.s.vnode), Split(path, depth + 1)[1])

(* From the root, the first vnode of the cache.                            *)
TraversePath(s, path, directory) ==
  Walk(Found([s EXCEPT !.vnode = 1], 0, ""), ConvertToAbsolutePath(path, directory), 0)

-----------------------------------------------------------------------------
(* The calls                                                               *)

CreateDirectoryIn(r) ==
  IF Panicked(r.s) \/ r.containing = 0 THEN r.s
  ELSE IF r.error # "NoFile" THEN Stops(r.s, "exists")
  ELSE Ext2Create(r.s, r.containing, r.fileName, "directory")

(* VFS::Initialize                                                         *)
Booted ==
  LET Mounted(s, mountPoint) ==
        [s EXCEPT !.vnodes[mountPoint].mounted = SearchInCache(s, 0, "dev")]
      MountedAt(s) == Mounted(s, SearchInCache(s, FreeInode(Image), "ext2"))
  IN MountedAt(DeviceFS(CreateDirectoryIn(TraversePath(Image, <<"/", "dev">>, <<"/">>))))

Init == \E s \in {Booted} :
  /\ disk = s.disk /\ usedBlocks = s.usedBlocks /\ usedInodes = s.usedInodes
  /\ unallocatedBlocksCount = s.unallocated /\ vnodes = s.vnodes
  /\ panic = s.panic
  /\ workingDirectory = <<"/">>

Becomes(t) == LET s == t IN
  /\ disk' = s.disk /\ usedBlocks' = s.usedBlocks /\ usedInodes' = s.usedInodes
  /\ unallocatedBlocksCount' = s.unallocated /\ vnodes' = s.vnodes
  /\ panic' = s.panic

(* Allocate found no block, and the bytes went to block 0; or the kernel   *)
(* has stopped.  Behaviours are followed up to this point.                 *)
Full == panic # "none" \/ \E k \in DOMAIN disk[0] : disk[0][k] # Junk

Traversed(path) == TraversePath(State, path, workingDirectory)

(* Open, without the descriptor.                                           *)
Opened(r, flags) ==
  LET creates == "create" \in flags /\ r.error = "NoFile"
      fails == ~creates /\ (r.error # "None" \/ {"create", "exclude"} \subseteq flags)
      v == IF creates THEN Len(r.s.vnodes) + 1 ELSE r.s.vnode
      Truncated(s) == IF s.vnodes[v].type # "file" THEN Stops(s, "type") ELSE Ext2Truncate(s, v)
      Ready(s) == IF fails \/ "truncate" \notin flags THEN s ELSE Then(s, Truncated)
  IN Ready(IF creates THEN Ext2Create(r.s, r.containing, r.fileName, "file") ELSE r.s)

Open(path, flags) ==
  /\ ~Full
  /\ Becomes(Opened(Traversed(path), flags))
  /\ UNCHANGED workingDirectory

CreateDirectory(path) ==
  /\ ~Full
  /\ Becomes(CreateDirectoryIn(Traversed(path)))
  /\ UNCHANGED workingDirectory

SetWorkingDirectory(path) ==
  \E r \in {Traversed(path)} :
    /\ ~Full
    /\ Becomes(r.s)
    /\ workingDirectory' = IF r.error # "None" \/ Panicked(r.s) THEN workingDirectory
                           ELSE Append(ConvertToAbsolutePath(path, workingDirectory), "/")
    /\ Len(workingDirectory') <= MaxWorkingDirectory

(* The system call: without the last slash, except for the root.           *)
GetWorkingDirectory ==
  IF Len(workingDirectory) = 1 THEN workingDirectory ELSE Front(workingDirectory)

NoGap(size, pos) ==    \* mutant: the bytes before the offset are left as they are
  <<>>

Gap(size, pos) == [k \in 1..(IF pos > size THEN pos - size ELSE 0) |-> Zero]

(* VFS::Write, of a regular file: zeros up to the offset, then the data.   *)
Write(v, pos, data) ==
  LET size == vnodes[v].fileSize
  IN /\ ~Full
     /\ vnodes[v].type = "file"
     /\ Becomes(WithBytes(WithBytes(State, v, size, Gap(size, pos)), v, pos, data))
     /\ UNCHANGED workingDirectory

Next ==
  \/ \E path \in OpenPaths, flags \in FlagSets : Open(path, flags)
  \/ \E path \in DirectoryPaths : CreateDirectory(path)
  \/ \E path \in WorkingPaths : SetWorkingDirectory(path)
  \/ \E v \in DOMAIN vnodes, pos \in Positions, data \in Data : Write(v, pos, data)

Spec == Init /\ [][Next]_vars

-----------------------------------------------------------------------------
(* Properties                                                              *)

InodesInUse == usedInodes \ ReservedInodes

(* An inode as the kernel sees it: that of its vnode, or of the disk.      *)
Context(n) ==
  LET cached == {v \in DOMAIN vnodes : vnodes[v].inodeNum = n /\ vnodes[v].fileSystem = "ext2"}
  IN IF cached = {} THEN GetInode(n)
     ELSE LET v == CHOOSE w \in cached : TRUE
          IN [size |-> vnodes[v].size0, direct |-> vnodes[v].direct, target |-> vnodes[v].target]

Pointers == {<<n, k, Context(n).direct[k]>> : n \in InodesInUse, k \in 0..(DirectCount - 1)}

(* Allocate never hands a block to two files or directories, or to two     *)
(* places of one, also when one of them is still known from the image      *)
(* only; and each group's count is the number of its clear bits, on which  *)
(* Allocate relies to skip groups.                                         *)
BlocksHaveOneOwner ==
  LET used == {p \in Pointers : p[3] # 0}
  IN /\ \A p, q \in used : p[3] = q[3] => p = q
     /\ panic = "none" => {p[3] : p \in used} = usedBlocks \ {0}
     /\ \A g \in Groups : unallocatedBlocksCount[g] =
                            Cardinality({block \in Blocks \ usedBlocks : GroupOf(block) = g})

(* Inodes are never written back, so a file must keep one vnode however    *)
(* it is reached; and the two sizes of a file, that of the vnode for Read  *)
(* and that of the inode for FindInDirectory, agree.                       *)
VnodesAreUnique ==
  /\ \A v, w \in DOMAIN vnodes :
       /\ vnodes[v].inodeNum = vnodes[w].inodeNum
       /\ vnodes[v].fileSystem = vnodes[w].fileSystem
       => v = w
  /\ \A v \in DOMAIN vnodes : vnodes[v].fileSize = vnodes[v].size0

(* The name space: the nodes at each depth, from the entries alone.        *)
Bytes(inode) ==
  [k \in 1..inode.size |-> disk[inode.direct[BlockIndex(k - 1)]][(k - 1) % blockSize]]

TreeNode(path, n, type) ==
  [path |-> path, fileSystem |-> "ext2", inodeNum |-> n, type |-> type, inode |-> Context(n)]

DeviceNode(i) ==
  [path |-> <<"dev", DeviceNames[i]>>, fileSystem |-> "dev", inodeNum |-> i, type |-> "device",
   inode |-> NoInode]

Children(node) ==
  {TreeNode(Append(node.path, e.name), e.inodeNum, e.type) :
     e \in {entry \in Range(Bytes(node.inode)) : entry.name \notin {".", ".."}}}
  \cup {DeviceNode(i) : i \in IF node.path = <<"dev">> THEN DOMAIN DeviceNames ELSE {}}

RECURSIVE Below(_)
Below(node) ==
  {node} \cup IF node.type = "directory" THEN UNION {Below(child) : child \in Children(node)} ELSE {}

Tree == UNION {Below(root) : root \in {TreeNode(<<>>, INODE_ROOT_DIR, "directory")}}

Step(at, name) ==
  CASE name = "." -> at
    [] name = ".." -> IF at = <<>> THEN at ELSE Front(at)
    [] OTHER -> Append(at, name)

Parts(path) == SelectSeq(path, LAMBDA part : part # "/")
StartOf(path, directory) == IF path[1] = "/" THEN <<>> ELSE directory

(* What a path means, from the directory at: the node, or the name that is *)
(* missing and the directory that lacks it.                                *)
RECURSIVE Meaning(_, _, _)
Meaning(tree, at, names) ==
  LET here == CHOOSE node \in tree : node.path = at
      to == Step(at, names[1])
      there == CHOOSE node \in tree : node.path = to
  IN IF names = <<>> THEN <<"None", here.fileSystem, here.inodeNum>>
     ELSE IF here.type # "directory" THEN <<"NotDirectory">>
     ELSE IF \A node \in tree : node.path # to
     THEN <<"NoFile", here.fileSystem, here.inodeNum, names[1]>>
     ELSE IF there.type = "link"
     THEN LET target == there.inode.target
          IN Meaning(tree, StartOf(target, at), Parts(target))
     ELSE Meaning(tree, to, Tail(names))

Answer(r) ==
  LET w == IF r.s.vnode # 0 THEN r.s.vnode ELSE r.containing
      file == r.s.vnodes[w]
  IN IF r.s.vnode # 0 THEN <<"None", file.fileSystem, file.inodeNum>>
     ELSE IF r.error = "NotDirectory" THEN <<"NotDirectory">>
     ELSE <<"NoFile", file.fileSystem, file.inodeNum, r.fileName>>

(* TraversePath gives the file that the path means in the tree of names,   *)
(* from any working directory that SetWorkingDirectory has built as a      *)
(* string, through ".", "..", a link and the devices over /dev; or else    *)
(* the name and the directory in which Open and CreateDirectory make it.   *)
(* What GetWorkingDirectory returns is such a path.                        *)
PathsResolve ==
  ~Full => LET tree == Tree
           IN \A path \in OpenPaths \cup {GetWorkingDirectory} :
                LET r == Traversed(path)
                    from == IF path[1] = "/" THEN <<>> ELSE Parts(workingDirectory)
                IN ~Panicked(r.s) => Answer(r) = Meaning(tree, <<>>, from \o Parts(path))

Store == INSTANCE FileStore WITH
  nodes <- IF Full THEN {}
           ELSE {[path |-> node.path, type |-> node.type,
                  bytes |-> IF node.type = "file" THEN Bytes(node.inode) ELSE <<>>] : node \in Tree},
  full <- Full

(* Until the disk is full, what is read under a name is what was written   *)
(* there: across block boundaries, gaps, truncations that keep the blocks  *)
(* and stale bytes of the disk, and with the directories in blocks of the  *)
(* same kind; and a call adds one name, to a directory, or none.           *)
ImplementsFileStore == Store!Spec
=============================================================================
