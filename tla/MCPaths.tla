------------------------------ MODULE MCPaths ------------------------------
(* The image: the directory /d and the link /l to d/a, which is not there  *)
(* at first.                                                               *)
EXTENDS Paths, TLC

CONSTANTS ByteA, ByteB

MCImageBlocks ==
  1 :> <<Entry(".", 2, "directory"), Entry("..", 2, "directory"),
         Entry("d", 3, "directory"), Entry("l", 4, "link")>>
  @@ 2 :> <<Entry(".", 3, "directory"), Entry("..", 2, "directory"),
            Entry("..", 2, "directory"), Entry("..", 2, "directory")>>

MCInode(size, block, target) ==
  [size |-> size, direct |-> [NoBlocks EXCEPT ![0] = block], target |-> target]

MCImageInodes ==
  2 :> MCInode(blockSize, 1, <<>>) @@ 3 :> MCInode(blockSize, 2, <<>>)
  @@ 4 :> MCInode(0, 0, <<"d", "/", "a">>)

MCDeviceNames == <<"tty", "fb">>

S == "/"

MCOpenPaths == {
  <<S>>, <<S, "a">>, <<"a">>, <<S, "l">>, <<"d", S, "a">>, <<"..", S, "a">>,
  <<S, "a", S, "a">>, <<S, "d", S, "..", S, "d", S>>, <<S, "d", S, "a", S, "..", S, "a">>,
  <<S, "d", S, "a", S, ".", S, "a">>, <<S, "dev", S, "a">>, <<"fb">>, <<S, "dev", S, "fb">>,
  <<S, "dev", S, ".", S, "tty", S, "a">>, <<S, "dev", S, "..", S, "l">>,
  <<S, "l", S, "a">>, <<S, S, "a">>}

MCDirectoryPaths == {<<S>>, <<S, "d", S, "a">>, <<"a">>}
MCWorkingPaths == {<<"d", S, "..">>, <<S, "dev">>, <<"l">>, <<S, "a">>}
MCFlagSets == {{"truncate"}, {"create", "exclude", "truncate"}}
MCData == {<<ByteA, ByteB>>}
=============================================================================
