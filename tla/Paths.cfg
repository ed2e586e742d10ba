\* Two new files or directories beside /d, /l and /dev, on a disk that can fill up.
CONSTANTS
  Zero = zero
  Junk = junk
  ByteA = a
  ByteB = b
  blockSize = 4
  DirectCount = 2
  blockGroupsCount = 4
  blocksPerBlockGroup = 2
  inodesPerBlockGroup = 2
  ImageBlocks <- MCImageBlocks
  ImageInodes <- MCImageInodes
  ReservedInodes = {1, 8}
  Names = {"a", "d", "fb"}
  DeviceNames <- MCDeviceNames
  OpenPaths <- MCOpenPaths
  DirectoryPaths <- MCDirectoryPaths
  WorkingPaths <- MCWorkingPaths
  FlagSets <- MCFlagSets
  Positions = {0, 3, 7}
  Data <- MCData
  MaxWorkingDirectory = 5
SPECIFICATION Spec
CHECK_DEADLOCK FALSE
INVARIANTS BlocksHaveOneOwner VnodesAreUnique PathsResolve
PROPERTIES ImplementsFileStore
