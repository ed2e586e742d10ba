CONSTANTS
  Cores = {c1}
  None = none
  PageFrameCount = 26
  Reserved = {0, 1, 2, 3, 4, 14}
  Counts = {2}
  SingleFrames = TRUE
  Processes = {p1, p2}
  NoProcess = noProcess
  PAGING_LEVELS = 3
  EntryCount = 4
  PageSize = 2
  AddressBits = 7
  RTDL_ADDR = 4
  AllocatorBase = 8
  USER_STACK_BASE = 14
  USER_STACK_SIZE = 2
  defaultPml4 = 1
  BootTables <- MCBootTables
  Zero = zero
  Junk = junk
  Unmapped = unmapped
  NoSpace = noSpace
  NoImage = noImage
  ByteA = a
  ByteB = b
  Images <- MCImages
  Bytes = {a}
  StoreAddrs = {3, 8}
  Lengths = {0, 1, 3}
  FixedAddrs = {3, 10, 64, 98}
SPECIFICATION PagingSpec
CHECK_DEADLOCK FALSE
INVARIANTS FramesGivenOnce SpacesAreSeparate AllocatorIsAhead
PROPERTIES ImplementsAddressSpaces
