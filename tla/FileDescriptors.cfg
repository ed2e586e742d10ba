SPECIFICATION Spec
CONSTANTS
  Vfs = {v1, v2, v3}
  ShellVfs = v1
  Handles = {h1, h2}
  file = file
  directory = directory
  device = device
  Nodes <- MCNodes
  Type <- MCType
  NoNode = NoNode
  Closed = Closed
  OpenFlags <- MCOpenFlags
  Counts = {1}
  MaxOffset = 1
  MaxDescriptors = 2
INVARIANTS RefCountsAreExact TerminalHasNoPosition
PROPERTIES ImplementsOpenFiles
CHECK_DEADLOCK FALSE
SYMMETRY Symmetry
