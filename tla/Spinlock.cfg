SPECIFICATION Spec
CONSTANTS
  Cores = {c1, c2, c3}
  TicketMod = 5
INVARIANTS MutualExclusion TicketsInOrder
PROPERTIES ImplementsFifoLock
