CONSTANTS
  Cores = {c1, c2}
  None = none
  SLABS_COUNT = 2
  SlabSize = 32
  Sizes = {1, 8, 9, 16, 17}
SPECIFICATION Spec
CHECK_DEADLOCK FALSE
INVARIANTS BlocksAreDisjoint NoSlotIsLost SlotsFitTightly
