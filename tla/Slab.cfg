SPECIFICATION Spec
CONSTANTS
  N = 5
  small = small
  exact = exact
  Slots <- MCSlots
  Chunks <- MCChunks
  Reserved <- MCReserved
  Exact = exact
  FREE = FREE
  PAGE = PAGE
  NULL = NULL
INVARIANTS NoOverlap NoLeak FreeRunsJoined RoomIsFound
PROPERTY ImplementsAllocator
CHECK_DEADLOCK FALSE
