SPECIFICATION Spec
CONSTANTS
  HEAP_SIZE = 24
  HEADER = 4
  ALIGN = 2
  Requests = {0, 1, 4, 6, 7, 20}
  Owners = {o1, o2}
INVARIANTS
  ChunksTileHeap
  BlocksAreChunks
  DataIntact
  NoFalseExhaustion
CHECK_DEADLOCK FALSE
