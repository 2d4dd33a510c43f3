SPECIFICATION SpaceSpec
CONSTANTS
  AddrMod = 64
  PAGE_SIZE = 2
  HALF = 16
  LIMIT = 32
  Base = 4
  Size = 16
  AllocSizes = {}
  Aligns = {0}
  Fixed = {}
  Blocked = {}
  PSE = TRUE
  LARGE_PAGE_SIZE = 4
  PDIR_RANGE = 8
  MapRequests <- MCMaps
  OpRequests <- MCOps
  MaxMaps = 0
  SLOT = 8
  LoadTags <- MCDefaultTag
  Kernels <- MCKernels
  MappingTags <- MCMappings
  LoaderArea <- MCLoader
  TAGS_SIZE = 4
  FbSizes = {2, 4}
  FdtSizes = {2, 4}
INVARIANTS
  DefaultRangeLoads
CHECK_DEADLOCK FALSE
