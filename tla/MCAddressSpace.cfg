SPECIFICATION SpaceSpec
CONSTANTS
  AddrMod = 64
  PAGE_SIZE = 2
  HALF = 16
  LIMIT = 32
  Base = 4
  Size = 16
  AllocSizes = {2, 4, 6}
  Aligns = {0, 4}
  Fixed <- MCFixed
  Blocked <- MCBlocked
  PSE = TRUE
  LARGE_PAGE_SIZE = 4
  PDIR_RANGE = 8
  MapRequests <- MCMaps
  OpRequests <- MCOps
  MaxMaps = 3
  SLOT = 8
  LoadTags <- MCLoadTags
  Kernels <- MCKernels
  MappingTags <- MCMappings
  LoaderArea <- MCLoader
  TAGS_SIZE = 4
  FbSizes = {2, 4}
  FdtSizes = {2, 4}
INVARIANTS
  GrantsStay
  RefusedForAReason
  TablesFaithful
  OpFaithful
  LayoutSound
PROPERTIES
  GrantsAreFresh
CHECK_DEADLOCK FALSE
