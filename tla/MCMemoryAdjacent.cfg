SPECIFICATION PhysicalSpec
CONSTANTS
  AddrMod = 32
  PAGE_SIZE = 2
  TARGET_PHYS_MIN = 4
  TARGET_PHYS_MAX = 15
  Entries <- MCEntries
  Reservations = {}
  Areas <- MCAdjacentAreas
  AllocRequests = {}
  LargeSizes = {}
  FirmwareMap <- MCFirmwareMap
  FwPages = {}
  EfiRequests = {}
  Orders <- MCOrders
  MaxRanges = 3
  MaxChanges = 0
  JunkDescriptors <- MCJunk
PROPERTIES
  LoopsEnd
CHECK_DEADLOCK FALSE
