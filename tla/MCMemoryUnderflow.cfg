SPECIFICATION PhysicalSpec
CONSTANTS
  AddrMod = 32
  PAGE_SIZE = 2
  TARGET_PHYS_MIN = 4
  TARGET_PHYS_MAX = 15
  Entries <- MCEntries
  Reservations <- MCReservations
  Areas = {}
  AllocRequests <- MCLargeRequests
  LargeSizes = {1, 3}
  FirmwareMap <- MCFirmwareMap
  FwPages = {}
  EfiRequests = {}
  Orders <- MCOrders
  MaxRanges = 3
  MaxChanges = 0
  JunkDescriptors <- MCJunk
INVARIANTS
  HeldIntact
CHECK_DEADLOCK FALSE
