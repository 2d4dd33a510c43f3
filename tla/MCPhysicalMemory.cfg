SPECIFICATION PhysicalSpec
CONSTANTS
  AddrMod = 32
  PAGE_SIZE = 2
  TARGET_PHYS_MIN = 4
  TARGET_PHYS_MAX = 15
  Entries <- MCEntries
  Reservations <- MCReservations
  Areas <- MCAreas
  AllocRequests <- MCRequests
  LargeSizes = {1, 3}
  FirmwareMap <- MCFirmwareMap
  FwPages = {3, 7}
  EfiRequests <- MCEfiRequests
  Orders <- MCOrders
  JunkDescriptors <- MCJunk
  MaxRanges = 3
  MaxChanges = 2
INVARIANTS
  HeldIntact
  KernelMapClean
  NoInternalError
  KernelMapFaithful
  CleanHandover
PROPERTIES
  ImplementsPageMap
  LoopsEnd
  ExtremePlace
CHECK_DEADLOCK FALSE
