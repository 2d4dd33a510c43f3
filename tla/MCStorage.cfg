SPECIFICATION StorageSpec
CONSTANTS
  ABSENT = ABSENT
  Machines <- MCMachines
  Contents <- MCContents
  Files <- MCFiles
  Reads <- MCReads
  LBA_MOD = 64
  ID_MOD = 8
  OFFSET_MOD = 512
  NAME_SIZE = 4
  ImageNames <- MCImageNames
  ALIGNMENT = 2
  TRANSFER = 2
  CDROM_BLOCK = 8
  IMAGE_BLOCK = 4
  MaxFaults = 1
  VolumeSet <- MCVolumeSet
  FileReads <- MCFileReads
  EXT2_BLOCK = 2
  EXT2_NDIR_BLOCKS = 1
  EXT2_PER_BLOCK = 2
  EXT2_SYMLINK_LIMIT = 2
  EXT2_GROUPS = 90
  FAT_SECTORS = {8}
  FAT12_CLUSTERS = 8
  FAT16_CLUSTERS = 10
  FAT_ENTRY = 4
  FAT_LFN_MAX = 4
  ISO9660_BLOCK_SIZE = 4
  ISO_DESCRIPTORS = 6
  TAR_BLOCK = 4
  PAYLOAD_BUFFER_SIZE = 3
  DICT_BUFFER_SIZE = 4
  GZIP_HEADER = 2
  COUNT_MOD = 256
  Stream <- MCStream
  Ahead <- MCAhead
  Image <- NoImage
  Tree <- MCTree
  Root <- MCRoot
  Shared = {"d2"}
  Owner <- MCOwner
  RawSize <- MCRawSize
  ImageHandle = 0
  Corrupt = {"c.gz"}
  MaxHandles = 9
  Scenarios <- MCScenarios
  Hosts <- MCHosts
  ServerFiles <- MCServerFiles
  PACKET <- MCPacket
  NetRequests <- MCNetRequests
  NetSlots = 2
  MaxNetFaults = 1
INVARIANTS
  ReadExact
  BootFound
  StopsForAReason
  OpenTrue
  ReadTrue
  TransferTrue
  NoDangling
  ReadCorrect
PROPERTIES
  ProbeEnds
  ReadsEnd
CHECK_DEADLOCK FALSE
