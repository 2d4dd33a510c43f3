SPECIFICATION StorageSpec
CONSTANTS
  ABSENT = ABSENT
  Machines = {}
  Contents <- MCContents
  Files <- MCFiles
  Reads <- MCReads
  LBA_MOD = 64
  ID_MOD = 8
  OFFSET_MOD = 512
  NAME_SIZE = 4
  ImageNames <- MCImageNames
  ALIGNMENT = 2
  TRANSFER = 2
  CDROM_BLOCK = 8
  IMAGE_BLOCK = 4
  MaxFaults = 1
  VolumeSet = {}
  FileReads <- MCFileReads
  EXT2_BLOCK = 2
  EXT2_NDIR_BLOCKS = 1
  EXT2_PER_BLOCK = 2
  EXT2_SYMLINK_LIMIT = 2
  EXT2_GROUPS = 90
  FAT_SECTORS = {8}
  FAT12_CLUSTERS = 8
  FAT16_CLUSTERS = 10
  FAT_ENTRY = 4
  FAT_LFN_MAX = 4
  ISO9660_BLOCK_SIZE = 4
  ISO_DESCRIPTORS = 6
  TAR_BLOCK = 4
  PAYLOAD_BUFFER_SIZE = 2
  DICT_BUFFER_SIZE = 4
  GZIP_HEADER = 2
  COUNT_MOD = 256
  Stream <- MCTailStream
  Ahead <- MCTailAhead
  Image <- NoImage
  Tree <- MCTree
  Root <- MCRoot
  Shared = {"d2"}
  Owner <- MCOwner
  RawSize <- MCTailRawSize
  ImageHandle = 0
  Corrupt = {"c.gz"}
  MaxHandles = 9
  Scenarios <- MCTailScenarios
  Hosts = {}
  ServerFiles <- MCServerFiles
  PACKET <- MCPacket
  NetRequests <- MCNetRequests
  NetSlots = 2
  MaxNetFaults = 1
INVARIANTS
  InputLeft
CHECK_DEADLOCK FALSE
