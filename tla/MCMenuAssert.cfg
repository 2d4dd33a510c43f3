SPECIFICATION HalvesSpec
CONSTANTS
  NONE = NONE
  Files <- Texts
  Starts <- MCStarts
  Meant <- MCMeant
  Dirs <- MCDirs
  BadFiles = {"unread"}
  Scripts <- MCScripts
  LoaderFails = TRUE
  MaxKeys = 5
  MaxEnvs = 24
  TEMP_BUF_LEN = 8
  INT_MOD = 64
  PAGE_SIZE = 16
  PHYS_MAX = 223
  LOW = 16
  LOW_END = 64
  HIGH = 80
  INFO_ALIGN = 1
  INFO_STRUCT = 1
  INFO_NAME = 1
  SHDR_SIZE = 1
  MOD_SIZE = 1
  MMAP_SIZE = 1
  VBE_SIZE = 1
  SECTOR = 1
  DEFAULT_CMDLINE = 15
  E820_MAX = 2
  EXT_MEM_MAX = 16
  HANDOVER_OFFSET = 1
  Boots <- MCBoots
  TAGS_SIZE = 84
  TAG_ALIGN = 2
  STRUCT_SIZE <- MCStructs
  Strings <- MCStrings
  SizeOf <- MCSizeOf
  MaxEdits = 2
  MaxModules = 2
  MaxTags = 2
INVARIANT MenuAssertions
CHECK_DEADLOCK FALSE
