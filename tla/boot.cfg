CONSTANTS
  WSIZE <- MCWSIZE
  BankSize <- MCBankSize
  TopSize <- MCTopSize
  SpaceSize <- MCSpaceSize
  Loader <- MCLoader
  Stub <- MCStub
  Croms <- MCCroms
  File <- MCFile
  Packed <- MCProgram
  Hash <- Digest
  shax <- SectionHash
  Unpack <- decompress_kernel
  PicAnswer <- BootPicManipulation
  ReadFaults = {1, 21}
  Damage = 25
  Roms <- MCRoms
  TriesPerBank = 3
  MaxRomFaults = 2
  Challenges <- MCChallenges
  Expected <- MCExpected
  KeywordOf <- MCKeywordOf
  NoWords <- MCNoWords
  Boxes <- MCBoxes
  Configs <- MCConfigs
  LongConfigs <- MCLongConfigs
  Images <- MCImages
  Words <- MCWords
  KERNEL_HDR_SIZE = 1
  SetupRoom = 3
  MAX_KERNEL_SIZE = 4
  MAX_INITRD_SIZE = 6
  FREELDR_MAX_SIZE = 3
  CmdLine = 3
  Systems = {64, 128}
  MaxIoFaults = 1
  MaxAttempts = 2
  MaxNatives = 2
  Machines <- MCMachines
SPECIFICATION Spec
INVARIANT CromwellWhole
INVARIANT StartedAsConfigured
PROPERTY MachineStarts
CHECK_DEADLOCK FALSE
