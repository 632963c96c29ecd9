CONSTANTS
    SECTOR_SIZE = 2
    MAXINT = 1000000
    MAX_LINK_COUNT = 2
    PATH_MAX = 6
    FAT_MAX_12BIT_CLUST = 8
    FAT_CACHE_SIZE = 4
    EXT2_NDIR_BLOCKS = 1
    NDADDR = 1
    MAPBUF_LEN = 4
    SblockTry <- MCSblockTry
    JOURNAL_TRANS_HALF = 1
    JOURNAL_TABLE = 4
    CachedSlots = 2
    MAX_HEIGHT = 5
    NewSuper = 4
    OldSuper = 1
    FATX_PARTITION_HEADERSIZE = 2
    FATX_CHAINTABLE_BLOCKSIZE = 4
    FatxCluster = 2
    WideClusters = 8
    FatxLongNames = {"toolong"}
    PvdSector = 2
    Volumes <- MCVolumes
    ReadLengths = {1, 3, 9}
    Words = {0, 3}
    MaxOps = 3
    MaxFaults = 1
SPECIFICATION Spec
INVARIANTS FilesExact LoadExact
CHECK_DEADLOCK FALSE
