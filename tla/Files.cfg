CONSTANTS
    BLOCK_CACHE_SIZE = 3
    BLOCK_SZ = 2
    INODE_DIRECT_COUNT = 1
    INODE_INDIRECT1_COUNT = 2
    BLOCK_BITS = 4
    InodesPerBlock = 2
    Names = {"app", "f"}
    Apps <- MCApps
    Handles = {h1, h2}
    NoFile = NoFile
    NoHandle = NoHandle
    Words = {1}
    Slices <- MCSlices
    Flags <- MCFlags
    TotalBlocks = 17
    InodeBitmapBlocks = 1
    MaxCalls = 5
SYMMETRY MCSymmetry
SPECIFICATION Spec
INVARIANTS BitmapsExact CacheExact 
PROPERTY ImplementsFileStore
CHECK_DEADLOCK FALSE
