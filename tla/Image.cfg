SPECIFICATION FsSpec
CONSTANTS
    Files = {2, 3}
    NumBlocks = 12
    FirstData = 5
    N_DIRECT = 1
    PTRS = 2
    INODES_PER_BLK = 16
    Vals = {20, 70, 71, 72}
    MaxLen = 3
    Names = {a, b}
    NDIRENTS = 2
    CHUNK = 3
    Lens = {2, 7}
    SpareBits = {4}
    BITS = 8192
CONSTRAINT Followed
VIEW LiveView
SYMMETRY Symmetry
INVARIANTS FsTypeOK CleanBetweenCommands DamageIsLocal CheckerMissesEmptyTables PutIsPrefix GetIsContent
PROPERTIES OthersKeepTheirWords
