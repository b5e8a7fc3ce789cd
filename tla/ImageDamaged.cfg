SPECIFICATION FsSpec
CONSTANTS
    Files = {2, 3}
    NumBlocks = 12
    FirstData = 5
    N_DIRECT = 1
    PTRS = 2
    INODES_PER_BLK = 16
    Vals = {40, 41}
    MaxLen = 4
    Names = {a, b}
    NDIRENTS = 2
    CHUNK = 3
    Lens = {4}
    SpareBits = {4}
    BITS = 8192
INVARIANT ReadsInside
