SPECIFICATION CrashSpec
CONSTANTS
    Names = {a, b, c}
    LongNames = {c}
    MaxDepth = 2
    NDIRENTS = 2
    NumInodes = 5
    InodeBits = 6
    NumBlocks = 4
    RootBlock = 1
    Words = {7}
    Ops = {"mknod", "mkdir", "rename"}
    Frontend = "fuse"
SYMMETRY Symmetry
INVARIANTS IsTree BlocksApart
VIEW Followed
CHECK_DEADLOCK FALSE
