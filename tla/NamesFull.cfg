SPECIFICATION Spec
CONSTANTS
    Names = {a, b}
    LongNames = {}
    MaxDepth = 2
    NDIRENTS = 2
    NumInodes = 5
    InodeBits = 5
    NumBlocks = 3
    RootBlock = 1
    Words = {7}
    Ops = {"mknod", "mkdir", "unlink"}
    Frontend = "fuse"
INVARIANTS AssertionsHold
