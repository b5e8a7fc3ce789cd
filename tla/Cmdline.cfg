SPECIFICATION CmdSpec
CONSTANTS
    Names = {a}
    DotDot = dots
    LongNames = {}
    MaxDepth = 3
    Depth = 2
    NDIRENTS = 2
    NumInodes = 5
    InodeBits = 5
    NumBlocks = 4
    RootBlock = 1
    Words = {7}
    Ops = {"mknod", "mkdir", "unlink", "rmdir", "write", "chmod"}
    Frontend = "cmdline"
VIEW LiveView
INVARIANTS BlocksApart
 
