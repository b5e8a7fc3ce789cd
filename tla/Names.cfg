SPECIFICATION Spec
CONSTANTS
    Names = {a, b}
    LongNames = {}
    MaxDepth = 2
    NDIRENTS = 2
    NumInodes = 5
    InodeBits = 5
    NumBlocks = 4
    RootBlock = 1
    Words = {7}
    Ops = {"mknod", "mkdir", "unlink", "rmdir", "rename", "chmod", "truncate", "write"}
    Frontend = "fuse"
SYMMETRY Symmetry
INVARIANTS TypeOK IsTree BlocksApart ListedIsFound
PROPERTIES OnlyRmdirLosesInodes ImplementsTree
