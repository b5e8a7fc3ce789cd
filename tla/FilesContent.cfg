SPECIFICATION Spec
CONSTANTS
    Files = {1}
    NumBlocks = 9
    FirstData = 1
    N_DIRECT = 1
    PTRS = 2
    INODES_PER_BLK = 16
    Vals = {98, 99}
    MaxLen = 2
VIEW LiveView
INVARIANTS SoleOwner HeldIsMarked ReadsAreExact
PROPERTIES ImplementsByteFile
