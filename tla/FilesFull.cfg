SPECIFICATION Spec
CONSTANTS
    Files = {1}
    NumBlocks = 6
    FirstData = 1
    N_DIRECT = 1
    PTRS = 2
    INODES_PER_BLK = 16
    Vals = {99}
    MaxLen = 3
PROPERTIES ReportedIsInFile
