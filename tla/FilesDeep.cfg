SPECIFICATION FairSpec
CONSTANTS
    Files = {1}
    NumBlocks = 13
    FirstData = 1
    N_DIRECT = 2
    PTRS = 2
    INODES_PER_BLK = 16
    Vals = {99}
    MaxLen = 3
VIEW LiveView
INVARIANTS TypeOK SizeCovered ReloadIsHarmless LostHoldNoData
PROPERTIES CallsReturn
