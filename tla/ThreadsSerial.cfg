SPECIFICATION Spec
CONSTANTS
    Threads = {t1, t2}
    Serial = TRUE
    Names = {a, b}
    Sub = d
    MaxInode = 5
SYMMETRY Symmetry
INVARIANTS FoundIfThere OneInodeEach MemoryIsImage
