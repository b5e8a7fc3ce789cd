SPECIFICATION Spec
CONSTANTS
    Threads = {t1, t2}
    Serial = FALSE
    Names = {a, b}
    Sub = d
    MaxInode = 5
SYMMETRY Symmetry
INVARIANTS ErrorsAreTrue
