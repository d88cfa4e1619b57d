SPECIFICATION Spec
CONSTANTS
    Workers = {w1, w2}
    Cap = 2
    FdLimit = 9
    PoolCap = 2
    Others = 1
SYMMETRY Symmetry
INVARIANTS NothingLeaked NeverDeaf
