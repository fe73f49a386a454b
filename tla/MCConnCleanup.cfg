SPECIFICATION Spec
CONSTANTS
    Conns = {c1, c2}
    None = None
    NSlots = 2
    MaxFd = 4
    MaxBatch = 2
SYMMETRY ConnSymmetry
INVARIANT CleanupClosesOnlyItsOwn
