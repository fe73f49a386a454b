SPECIFICATION Spec
CONSTANTS
    Conns = {c1, c2, c3}
    None = None
    NSlots = 2
    MaxFd = 4
    MaxBatch = 2
SYMMETRY ConnSymmetry
INVARIANTS
    
    NoFdLeak
    RelaysOneConnection
    FailedIsTornDown
