SPECIFICATION Spec
CONSTANTS
    s1 = s1
    s2 = s2
    DefaultServer = s1
    BadServer = bad
    Servers = {s1, s2}
INVARIANTS
    
    OneTargetAtATime
