SPECIFICATION FairSpec
CONSTANTS
    q1 = q1
    q2 = q2
    a = a
    b = b
    Queries = {q1, q2}
    Keys = {a, b}
    NoKey = nokey
    Size = 2
    TTL = 1
    MaxClock = 2
INVARIANTS
    NoStaleAnswer
    
PROPERTY
    ThreadsEnd
