SPECIFICATION FairSpec
CONSTANTS
    s5 = s5
    s4 = s4
    http = http
    ssh = ssh
    Proxies = {s5, s4, http, ssh}
    Type <- MCType
    HasAuth <- MCHasAuth
    Chains <- MCChains
    Dst = Dst
    BufSize = 3
    MaxAhead = 3
CHECK_DEADLOCK FALSE
INVARIANTS
    TunnelIsAsBelieved
    InStep
PROPERTY
    ConnectEnds
