SPECIFICATION Spec
CONSTANTS
    Blank = Blank
    Unknown = Unknown
    NoRule = NoRule
    app = app
    other = other
    dom = dom
    addr = addr
    x = x
    ssh = ssh
    ch = ch
    RuleSet <- MCRules
    Connections <- MCConnections
    MaxRules = 2
    Proxies = {x, ssh}
    Chains = {ch}
    Ssh = {ssh}
INVARIANTS
    BlockedStaysClosed

    
