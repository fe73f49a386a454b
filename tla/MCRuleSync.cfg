SPECIFICATION Spec
CONSTANTS
    RuleIds = {1, 10}
    Apps = {firefox}
    NoApp = NoApp
    Rules <- ClientRules
    Proxies = {x}
    Pids = {p, q}
    DbFails = TRUE
    MaxEvents = 1
    MaxMarks = 2
SYMMETRY PidSymmetry

    
    
PROPERTY
    FreshRuleHasFreshCgroup
