SPECIFICATION Spec
CONSTANTS
    RuleIds = {1, 10}
    Apps = {firefox}
    NoApp = NoApp
    Rules <- ClientRules
    Proxies = {x}
    Pids = {p}
    DbFails = FALSE
    MaxEvents = 1
    MaxMarks = 2
SYMMETRY PidSymmetry
PROPERTY RemovalIsTargeted
