SPECIFICATION Spec
CONSTANTS
    alice = alice
    bob = bob
    carol = carol
    dave = dave
    Clients = {alice, bob, carol, dave}
    Prompt = {alice, carol, dave}
    SystemUsers = {dave}
    NoFd = NoFd
    MaxClients = 2
    BufSize = 3
    MaxRetries = 1
    Casters = {t}
    Main = Main
    Scripts <- MCScripts
    MaxCasts = 1
CHECK_DEADLOCK FALSE
INVARIANTS
    SlotsAreClients
    
PROPERTIES
    WaitingIsServed
    StopIsHeard
