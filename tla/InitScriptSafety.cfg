SPECIFICATION FairSpec
CONSTANTS
    agent = agent
    operator = operator
    p1 = p1
    p2 = p2
    p3 = p3
    Callers <- MCCallers
    Pids <- MCPids
    ForeignPids <- MCPids
    None = None
INVARIANTS
    TypeOK
    OneDaemon
    NoOrphan
PROPERTIES
    RestartLaunches
    ImplementsSingleDaemon
    StartsAgain
