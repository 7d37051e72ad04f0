SPECIFICATION PluginsSpec
CONSTANTS
    sda = sda
    sdb = sdb
    s1 = s1
    s2 = s2
    d1 = d1
    d2 = d2
    Disks <- MCDisks
    Args <- MCArgs
    Starts <- MCStarts
    Work <- MCWork
    Size <- MCSize
    MaxSize <- MCMaxSize
    BusyPerSecond <- MCBusyPerSecond
    Servers <- MCServers
    Options <- MCOptions
    MaxValue = 2
    DataDisks <- MCDataDisks
    Nodes <- MCNodes
    Checks <- MCChecks
    MaxDuration = 4
    MaxHistory <- MCHistory
    Epoch = 10
SYMMETRY MCPluginSymmetry
INVARIANTS
    PluginsTypeOK
    CriticalReported
    OkIsEarned
    ZkSeverityReported
    ZkLeaderFound
    DisksJudged
    LongRunReported
    FailuresJudged
    FactIsPrinted
CHECK_DEADLOCK FALSE
