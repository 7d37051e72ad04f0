SPECIFICATION HostToolsSpec
CONSTANTS
    h1 = h1
    h2 = h2
    h3 = h3
    Hosts <- MCHosts
    None = None
    WarningAge = 1
    CriticalAge = 2
    MaxAge = 4
    c1 = c1
    c2 = c2
    Clients <- MCClients
INVARIANTS
    HostToolsTypeOK
    CompactedOnce
    CreateThenUpload
    BuildErrorIsReal
PROPERTIES
    SilenceNoticed
    FailuresNoticed
    AlarmClears
    UploadEnds
CHECK_DEADLOCK FALSE
