SPECIFICATION DeploySpec
CONSTANTS
    Content <- DeployContent
    Services <- MCServices
    Execs <- DeployExecs
    MaxCatalogs = 3
    v1 = v1
    v2 = v2
    Versions <- MCVersions
    Absent = Absent
    Catalogs <- MCFlows
SYMMETRY MCSymmetry
CONSTRAINTS
    OneBump
    FewCatalogs
INVARIANTS
    DeployTypeOK
    PublishedStaleHasCause
    ScheduleStaleHasCause
PROPERTIES
    UploadPublishesRun
    ImplementsProjectServer
