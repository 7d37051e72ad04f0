SPECIFICATION CalmSpec
CONSTANTS
    Content <- DeployContent
    Services <- MCServices
    Execs <- DeployExecs
    MaxCatalogs = 2
    v1 = v1
    v2 = v2
    Versions <- MCVersions
    Absent = Absent
    Catalogs <- MCScheduled
CONSTRAINTS
    OneBump
    FewCatalogs
PROPERTIES
    ScheduleApplied
