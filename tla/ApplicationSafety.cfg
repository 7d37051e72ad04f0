SPECIFICATION Spec
CONSTANTS
    Content <- MCContent
    Services <- MCServices
    Execs <- MCExecs
    v1 = v1
    v2 = v2
    Versions <- MCVersions
    Absent = Absent
    Catalogs <- AllCatalogs
SYMMETRY MCSymmetry
INVARIANTS
    TypeOK
    NoSilentStaleness
    EventsWithinRun
    CleanRunConverges
    StaleOnlyWhereUnwatched
PROPERTIES
    AgentLoadsWholeConfig
    WritesOnRequired
    BrokerStartsReloaded
