SPECIFICATION FairSpec
CONSTANTS
    Content <- MCContent
    Services <- MCServices
    Execs <- MCExecs
    v1 = v1
    v2 = v2
    Versions <- MCVersions
    Absent = Absent
    Catalogs <- SmallCatalogs
PROPERTIES
    Convergence
