SPECIFICATION MonitoringSpec
CONSTANTS
    t1 = t1
    t2 = t2
    a = a
    b = b
    r1 = r1
    r2 = r2
    None = None
    Foreign = Foreign
    Default = Default
    Clusters <- MCClusters
    Deprecated <- MCDeprecated
    Terminals <- MCTerminals
    Reasons <- TwoReasons
    Retention = 1
    MaxTime = 4
    MaxCommands = 3
SYMMETRY MCSymmetry
CHECK_DEADLOCK FALSE
INVARIANTS
    NoImpersonationOnDisk
    MonitoringTypeOK
    ServesTheClusterItChecked
PROPERTIES
    ElevatesOnlyWithLiveReasons
    ForeignContextSurvives
    MultiTerminalsAreIsolated
