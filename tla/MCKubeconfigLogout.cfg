SPECIFICATION MonitoringSpec
CONSTANTS
    t1 = t1
    t2 = t2
    a = a
    b = b
    r1 = r1
    r2 = r2
    None = None
    Foreign = Foreign
    Default = Default
    Clusters <- MCClusters
    Deprecated <- MCDeprecated
    Terminals <- OneTerminal
    Reasons <- MCReasons
    Retention = 1
    MaxTime = 3
    MaxCommands = 3
CHECK_DEADLOCK FALSE
INVARIANT ContextsKeepTheirUser
