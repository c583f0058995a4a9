SPECIFICATION FairSpec
CONSTANTS
    p1 = p1
    p2 = p2
    a = a
    b = b
    None = None
    MaxSwitches = 1
    JoinsNetwork = FALSE
    Clusters <- MCClusters
    Modern <- MCModern
    Runs <- MCRuns
CHECK_DEADLOCK FALSE
INVARIANTS
    TypeOK
    CleanUpIsComplete
    PrecleanRemovesLeftovers
PROPERTIES
    PluginIsStoppedFirst
    SignalEndsTheRun
