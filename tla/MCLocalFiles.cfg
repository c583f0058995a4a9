SPECIFICATION LocalSpec
CONSTANTS
    Commands = {c1, c2, c3}
    UserKeys = {proxyUrl, sessionDir}
    ServerKeys = {jiraBaseUrl}
    Values = {v1, v2}
    Terminals = {t1, t2}
    Clusters = {a, b}
SYMMETRY Symmetry
INVARIANTS
    LocalTypeOK
    ABinaryIsLeft
PROPERTIES
    KeepsTheOtherSettings
    StartsOnItsCluster
CHECK_DEADLOCK FALSE
