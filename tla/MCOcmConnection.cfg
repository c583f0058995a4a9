SPECIFICATION FairSpec
CONSTANTS
    c1 = c1
    c2 = c2
    k1 = k1
    k2 = k2
    k3 = k3
    None = None
    Callers <- MCCallers
    Connections <- MCConnections
INVARIANTS
    TypeOK
PROPERTIES
    ImplementsLease
    EveryConnectionIsClosed
