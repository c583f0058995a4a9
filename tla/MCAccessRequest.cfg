SPECIFICATION Spec
CONSTANTS
    p1 = p1
    p2 = p2
    a = a
    None = None
    People <- MCPeople
    Clusters <- MCClusters
    MaxCommands = 3
SYMMETRY MCSymmetry
CHECK_DEADLOCK FALSE
INVARIANTS
    TypeOK
    DuplicatesOnlyByOverlap
    ErrorIssuesHaveNoKnownRequest
    OwnIssuesAreSettled
    NotifiesInItsProject
