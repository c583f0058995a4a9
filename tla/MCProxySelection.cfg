SPECIFICATION FairSpec
CONSTANT MaxProxies <- MCMaxProxies
INVARIANTS
    TypeOK
    NoSendOnClosedChannel
PROPERTIES
    FallsBackOnlyWhenNoneIsLeft
    ImplementsProxyChoice
    EveryCallFinishes
