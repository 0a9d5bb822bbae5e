SPECIFICATION FairSpec
CONSTANTS
    Msgs = {m1, m2}
    ChannelCapacity = 2
    Configs <- AllReconnects
    MaxCounted = 2
    MaxInbound = 1
INVARIANTS
    TypeOK
    NothingStranded
    SendsConserved
    NoneIsFinal
PROPERTIES
    DisconnectEnds
    EventReachesWaiter
CHECK_DEADLOCK FALSE
