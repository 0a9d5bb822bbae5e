SPECIFICATION ServersSpec
CONSTANTS
    Callers = {c1}
    Msgs = {m1}
    MaxConnections = 1
    ChannelCapacity = 1
    MaxSessions = 2
    MaxCalls = 1
    LocalCallers = {c1, c2}
    LocalCapacity = 2
    LocalCalls = 2
    MaxReplies = 1
INVARIANTS
    TypesOK
PROPERTIES
    CancelledEnds
    ShutdownEnds
    SlotsReclaimed
CHECK_DEADLOCK FALSE
