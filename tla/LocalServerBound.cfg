SPECIFICATION Spec
CONSTANTS
    Callers = {c1}
    MaxConnections = 1
    ChannelCapacity = 2
    MaxSessions = 2
    MaxCalls = 2
    MaxReplies = 0
INVARIANTS
    ConcurrentBound
CHECK_DEADLOCK FALSE
