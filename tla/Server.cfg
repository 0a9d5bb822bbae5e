SPECIFICATION MCSpec
CONSTANTS
    Callers = {c1, c2}
    Msgs = {m0}
    MaxConnections = 1
    ChannelCapacity = 2
    MaxSessions = 2
    MaxCalls = 2
    OrderCallers = {c0}
    OrderMsgs = {m1, m2}
    OrderConnections = 2
    OrderCapacity = 2
    OrderSessions = 2
SYMMETRY Symmetry
INVARIANTS
    TypeOK
    NoLostWakeup
    RegistryAgrees
    ConnectionBound
    SlotAccounted
    EventsTruthful
    DeliveryOrder
CHECK_DEADLOCK FALSE
