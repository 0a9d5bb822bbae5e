SPECIFICATION Spec
CONSTANTS
    Senders = {s1, s2}
    Receivers = {r1, r2}
    Tasks = {t1, t2}
    Values = {v1, v2}
    Capacity = 2
    SpscItems = 6
    MpscItems = 2
    MaxSends = 5
    MaxWaiting = 1
    MaxCalls = 3
INVARIANTS
    TypeOK
    NoSilentLoss
    WaitersToldTruth
    NoDataRace
    BuffersAccounted
    MessagesInOrder
    CqBounded
    ReleasedOnce
PROPERTIES
    ImplementsFifo
    WaitsEnd
CHECK_DEADLOCK FALSE
