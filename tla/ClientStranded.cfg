SPECIFICATION FairSpec
CONSTANTS
    Msgs = {m1}
    ChannelCapacity = 2
    Configs <- UnlimitedReconnects
    MaxCounted = 1
    MaxInbound = 0
PROPERTIES
    DisconnectHonoured
CHECK_DEADLOCK FALSE
