SPECIFICATION FairSpec
CONSTANTS
    Descs = {d1, d2, d3, d4}
    BATCH_SIZE = 2
    Peers = {p1}
    MaxPackets = 2
    MaxSends = 1
PROPERTIES
    SendIsTransmitted
CHECK_DEADLOCK FALSE
