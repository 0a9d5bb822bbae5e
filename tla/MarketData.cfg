SPECIFICATION Spec
CONSTANTS
    Books = {b1}
    Instruments = {i1, i2}
    Feeds = {a, b}
    Gaps = {g1, g2}
    Symbols = {x, y}
    Prices = {1, 2}
    MaxPending = 3
    CacheSize = 2
    FeedSeqs = 4
    MaxSeq = 3
    MaxResets = 1
    Timeout = 1
    MaxTime = 5
    MaxRequests = 3
SYMMETRY Symmetry
INVARIANTS
    TypeOK
    BookRightUnlessHole
    FeedsAccounted
    TablesAgree
PROPERTIES
    GapsHandled
CHECK_DEADLOCK FALSE
