SPECIFICATION Spec
CONSTANTS
    HeaderSize = 128
    Capacity = 8
    Payloads <- SomePayloads
    MaxMsgs = 5
INVARIANTS
    HeaderIntact
CHECK_DEADLOCK FALSE
