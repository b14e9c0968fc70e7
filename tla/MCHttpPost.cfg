SPECIFICATION Spec
CONSTANTS
    Clients = {k1, k2}
    Streamer = k1
    Requests <- RequestsOf
    Modes <- OnAndOff
    MaxConnections = 2
    MaxHeader = 2
    MaxPayload = 1
    MaxPending = 2
    Reads = {1, 2}
    MaxArrived = 4
    MaxLog = 2
    MaxNats = 0
INVARIANTS OnePublishPerPost
CHECK_DEADLOCK FALSE
