SPECIFICATION Spec
CONSTANTS
    MaxStreams = 2
    MaxCores = 2
    Clients <- TwoClients
INVARIANTS CallbacksSafe AllReleased
PROPERTIES ShutdownEnds
CHECK_DEADLOCK FALSE
