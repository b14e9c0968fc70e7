\* The importer: two slots and enough messages for the ring to fill, wrap around and
\* overflow, start failing at any step, shutdown at any point.
CONSTANTS
    RingCap = 2
    MaxMsgs = 5
SPECIFICATION FairSpec
INVARIANTS Conservation NoLostWakeup PeekStillHead WorkerOutlived CleanShutdown
PROPERTIES ImplementsQueue QueuedIsTaken CloseTerminates
