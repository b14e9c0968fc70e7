\* Catch-up, crash, restart and live delivery of a filtered consumer.
CONSTANTS
    MaxSeq = 4
    Matching <- MCMatching
    Batch = 2
    CatchUp = TRUE
    MaxDeliveries = 3
    MaxRestarts = 1
SPECIFICATION FairSpec
INVARIANTS AckedWasApplied OneOwner NothingSkipped
PROPERTIES StreamTimeMonotone CloseTerminates
