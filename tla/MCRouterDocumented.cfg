SPECIFICATION MCSpec
CONSTANTS
    MaxTokens = 2
    Words = {"a", "b", "x", "$STATS"}
    Conns = {c1, c2}
    Sids = {1}
    Subjects <- BothSubjects
    Filters <- BothFilters
    Queues = {"", "q"}
    NoQueue = ""
    LvcFilters <- NarrowLvc
    Kinds = {TRUE, FALSE}
    Budgets = {1, 9}
    MaxPending = 2
    MaxSubsPerConn = 2
    MaxSubsTotal = 3
    MaxLvcEntries = 2
    MaxLvcBytes = 3
    Sizes = {1, 2}
    MaxMsgs = 1
    MaxPublishes = 3
    MaxGroupPublishes = 2
    MaxAccepts = 2
    Key = {1, 2, 3, 4}
    Hashes = {0, 1, 7}
    MinCap = 4
    MaxPerBucket = 1
INVARIANTS MatchingAsDocumented
SYMMETRY ConnSymmetry
CHECK_DEADLOCK FALSE
