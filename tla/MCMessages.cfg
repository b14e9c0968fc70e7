\* The path of a message: the router with its index, a connection with its parser, the rules.
SPECIFICATION MessagesSpec
CONSTANTS
    MaxTokens = 4
    Words = {"a", "b", "x", "$STATS"}
    Conns = {c1, c2}
    Sids = {1}
    Subjects <- BothSubjects
    Filters <- BothFilters
    Queues = {"", "q"}
    NoQueue = ""
    LvcFilters <- NarrowLvc
    Kinds = {TRUE, FALSE}
    Budgets = {1, 9}
    MaxPending = 2
    MaxSubsPerConn = 2
    MaxSubsTotal = 3
    MaxLvcEntries = 2
    MaxLvcBytes = 3
    Sizes = {1, 2}
    MaxMsgs = 1
    MaxPublishes = 3
    MaxGroupPublishes = 2
    MaxAccepts = 2
    Key = {1, 2, 3, 4}
    Hashes = {0, 1, 7}
    MinCap = 2
    MaxPerBucket = 1

    TLS = {TRUE, FALSE}
    Auth = TRUE
    MaxConnPending = 3
    RecordOverhead = 1
    MaxFlights = 2
    MaxItems = 7
    MaxControlLine = 11
    MaxPayload = 2
    RxSlack = 2
    SizeMax = 499
    Pieces <- MCPieces
    SomeOps <- MCOps

    Programs <- SomePrograms
    Messages <- SomeMessages
    Exports <- SomeExports
    NoRoom <- Full
    MaxReentry = 2
    IndexFrom = 2
    MaxHandled = 4
    MaxNow = 4
INVARIANTS RegistryExact ScratchFits LvcConverges MatchingExact IndexExact
           PendingBounded StreamIntact NoStalledOutput CutsIrrelevant FramingExact
           RulesExact EvaluationStable EmissionsExact OneSlotPerKey
PROPERTIES ExactDelivery
SYMMETRY ConnSymmetry
