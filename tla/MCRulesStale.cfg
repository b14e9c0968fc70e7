SPECIFICATION RulesSpec
CONSTANTS
    Words = {"a", "b", "x", "y", "count", "full"}
    MinCap = 2
    Programs <- StalePrograms
    Messages <- SomeMessages
    Exports <- SomeExports
    NoRoom <- Full
    MaxReentry = 2
    IndexFrom = 2
    MaxHandled = 4
    MaxNow = 4
INVARIANTS EvaluationStable
CHECK_DEADLOCK FALSE
