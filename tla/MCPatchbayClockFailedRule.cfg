SPECIFICATION Spec
CONSTANTS
    Sources = {"client", "jetstream"}
    Streams = 1
    Outcomes <- AllForms
    Interval <- MCInterval
    MaxTime = 4
    MaxArrivals = 3
    MaxRestarts <- OneRestart
    Reboots = FALSE
INVARIANTS TimerAlwaysCovers
