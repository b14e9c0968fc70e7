SPECIFICATION Spec
CONSTANTS
    Sources = {"client", "import", "jetstream"}
    Streams = 2
    Outcomes <- MCOutcomes
    Interval <- MCInterval
    MaxTime = 4
    MaxArrivals = 3
    MaxRestarts <- OneRestart
    Reboots = TRUE
INVARIANTS TimerCovers
PROPERTIES QuietForms TickProgress BarsClosedByTick
