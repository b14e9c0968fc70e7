SPECIFICATION FairSpec
CONSTANTS
    MaxVersion = 3
    MaxFailures = 2
    MaxRestarts = 2
INVARIANTS FinalIsLatest FileWhole
PROPERTIES EventuallySaved
