\* A resumed run overflows and its continuation completes.
SPECIFICATION Spec
CONSTANTS
    e1 = e1  e2 = e2
    Events = {e1}
    Fallbacks = 0
    Settings = FALSE
    Compaction = TRUE
    MaxEpoch = 1
    MaxRuns = 3
    MaxFaults = 0
    MaxCrashes = 1
INVARIANTS RunDecides
