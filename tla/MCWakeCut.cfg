\* A crash between the commit of the run's row and the commit of the wake's link.
SPECIFICATION Spec
CONSTANTS
    e1 = e1  e2 = e2
    Events = {e1}
    Fallbacks = 0
    Settings = FALSE
    Compaction = FALSE
    MaxEpoch = 1
    MaxRuns = 3
    MaxFaults = 0
    MaxCrashes = 1
INVARIANTS AnsweredOnce
