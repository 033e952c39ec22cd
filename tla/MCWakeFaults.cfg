\* Refused writes, a crash, settings changes; every development gets a disposition.
SPECIFICATION FairSpec
CONSTANTS
    e1 = e1  e2 = e2
    Events = {e1}
    Fallbacks = 1
    Settings = TRUE
    Compaction = TRUE
    MaxEpoch = 2
    MaxRuns = 2
    MaxFaults = 1
    MaxCrashes = 1
INVARIANTS ProcessedOnce
PROPERTIES StopRevokes EveryWakeDecided
