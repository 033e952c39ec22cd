\* Crashes, stops, resumes and hand-offs; the store never refuses a write.
SPECIFICATION Spec
CONSTANTS
    e1 = e1  e2 = e2
    Events = {e1, e2}
    Fallbacks = 1
    Settings = FALSE
    Compaction = FALSE
    MaxEpoch = 2
    MaxRuns = 3
    MaxFaults = 0
    MaxCrashes = 1
SYMMETRY Symmetric
INVARIANTS RunDecides Accounted

