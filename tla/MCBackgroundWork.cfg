\* Long-term memory, delegations and subagent runs.  A conversation may rest for good.
SPECIFICATION BackgroundSpec
CONSTANTS
    None = None
    MaxDocs = 2
    MaxOps = 2
    MaxLosses = 1
    MaxPrompts = 2
    MaxSeq = 3
    MaxFaults = 1
    MaxRows = 2
    MaxRuns = 1
    MaxRev = 2
    MaxTroubles = 3
INVARIANTS RetentionInv  SubagentInv
PROPERTIES KeepsThePromise EndsOnce
CONSTRAINT Focus
CHECK_DEADLOCK FALSE
