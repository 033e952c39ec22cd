\* A replay-safe tool beside an effectful one; a resume marker and a wake trigger offered late.
SPECIFICATION ConversationSpec
CONSTANTS
    Runs = {r1, r2}
    CallIds = {c1}
    Sigs = {send, read}
    SafeSigs = {read}
    None = None
    Inputs = {u1, u2}
    Streaming = {}
    Seeds = {u1}
    Late = {u2}
    Unreadable = {u2}
    Jobs = {j1}
    MaxNotes = 1
    Compacts = TRUE
    Fallbacks = 1
    MaxEpoch = 2
CHECK_DEADLOCK FALSE
INVARIANTS SkipNeverExpires EveryDispatchJournaled
PROPERTIES RecordsAreFinal ClaimReleased EverySettled DrainLoopEnds
