\* A streaming message waits behind a turn that read only what stands before an unread one.
SPECIFICATION Spec
CONSTANTS
    u1 = u1  u2 = u2  u3 = u3  u4 = u4  j1 = j1
    Inputs = {u1, u2, u3}
    Streaming = {u3}
    Seeds = {}
    Late = {}
    Unreadable = {u2}
    Jobs = {}
    Fallbacks = 0
    MaxEpoch = 1
    MaxNotes = 0
    Compacts = TRUE
INVARIANT NothingLost

