\* A streaming message among headless ones, a steer that may not convert, a /compact;
\* a late trigger and a note where Focus admits them.
SPECIFICATION Spec
CONSTANTS
    u1 = u1  u2 = u2  u3 = u3  u4 = u4  j1 = j1
    Inputs = {u1, u2, u3, u4}
    Streaming = {u2}
    Seeds = {}
    Late = {u4}
    Unreadable = {u3}
    Jobs = {j1}
    Fallbacks = 0
    MaxEpoch = 3
    MaxNotes = 1
    Compacts = TRUE
CONSTRAINT Focus
INVARIANTS HeldAndRead FoldSparesUnanswered LostOnlyOverWaiting
PROPERTY FenceHolds
