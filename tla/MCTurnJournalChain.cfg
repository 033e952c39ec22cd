CONSTANTS
    Runs = {r1, r2, r3}
    CallIds = {c1, c2}
    Sigs = {send}
    SafeSigs = {}
    None = None
    MaxExecs = 3
    MaxInputs = 0
SPECIFICATION Spec
SYMMETRY Symmetric
CONSTRAINT Bound
CHECK_DEADLOCK FALSE
INVARIANTS
    IInv
    NoUnauthorizedRepeat
    GrantSpentOnce
    NoFork
    DecidedBeforeResumed

