\* One row and one more to create, two commands, a refused write or a crash.
SPECIFICATION Spec
CONSTANTS
    None = None
    c1 = c1  c2 = c2  f = f  g = g
    Charters = {c1, c2}
    Filters = {f, g}
    Crons = {2, 3}
    Seeds <- MCSeeds
    Drafts <- MCDrafts
    Patches <- MCPatches
    MaxRows = 1
    MaxProposals = 2
    MaxEdits = 2
    MaxNow = 5
    Retries = 1
    MaxFaults = 1
    MaxMail = 2
CONSTRAINT Focus
CHECK_DEADLOCK FALSE
INVARIANTS StoreSound FiresOnce
PROPERTIES AuthorityIsGranted WithdrawalWins
