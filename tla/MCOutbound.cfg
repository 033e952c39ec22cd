\* A draft and a reply without bounds; one pane and its two sessions; one follow-up.
SPECIFICATION OutboundSpec
CONSTANTS
    None = None
    mail = mail  reply = reply  s1 = s1  s2 = s2
    Drafts = {mail, reply}
    Replies = {reply}
    Sessions = {s1, s2}
    MaxAtts = 2
    MaxSends = 2
    MaxRev = 2
    MaxMoves = 3
    MaxSeq = 4
    MaxTroubles = 2
    MaxBinds = 2
    MaxPrograms = 3
    MaxPlans = 4
    MaxMeddles = 2
INVARIANTS SentOnce StampIsTrue ManagedSendInv ObservationInv FollowupInv
PROPERTIES DecidedOnce EveryDraftDecided LatestWordWins
CONSTRAINT Focus
