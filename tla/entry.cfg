SPECIFICATION Spec
CONSTANTS
    Users = {u1, u2}
    Queuers = {u1, u2}
    Polls = {t1}
    MaxMatches = 2
    MaxMishaps = 1
    Rooms = {r1}
    Requests = {h1, h2}
    Nobody = nobody
SYMMETRY EntrySymmetry
CONSTRAINT OneFront
INVARIANTS
    EntryTypeOK
    NobodyLost
    QueueMatchesOnce
    MembershipAgrees
    HandoffOnce
    OneMatchTold
CHECK_DEADLOCK FALSE
