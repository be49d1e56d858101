SPECIFICATION Spec
CONSTANTS
    Users = {u1, u2, u3}
    Queuers = {u2, u3}
    Polls = {t1}
    MaxMatches = 2
    MaxMishaps = 0
    Rooms = {r1}
    Requests = {h1, h2}
    Nobody = nobody
INVARIANTS
    AdoptsOwnMatch
CHECK_DEADLOCK FALSE
