SPECIFICATION Spec
CONSTANTS
    Users = {u1}
    Replicas = {ra, rb}
    Sockets = {s1, s2}
    Actors = {}
    MaxPhase = 2
    MaxLag = 1
    MaxMishaps = 0
    Nobody = nobody
PROPERTY LastSocketWins
CHECK_DEADLOCK FALSE
