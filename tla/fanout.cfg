SPECIFICATION Spec
CONSTANTS
    Users = {u1}
    Replicas = {ra, rb}
    Sockets = {s1, s2}
    Actors = {u1}
    MaxPhase = 2
    MaxLag = 1
    MaxMishaps = 1
    Nobody = nobody
SYMMETRY FanoutSymmetry
INVARIANTS
    FanoutTypeOK
    PhaseReachesTheConnected
    BattleReachesTheConnected
    ClosedSocketsForgotten
PROPERTY ForfeitMeansGone
CHECK_DEADLOCK FALSE
