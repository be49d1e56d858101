SPECIFICATION Spec
CONSTANTS
    m1 = m1
    m2 = m2
    a = a
    b = b
    Matches = {m1, m2}
    Players = {a, b}
    PlayersOf <- TwoMatches
    Finalizers = {f1, f2}
    Watched = {a}
    Readers = {r1}
    MaxMishaps = 1
SYMMETRY AftermathSymmetry
INVARIANTS
    AftermathTypeOK
    StaleStatsWereOvertaken
    StaleBoardsWereBehind
CHECK_DEADLOCK FALSE
