SPECIFICATION Spec
CONSTANTS
    P1 = p1
    P2 = p2
    None = none
    WsHandlers = {w1}
    JobHandlers = {j1}
    Wins = {p1}
    InitialHp = 10
    MaxRound = 2
    MaxCrashes = 1
    MaxFaults = 1
    Eager = {}
    Flaky = {p2}
INVARIANTS
    TypeOK
    DamageOnce
    DamageFromOwnCombat
    ClosedMatchIsStopped
    RatedOnce
PROPERTIES
    ClosedStaysClosed
    ImplementsLifecycle
CHECK_DEADLOCK FALSE
