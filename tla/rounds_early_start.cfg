SPECIFICATION Spec
CONSTANTS
    P1 = p1
    P2 = p2
    None = none
    WsHandlers = {w1, w2}
    JobHandlers = {j1}
    Wins = {none}
    InitialHp = 10
    MaxRound = 2
    MaxCrashes = 0
    MaxFaults = 0
    Eager = {}
    Flaky = {}
PROPERTIES
    StartIsAgreed
CHECK_DEADLOCK FALSE
