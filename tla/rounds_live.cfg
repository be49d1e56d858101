SPECIFICATION PromptSpec
CONSTANTS
    P1 = p1
    P2 = p2
    None = none
    WsHandlers = {w1}
    JobHandlers = {j1}
    Wins = {none}
    InitialHp = 10
    MaxRound = 2
    MaxCrashes = 0
    MaxFaults = 0
    Eager = {}
    Flaky = {}
INVARIANT BattleHasDriver
PROPERTIES
    PlanningEnds
    BattleEnds
    SummaryEnds
    StoppedMatchCloses
CHECK_DEADLOCK FALSE
