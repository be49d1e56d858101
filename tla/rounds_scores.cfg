SPECIFICATION PromptSpec
CONSTANTS
    P1 = p1
    P2 = p2
    None = none
    WsHandlers = {w1}
    JobHandlers = {j1}
    Wins = {p1, none}
    InitialHp = 10
    MaxRound = 3
    MaxCrashes = 1
    MaxFaults = 0
    Eager = {}
    Flaky = {}
INVARIANTS
    HpIsTheSumOfRounds
    EveryRoundCharged
    KnockoutRowAgrees
    PreviewIsCharged
CHECK_DEADLOCK FALSE
