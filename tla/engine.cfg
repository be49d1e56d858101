SPECIFICATION Spec
CONSTANTS
    P1Ids = {1, 2}
    P2Ids = {3, 4}
    P1Boards <- P1Teams
    P2Boards <- P2Teams
    MAX_CYCLES = 30
INVARIANTS
    EngineTypeOK
    ReplayAgrees
    SomebodyStands
CHECK_DEADLOCK FALSE
