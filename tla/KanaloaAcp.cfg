CONSTANTS
    j1 = j1
    j2 = j2
    NoJob = NoJob
    NoTurn = NoTurn
    Turns = {t1}
    Jobs = {j1, j2}
    Kinds <- WorkThenControl
    Permissions = {p1}
    LoopLimit = 2
    MaxSessions = 2
    MaxDeaths = 1
    MaxDeletes = 1
SPECIFICATION Spec
CHECK_DEADLOCK FALSE
INVARIANTS TypeOK WaitingTurnHasItsRequest StopEndsLoop NobodyWaitsForNothing
PROPERTIES CompletionNeedsAnAnswer
