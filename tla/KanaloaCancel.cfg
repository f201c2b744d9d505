CONSTANTS
    j1 = j1
    j2 = j2
    NoJob = NoJob
    NoTurn = NoTurn
    Turns = {t1}
    Jobs = {j1, j2}
    Kinds <- SendsOnly
    Permissions = {p1}
    LoopLimit = 2
    MaxSessions = 2
    MaxDeaths = 0
    MaxDeletes = 0
SPECIFICATION FairSpec
CHECK_DEADLOCK FALSE
PROPERTIES PromptsAreForActiveTurns
