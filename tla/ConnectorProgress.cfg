CONSTANTS
    t1 = t1
    t2 = t2
    NoTurn = NoTurn
    Turns <- OneTurn
    Conversations <- OneConv
    MaxMsgs = 3
    MaxCrashes = 1
    SteerModes <- FollowUpOnly
    ParallelLimit = 1
    SupportsCancel = FALSE
    SupportsResume = TRUE
    External = TRUE
    AgentEvents <- TaskEvents
SPECIFICATION FairSpec
CHECK_DEADLOCK FALSE
INVARIANTS DrainIsUnderWay
PROPERTIES StartupEnds InputsMoveOn FinishedTurnDrains
