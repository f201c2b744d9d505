CONSTANTS
    t1 = t1
    t2 = t2
    NoTurn = NoTurn
    Turns <- OneTurn
    Conversations <- OneConv
    MaxMsgs = 3
    MaxCrashes = 0
    SteerModes <- FollowUpOnly
    ParallelLimit = 1
    SupportsCancel = FALSE
    SupportsResume = FALSE
    External = FALSE
    AgentEvents <- ReplyEvents
SPECIFICATION Spec
CHECK_DEADLOCK FALSE
PROPERTIES FollowupWaitsForTurn
