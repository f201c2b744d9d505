CONSTANTS
    t1 = t1
    t2 = t2
    NoTurn = NoTurn
    Turns <- OneTurn
    Conversations <- OneConv
    MaxMsgs = 3
    MaxCrashes = 1
    SteerModes <- AllModes
    ParallelLimit = 1
    SupportsCancel = TRUE
    SupportsResume = TRUE
    External = FALSE
    AgentEvents <- AllEvents
SPECIFICATION FairSpec
CHECK_DEADLOCK FALSE
INVARIANTS TypeOK AtMostOnce NoLostInput PendingHasOneOwner MailboxFaithful NoPhantomRun
PROPERTIES ImplementsLedger StoppedTurnKeepsOutput StartupEnds InputsMoveOn
