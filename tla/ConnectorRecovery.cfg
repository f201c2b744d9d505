CONSTANTS
    t1 = t1
    t2 = t2
    NoTurn = NoTurn
    Turns <- OneTurn
    Conversations <- OneConv
    MaxMsgs = 2
    MaxCrashes = 2
    SteerModes <- AllModes
    ParallelLimit = 1
    SupportsCancel = TRUE
    SupportsResume = TRUE
    External = TRUE
    AgentEvents <- SocketEvents
SPECIFICATION Spec
CHECK_DEADLOCK FALSE
INVARIANTS LedgerInv PendingHasOneOwner NoPhantomRun
PROPERTIES ImplementsLedger StoppedTurnKeepsOutput
