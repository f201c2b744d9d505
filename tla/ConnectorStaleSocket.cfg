CONSTANTS
    MaxSockets = 2
    MaxCodes = 2
    MaxRevokes = 1
    MaxRestarts = 0
    MaxApplied = 2
    CacheLimit = 1
    Sends = {"send"}
    Answers = {"answer"}
    Events <- TwoEvents
    EventKind <- TwoKinds
    ReplyOf <- OneReply
SPECIFICATION Spec
CHECK_DEADLOCK FALSE
INVARIANTS LiveSocketIsOnline
