CONSTANTS
    Turns = {t1}
    MaxSends = 2
    MaxStarts = 2
    MaxLosses = 1
    MaxEvents = 1
SPECIFICATION FairSpec
CHECK_DEADLOCK FALSE
INVARIANTS TypeOK EventsHaveADispatcher IdleTurnIsTold
PROPERTIES CommandsEnd NoTurnIsLeftActive
