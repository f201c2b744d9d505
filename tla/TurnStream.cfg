CONSTANTS
    MaxChanges = 4
    MaxFaults = 1
SPECIFICATION FairSpec
CHECK_DEADLOCK FALSE
INVARIANTS TypeOK LiveOutputIsComplete SettledIsTheTurn
PROPERTIES NewerEventWins SettlesOnTheFacts
