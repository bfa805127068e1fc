SPECIFICATION FairSpec
CONSTANTS
    Messages <- TwoMessages
    Workers = 1
    Attempts = 2
    Stalls = 2
INVARIANTS TypeOK FailedIsLast
PROPERTIES ImplementsOutbox EveryJobEnds
CHECK_DEADLOCK FALSE
