CONSTANTS
    t1 = t1
    NoTask = NoTask
    Tasks = {t1}
    Payload <- Payloads
    MaxAge = 1
    MaxFaults = 1
SPECIFICATION FairSpec
INVARIANTS
    TypeOK
    GhostsExplained
    QueuesAgree
    AnnouncedOrParked
PROPERTIES
    ScoresSettle
CHECK_DEADLOCK FALSE
