CONSTANTS
    n1 = n1
    NoNode = NoNode
    Configured = {n1}
    AutoNodes = {1, 2, 3, 4}
    Capacity = 1
    Cooldown = 2
    Baseline = FALSE
    MaxRetries = 1
    MaxTime = 2
    MaxPlacements = 2
    MaxScaleIns = 1
    MaxFaults = 2
SPECIFICATION FairSpec
INVARIANTS
    TypeOK
    ReservationsKept
    FailureSticks
    ScaleInSafe
    ScaleOutsBounded
PROPERTIES
    ScaleAnswered
CHECK_DEADLOCK FALSE
