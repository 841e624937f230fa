CONSTANTS
    n1 = n1
    NoNode = NoNode
    Configured = {n1}
    AutoNodes = {1, 2}
    Capacity = 1
    Cooldown = 2
    Baseline = FALSE
    MaxRetries = 1
    MaxTime = 0
    MaxPlacements = 2
    MaxScaleIns = 1
    MaxFaults = 0
SPECIFICATION Spec
INVARIANT
    UnsafeScaleInBlocked
CHECK_DEADLOCK FALSE
