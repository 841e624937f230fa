CONSTANTS
    t1 = t1
    n1 = n1
    n2 = n2
    NoTask = NoTask
    NoNode = NoNode
    Tasks = {t1}
    Nodes = {n1, n2}
    Configured = {n1}
    Severities = {"low", "high"}
    MaxCooldowns = 0
    MaxFaults = 2
SPECIFICATION FairSpec
INVARIANTS
    TypeOK
PROPERTIES
    Implements
    EventuallyEnds
CHECK_DEADLOCK FALSE
