CONSTANTS
    t1 = t1
    n1 = n1
    NoTask = NoTask
    NoNode = NoNode
    NoMessage = NoMessage
    Tasks = {t1}
    Nodes = {n1}
    Critical = {t1}
    MaxDispatches = 1
    MaxDuplicates = 0
    MaxRequests = 0
    MaxFailures = 1
    MaxFaults = 0
SPECIFICATION Spec
PROPERTY
    NodeFailureStands
CHECK_DEADLOCK FALSE
