CONSTANTS
    t1 = t1
    t2 = t2
    n1 = n1
    n2 = n2
    NoTask = NoTask
    NoNode = NoNode
    Tasks = {t1, t2}
    Nodes = {n1, n2}
    Configured = {n1}
    Severities = {"low"}
    MaxCooldowns = 1
    MaxFaults = 0
SPECIFICATION Spec
INVARIANTS
    NoneStranded
SYMMETRY Symmetry
CHECK_DEADLOCK FALSE
