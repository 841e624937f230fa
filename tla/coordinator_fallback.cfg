CONSTANTS
    t1 = t1
    n1 = n1
    a1 = a1
    a2 = a2
    NoAttempt = NoAttempt
    NoNode = NoNode
    NoSignal = NoSignal
    Tasks = {t1}
    Nodes = {n1}
    Attempts = {a1}
    MaxSignals = 2
    MaxFaults = 0
SPECIFICATION Spec
PROPERTY
    FallbackDecides
CHECK_DEADLOCK FALSE
