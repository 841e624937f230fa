CONSTANTS
    t1 = t1
    n1 = n1
    a1 = a1
    a2 = a2
    NoAttempt = NoAttempt
    NoNode = NoNode
    NoSignal = NoSignal
    Tasks = {t1}
    Nodes = {n1}
    Attempts = {a1, a2}
    MaxSignals = 3
    MaxFaults = 1
SPECIFICATION FairSpec
INVARIANTS
    TypeOK
    SingleFlight
    NoUnexplainedRedispatch
    DispatchedHasEvent
    UndecidedHasReason
PROPERTIES
    DecisionIsFinal
    EventuallyDecided
CHECK_DEADLOCK FALSE
