CONSTANTS
    t1 = t1
    n1 = n1
    NoTask = NoTask
    NoNode = NoNode
    NoMessage = NoMessage
    Tasks = {t1}
    Nodes = {n1}
    Critical = {t1}
    MaxDispatches = 2
    MaxDuplicates = 1
    MaxRequests = 1
    MaxFailures = 1
    MaxFaults = 1
SPECIFICATION Spec
INVARIANTS
    TypeOK
    OutcomePerDispatch
    ReservationsAccounted
    RunningIsLive
    RowMatchesLastEvent
    StoresAgree
PROPERTY
    DoneStands
CHECK_DEADLOCK FALSE
