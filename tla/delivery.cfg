CONSTANTS
    sla = sla
    coordinator = coordinator
    classified = classified
    garbage = garbage
    NoMessage = NoMessage
    Events = {classified, garbage}
    Queues = {sla, coordinator}
    BoundTo <- MCBoundTo
    MaxRetries = 1
    MaxFaults = 1
    Malformed = {garbage}
    Expiring = {classified}
SPECIFICATION FairSpec
INVARIANTS
    TypeOK
    Conservation
    NoMessageLost
    RetryStormBounded
PROPERTIES
    ImplementsDelivery
    EventuallySettled
    Quiesces
CHECK_DEADLOCK FALSE
