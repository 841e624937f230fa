CONSTANTS
    sla = sla
    coordinator = coordinator
    classified = classified
    garbage = garbage
    NoMessage = NoMessage
    Events = {classified}
    Queues = {sla, coordinator}
    BoundTo <- MCBoundTo
    MaxRetries = 3
    MaxFaults = 0
    Malformed = {}
    Expiring = {}
SPECIFICATION Spec
INVARIANT
    RedeliveriesWithinLimit
CHECK_DEADLOCK FALSE
