CONSTANTS
    agent = agent
    api = api
    e1 = e1
    e2 = e2
    Agents = {agent}
    Api = api
    Events = {e1, e2}
    Expired = {e2}
    Attempts = 2
    MaxOutages = 1
    MaxExits = 2
    MaxFailures = 1
SPECIFICATION FairSpec
INVARIANTS
    PublishedInOrder
    CommittedSettled
PROPERTIES
    EventuallyReady
    EventuallyConsumed
CHECK_DEADLOCK FALSE
