SPECIFICATION MCSpec
CONSTANTS
    Events <- MCEvents
    Relayed <- MCRelayed
    Archives <- MCArchives
    ReplayStart = 2
    ReplayEnd = 4
    Upserts <- MCUpserts
    Labels = {"spare"}
    Steps <- MCSteps
    Cuts = {3, 5}
    JitterWarning = 1
    IdleWarning = 3
    WindowWidth = 2
    MaxObservations = 3
    MaxPublished = 4
    MaxCalls = 4
    MaxHandlers = 3
    MaxSteps = 3
INVARIANTS
    EventsServed
    LinksReported
CHECK_DEADLOCK FALSE
