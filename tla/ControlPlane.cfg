\* Every send can time out and every command expire before the clock stops.
SPECIFICATION Spec
CONSTANTS
    Device = {d1}
    Intent = {configure, start}
    MaxEntries = 2
    DefaultTtl = 2
    MaxAttempts = 2
    InitialDelay = 1
    MaxDelay = 1
    Multiplier = 2
    AckTimeout = 1
    DueCount = 1
    ClearInFlight = FALSE
    MaxInFlight = 1
    MaxTime = 3
    MaxSubmitTime = 1
    MaxId = 2
    MaxAppended = 2
    MaxRejections = 0
    MaxRegistered = 4
    MaxObserved = 1
INVARIANTS
    SidesAgree
PROPERTIES
    EveryCommandSettles
