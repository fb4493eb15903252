\* Batches of three packets or three bytes; the age limit ends before the clock.
SPECIFICATION Spec
CONSTANTS
    d1 = d1
    Packets <- MCPackets
    MaxBatchPackets = 3
    MaxBatchBytes = 3
    MaxAge = 2
    DeadlineSlack = 1
    FlushThreshold = 3
    IsolateControl = TRUE
    PreserveOrder = TRUE
    QueueCapacity = 4
    PayloadCapacity = 8
    MinDelay = 1
    PressureMaxDelay = 3
    MaxDownsample = 4
    ProtectControl = TRUE
    WatchRatio = 50
    ThrottleRatio = 70
    ShedRatio = 85
    StopRatio = 97
    MaxTime = 4
    MaxSubmitTime = 2
    MaxOffered = 3
    MaxHeldBack = 2
INVARIANTS
    BatchesExact
    PressureSound
PROPERTIES
    BatchesLeave
