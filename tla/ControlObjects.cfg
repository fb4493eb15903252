SPECIFICATION MCSpec
CONSTANTS
    d1 = d1
    d2 = d2
    configure = configure
    start = start
\* CommandJournal: a table of three entries, two attempts per command.
    Device <- MCDevice
    Intent <- MCIntent
    Commands <- MCCommands
    Acks <- MCJournalAcks
    Time = {0, 1, 4}
    DueCounts = {1, 3}
    MaxEntries = 3
    DefaultTtl = 5
    MaxAttempts = 2
    InitialDelay = 1
    MaxDelay = 3
    Multiplier = 2
    MaxId = 3
    MaxAppended = 3
    MaxRejections = 1
\* AckTracker
    Expectations <- MCExpectations
    ObservedAcks <- MCAcks
    TrackerTime = {1, 2, 3}
    MaxRegistered = 4
    MaxObserved = 4
\* DeviceLimiter
    LimitedDevice <- MCLimitedDevice
    DefaultLimit <- MCDefaultLimit
    Limits <- MCLimits
    LeaseTtl = 2
    Ttls = {0, 1}
    Costs = {0, 1, 3}
    AllowUnknown = TRUE
    LimiterTime = {1, 2, 4, 8}
    OneSecond = 3
    MaxLeases = 2
INVARIANTS
    VerdictMatchesCounts
    CommandsAccounted
    LeasesSound
    TokensSound
PROPERTIES
    OutcomeFinal
