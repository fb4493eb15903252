SPECIFICATION MCSpec
CONSTANTS
    TagKeys <- MCTagKeys
    KeyRank <- MCKeyRank
    Reading <- MCReading
    Latency = {3, 5}
    SloInput <- MCSloInput
    EdgeBounds = {1, 3}
    HubBounds = {2, 3}
    Rules <- MCRules
    Objective <- MCObjective
    MaxTime = 3
    MaxInputs = 3
INVARIANTS
    MetricsConserve
    PartitionExact
    AlertsConsistent
    ReportFaithful
PROPERTY
    NeverFreshByItself
CHECK_DEADLOCK FALSE
