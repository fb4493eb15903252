SPECIFICATION MCSpec
CONSTANTS
    MaxFrequency <- MCMaxFrequency
    MaxChannel = 10000
    InitialPlans <- MCInitialPlans
    Allocations <- MCAllocations
    Profiles <- MCProfiles
    MergedId = 5
    Lookups <- MCLookups
    Frames <- MCFrames
    Times = {1, 2, 3}
    Expected <- MCExpected
    Detector <- MCDetector
    Rules <- MCRules
    Capacity = 2
    Tolerance = 4
    Receivers <- MCReceivers
    Requests <- MCRequests
    Resolution = 1
    MaxSteps = 4
INVARIANTS
    PlanningSound
    FindingsFollowed
    HistoryExact
    CalibrationSound
CHECK_DEADLOCK FALSE
