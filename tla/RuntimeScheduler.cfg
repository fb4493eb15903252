\* Two devices with fewer slots than the first has tasks.
SPECIFICATION Spec
CONSTANTS
    d1 = d1
    d2 = d2
    labelA = labelA
    NoLabel = NoLabel
    Device <- MCDevice
    Label <- MCLabel
    Time <- MCTime
    TaskInputs <- MCTaskInputs
    MaxTasks = 3
    PerDeviceBurst = 2
    FairnessWindow = 0
    RejectDuplicateLabels = TRUE
    MaxId = 3
    MaxEnqueued = 3
    MaxRetries = 1
    MaxRejections = 1
INVARIANTS
    TypeOK
    RunningAccounting
    TasksAccounted
PROPERTIES
    ImplementsDeviceSlots
    PickOrder
    FinishedIsFinal
