SPECIFICATION MCSpec
CONSTANTS
    CorruptTime = 7
    TimeModulus = 8
    PathOrder <- MCPathOrder
    ShardPath <- MCShardPath
    RepairedPath <- MCRepairedPath
    QuarantinePath <- MCQuarantinePath
    Inputs <- MCInputs
    Contents <- MCContents
    Policies <- MCPolicies
    CompactionTargets = {"archive-2", "archive-3"}
    CompactionOptions <- MCCompactionOptions
    RepairOptions <- MCRepairOptions
    Queries <- MCQueries
    Damages = {"trailer", "time", "length", "frame", "torn"}
    RangeBounds = {0, 2, 3, 5, 6, 7}
    MaxSteps = 3
INVARIANTS
    RotationExact
    RepairFaithful
    CompactionExact
    CatalogSound
    SearchSound
    CollectionAccounts
    RangesExact
CHECK_DEADLOCK FALSE
