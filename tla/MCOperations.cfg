SPECIFICATION LiveSpec
CONSTANTS
    MaxLag = 1
    Tries = 2
    Difference = 0
    MaxTrades = 2
    MaxRuns = 2
    MaxFaults = 1
    Moves <- MCMoves
    Removals <- MCRemovals
    Traded = {"eth", "usdc"}
    MaxAmount = 1
    MaxDeposits = 2
    MaxConfigs = 1
    Inputs <- MCInputs
    BatchSize = 2
    EsGmxApproval = 10
    Remap <- MCRemap
    MaxFailures = 6
CHECK_DEADLOCK FALSE
INVARIANTS
    EndsCleanly
    TrackerIsCurrent
    PermissionsTogether
    WorkedThrough
PROPERTIES
    RunsEnd
    DebtsWithinSupply
