SPECIFICATION LiveSpec
CONSTANTS
    arb = arb
    avax = avax
    keeper = keeper
    anna = anna
    ben = ben
    Zero = Zero
    NoPlan = NoPlan
    Programs = {"distributeFees", "processFees"}
    Keepers = {keeper}
    Target <- Needs
    Recipients = {anna, ben}
    Settings <- WeekSettings
    Stats <- WeekStats
    DataChoices <- WeekData
    OldReference <- LastReference
    BasisPoints = 9700
    SwapLoss = 1
    Helped = {"alt"}
    InitBalances <- WeekBalances
    InitFiles <- LastFiles
    InitAllowances = {50, 1000}
    StartTime = 53
    MaxTime = 54
    MaxCrashes = 1
    MaxBurn = 1
CHECK_DEADLOCK FALSE
INVARIANTS
    TopUpsWithinTarget
    ChecksSuffice
    PaidOnce
    CreditFollowsPayment
    PlanCovered
    EsGmxWithinLimit
PROPERTIES
    EverybodyPaid
