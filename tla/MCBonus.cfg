SPECIFICATION Spec
CONSTANTS
    alice = alice
    bob = bob
    rewardRouter = rewardRouter
    gmx = gmx
    esGmx = esGmx
    Accounts = {alice, bob}
    Handlers = {rewardRouter}
    DepositTokens = {gmx, esGmx}
    RewardToken = esGmx
    Bonus = TRUE
    Precision = 1
    BPS = 2
    BonusDuration = 1
    InitFunds = 4
    StartTime = 1
    Amounts = {1}
    Rates = {3}
    FundAmounts = {1}
    PrivateSettings <- PrivateOrNot
    DepositSettings = {FALSE}
    MaxSupply = 2
    MaxTime = 2
SYMMETRY AccountSymmetry
INVARIANTS
    Solvent
    StakesAddUp
    AverageComputable
PROPERTIES
    EarningsKept
