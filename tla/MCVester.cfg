SPECIFICATION SpecVester
CONSTANTS
    alice = alice
    bob = bob
    carol = carol
    vester = vester
    rewardRouter = rewardRouter
    feeGlp = feeGlp
    esGmxToken = esGmxToken
    NoReceiver = NoReceiver
    Accounts = {alice, bob, carol, vester}
    Handlers = {rewardRouter, vester}
    DepositTokens = {feeGlp}
    RewardToken = esGmxToken
    Bonus = FALSE
    Precision = 2
    BPS = 10
    BonusDuration = 1
    InitFunds = 3
    StartTime = 1
    Amounts = {2}
    Rates = {2}
    FundAmounts = {}
    PrivateSettings = {}
    DepositSettings = {}
    MaxSupply = 2
    MaxTime = 3
    VestingDuration = 2
    InitEsGmx = 1
    InitClaimFunds = 2
    BonusGrants = {1}
    FundWithdrawals = {1}
    MaxEvents = 2
SYMMETRY UserSymmetry
INVARIANTS
    VestingAddsUp
    CombinedAverageWithinStakes
VIEW VestingView
