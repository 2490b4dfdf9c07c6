SPECIFICATION GlpSpec
CONSTANTS
    eth = eth
    usdc = usdc
    usdgToken = usdgToken
    router = router
    delegate = delegate
    alice = alice
    bob = bob
    Users = {alice, bob}
    Callers = {router}
    Volatile = {eth}
    Stable = {usdc}
    USDG = usdgToken
    Router = router
    BPS = 100
    FundingPrecision = 1000
    PricePrecision = 1
    TokenUnit <- Units
    Quotes <- ShortQuotes
    MaxLeverage = 300
    FundingInterval = 1
    FundingRateFactor = 100
    StableFundingRateFactor = 100
    MinProfitBasisPoints <- MinProfit
    TokenWeights <- Weights
    TotalTokenWeights = 1
    MaxUsdgAmounts <- NoLimit
    MaxGlobalShortSizes <- ShortLimit
    BufferAmounts <- NoLimit
    FeeSettings = {}
    InitFees <- LeverageFees
    StartTime = 1
    InitialPool <- SwapPool
    SizeDeltas = {1200}
    CollateralDeltas = {0}
    SendAmounts <- ShortSends
    UsdgSettings = {}
    Switches = {}
    MaxEvents = 3
    MaxUsdgSupply = 2400
    MaxTime = 2
    lp1 = lp1
    lp2 = lp2
    rewardRouter = rewardRouter
    InitReady = TRUE
    InitAverages <- MigratedAverages
    ReadySettings = {}
    DirectDeltas = {1200}
    InPrivateLiquidationMode = FALSE
    Providers = {lp1}
    GlpHandlers = {}
    InitWeight = 100
    LiquidityAmounts <- ShortPoolDeposit
    GlpAmounts = {1200}
    WeightSettings = {}
    CooldownSettings = {}
    PrivateSettings = {}
    AumSettings = {}
    MaxCooldown = 0
    MaxCalls = 1
SYMMETRY UserSymmetry
INVARIANTS
    ShortSizesMatchPositions
    AumComputable
PROPERTIES
    EquityConserved
    TradesLeaveAum
