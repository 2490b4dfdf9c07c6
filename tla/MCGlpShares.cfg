SPECIFICATION GlpSpec
CONSTANTS
    eth = eth
    usdc = usdc
    usdgToken = usdgToken
    router = router
    delegate = delegate
    alice = alice
    bob = bob
    Users = {}
    Callers = {router}
    Volatile = {eth}
    Stable = {usdc}
    USDG = usdgToken
    Router = router
    BPS = 100
    FundingPrecision = 1000
    PricePrecision = 10
    TokenUnit <- SwapUnits
    Quotes <- ShareQuotes
    MaxLeverage = 300
    FundingInterval = 2
    FundingRateFactor = 100
    StableFundingRateFactor = 100
    MinProfitBasisPoints <- MinProfit
    TokenWeights <- Weights
    TotalTokenWeights = 1
    MaxUsdgAmounts <- NoLimit
    MaxGlobalShortSizes <- NoShortLimit
    BufferAmounts <- NoLimit
    FeeSettings = {}
    InitFees <- ShareFees
    StartTime = 2
    InitialPool <- SwapPool
    SizeDeltas = {}
    CollateralDeltas = {0}
    SendAmounts <- ShareSends
    UsdgSettings = {}
    Switches = {}
    MaxEvents = 1
    MaxUsdgSupply = 60
    MaxTime = 3
    lp1 = lp1
    lp2 = lp2
    rewardRouter = rewardRouter
    InitReady = FALSE
    InitAverages <- MigratedAverages
    ReadySettings = {FALSE}
    DirectDeltas = {}
    InPrivateLiquidationMode = FALSE
    Providers = {lp1, lp2}
    GlpHandlers = {rewardRouter}
    InitWeight = 0
    LiquidityAmounts <- Liquidity2
    GlpAmounts = {20}
    WeightSettings = {50}
    CooldownSettings = {1}
    PrivateSettings = {TRUE}
    AumSettings <- Adjustments
    MaxCooldown = 1
    MaxCalls = 3
SYMMETRY ProviderSymmetry
INVARIANTS
    DebtCoversSupply
PROPERTIES
    GlpNotDiluted
