SPECIFICATION GlpSpec
CONSTANTS
    eth = eth
    usdc = usdc
    usdgToken = usdgToken
    router = router
    delegate = delegate
    alice = alice
    bob = bob
    Users = {}
    Callers = {router}
    Volatile = {eth}
    Stable = {usdc}
    USDG = usdgToken
    Router = router
    BPS = 100
    FundingPrecision = 1000
    PricePrecision = 10
    TokenUnit <- SwapUnits
    Quotes <- ShareQuotes
    MaxLeverage = 300
    FundingInterval = 2
    FundingRateFactor = 100
    StableFundingRateFactor = 100
    MinProfitBasisPoints <- MinProfit
    TokenWeights <- Weights
    TotalTokenWeights = 1
    MaxUsdgAmounts <- NoLimit
    MaxGlobalShortSizes <- NoShortLimit
    BufferAmounts <- NoLimit
    FeeSettings = {}
    InitFees <- ShareFees
    StartTime = 2
    InitialPool <- SwapPool
    SizeDeltas = {}
    CollateralDeltas = {0}
    SendAmounts <- ShareSends
    UsdgSettings = {}
    Switches = {}
    MaxEvents = 0
    MaxUsdgSupply = 60
    MaxTime = 3
    lp1 = lp1
    lp2 = lp2
    rewardRouter = rewardRouter
    InitReady = FALSE
    InitAverages = {}
    ReadySettings = {}
    DirectDeltas = {}
    InPrivateLiquidationMode = FALSE
    Providers = {lp1, lp2}
    GlpHandlers = {rewardRouter}
    InitWeight = 0
    LiquidityAmounts <- Liquidity2
    GlpAmounts = {20}
    WeightSettings = {50, 150}
    CooldownSettings = {}
    PrivateSettings = {}
    AumSettings = {}
    MaxCooldown = 1
    MaxCalls = 2
INVARIANTS
    WeightValid
