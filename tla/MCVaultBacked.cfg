SPECIFICATION Spec
CONSTANTS
    eth = eth
    usdc = usdc
    usdgToken = usdgToken
    router = router
    delegate = delegate
    alice = alice
    bob = bob
    Users = {alice, bob}
    Callers = {router}
    Volatile = {eth}
    Stable = {usdc}
    USDG = usdgToken
    Router = router
    BPS = 100
    FundingPrecision = 1000
    PricePrecision = 1
    TokenUnit <- Units
    Quotes <- ShortQuotes
    MaxLeverage = 300
    FundingInterval = 1
    FundingRateFactor = 100
    StableFundingRateFactor = 1000
    MinProfitBasisPoints <- MinProfit
    TokenWeights <- Weights
    TotalTokenWeights = 1
    MaxUsdgAmounts <- NoLimit
    MaxGlobalShortSizes <- ShortLimit
    BufferAmounts <- NoLimit
    FeeSettings = {}
    InitFees <- LeverageFees
    StartTime = 1
    InitialPool <- ShortPool
    SizeDeltas = {0, 1200}
    CollateralDeltas = {0, 300}
    SendAmounts <- ShortSends
    UsdgSettings = {}
    Switches = {}
    MaxEvents = 3
    MaxUsdgSupply = 0
    MaxTime = 2
INVARIANT
    StableBacked
