SPECIFICATION Spec
CONSTANTS
    eth = eth
    usdc = usdc
    usdgToken = usdgToken
    router = router
    delegate = delegate
    alice = alice
    bob = bob
    Users = {}
    Callers = {router}
    Volatile = {eth}
    Stable = {usdc}
    USDG = usdgToken
    Router = router
    BPS = 100
    FundingPrecision = 1000
    PricePrecision = 2
    TokenUnit <- SwapUnits
    Quotes <- SwapQuotes
    MaxLeverage = 300
    FundingInterval = 1
    FundingRateFactor = 100
    StableFundingRateFactor = 100
    MinProfitBasisPoints <- MinProfit
    TokenWeights <- Weights
    TotalTokenWeights = 2
    MaxUsdgAmounts <- SwapCaps
    MaxGlobalShortSizes <- NoShortLimit
    BufferAmounts <- SwapBuffers
    FeeSettings = {}
    InitFees <- SwapFees
    StartTime = 1
    InitialPool <- SwapPool
    SizeDeltas = {}
    CollateralDeltas = {}
    SendAmounts <- SwapSends
    UsdgSettings = {}
    Switches = {}
    MaxEvents = 5
    MaxUsdgSupply = 200
    MaxTime = 1
PROPERTIES
    UsdgCoverKept
