SPECIFICATION Spec
CONSTANTS
    eth = eth
    usdc = usdc
    usdgToken = usdgToken
    router = router
    delegate = delegate
    alice = alice
    bob = bob
    Users = {alice, bob}
    Callers = {router, delegate}
    Volatile = {eth}
    Stable = {}
    USDG = usdgToken
    Router = router
    BPS = 100
    FundingPrecision = 1000
    PricePrecision = 1
    TokenUnit <- Units
    Quotes <- LongQuotes
    MaxLeverage = 300
    FundingInterval = 1
    FundingRateFactor = 100
    StableFundingRateFactor = 100
    MinProfitBasisPoints <- MinProfit
    TokenWeights <- Weights
    TotalTokenWeights = 1
    MaxUsdgAmounts <- NoLimit
    MaxGlobalShortSizes <- NoShortLimit
    BufferAmounts <- NoLimit
    FeeSettings <- GovernanceFees
    InitFees <- LeverageFees
    StartTime = 1
    InitialPool <- LongPool
    SizeDeltas = {0, 1200}
    CollateralDeltas = {0, 300}
    SendAmounts <- LongSends
    UsdgSettings = {5}
    Switches = {TRUE, FALSE}
    MaxEvents = 3
    MaxUsdgSupply = 0
    MaxTime = 2
SYMMETRY UserSymmetry
INVARIANTS
    ReservedWithinPool
    ReservesMatchPositions
    GuaranteedMatchesLongs
    EntryRateBehind
    VolatileSolvent
    PayoutWithinReserve
PROPERTIES
    TradesNeverEndanger
    SurplusKept
