SPECIFICATION Spec
CONSTANTS
    alice = alice
    bob = bob
    keeper = keeper
    weth = weth
    usdc = usdc
    NoRequest = NoRequest
    NoKey = NoKey
    Accounts = {alice}
    Callers = {alice, keeper}
    InitKeepers = {keeper}
    Tokens = {weth, usdc}
    Weth = weth
    BPS = 4
    DepositFee = 1
    MinExecutionFee = 1
    Paths <- SwapPaths
    AmountsIn = {0, 4}
    ExecutionFees = {1}
    SwapLosses = {1}
    DelaySettings <- AdminDelays
    InitDelays <- UsualDelays
    KeeperSettings <- NoKeepers
    LeverageSwitches = {FALSE}
    StartValues = {1}
    Freezable = {}
    MaxRequests = 2
    MaxAge = 1
INVARIANTS
    Custody
    PendingStaysQueued
PROPERTIES
    LifecycleSpec
