SPECIFICATION LiveSpec
CONSTANTS
    alice = alice
    bob = bob
    keeper = keeper
    weth = weth
    usdc = usdc
    NoRequest = NoRequest
    NoKey = NoKey
    Accounts = {alice, bob}
    Callers = {keeper, alice, bob}
    InitKeepers = {keeper}
    Tokens = {weth, usdc}
    Weth = weth
    BPS = 4
    DepositFee = 1
    MinExecutionFee = 1
    Paths <- TokenPath
    AmountsIn = {4}
    ExecutionFees = {1}
    SwapLosses = {0}
    DelaySettings <- AdminDelays
    InitDelays <- UsualDelays
    KeeperSettings = {}
    LeverageSwitches = {}
    StartValues = {}
    Freezable = {bob}
    MaxRequests = 1
    MaxAge = 1
PROPERTIES
    EveryRequestSettled
    QueueNeverBlocks
    OwnersRecover
