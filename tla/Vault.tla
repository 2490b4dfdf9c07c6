-------------------------------- MODULE Vault --------------------------------
(***************************************************************************)
(* The Vault of GMX v1 (contracts/core/Vault.sol with the pricing and      *)
(* validation rules of contracts/core/VaultUtils.sol): one pool per        *)
(* whitelisted token that backs USDG, swaps, and leveraged long and short  *)
(* positions.                                                              *)
(*                                                                         *)
(* A step is one transaction. A transaction that reverts changes nothing,  *)
(* so a `require`, a failed SafeMath subtraction or a failed _validate is  *)
(* a guard. Tokens reach the Vault by a plain ERC20 transfer (SendTokens)  *)
(* and are credited to whichever call next measures them with              *)
(* _transferIn: balanceOf(vault) minus the cached tokenBalances.           *)
(***************************************************************************)
EXTENDS Integers, FiniteSets, FiniteSetsExt

CONSTANTS
    Users,              \* accounts that own positions
    Callers,            \* msg.sender of position calls: routers, accounts
    Volatile,           \* whitelisted, shortable, non-stable tokens
    Stable,             \* whitelisted stable tokens
    USDG,               \* the debt token
    Router,             \* the trusted router, an element of Callers
    BPS,                \* BASIS_POINTS_DIVISOR
    FundingPrecision,   \* FUNDING_RATE_PRECISION
    PricePrecision,     \* PRICE_PRECISION
    TokenUnit,          \* 10 ** decimals, for each token and for USDG
    Quotes,             \* Quotes[t]: price pairs the price feed may report
    MaxLeverage,        \* maxLeverage, in basis points
    FundingInterval, FundingRateFactor, StableFundingRateFactor,
    MinProfitBasisPoints,  \* per index token
    TokenWeights,       \* per token; the total is TotalTokenWeights
    TotalTokenWeights,
    MaxUsdgAmounts, MaxGlobalShortSizes, BufferAmounts,  \* 0 means no limit
    FeeSettings,        \* the records setFees may install
    InitFees,
    StartTime, InitialPool, \* the first liquidity, per token
    SizeDeltas, CollateralDeltas, UsdgSettings, Switches, \* inputs of calls
    SendAmounts,        \* per asset
    MaxEvents, MaxUsdgSupply, MaxTime \* bounds only model checking needs

Token == Volatile \cup Stable
Asset == Token \cup {USDG}

(* _validateTokens: a long is backed by its own index token, a short by a  *)
(* stable token.                                                           *)
Keys == {k \in [account: Users, collateralToken: Token,
                indexToken: Volatile, isLong: BOOLEAN] :
            IF k.isLong THEN k.collateralToken = k.indexToken
                        ELSE k.collateralToken \in Stable}

Positive == Nat \ {0}
(* A price pair for each value of the includeAmmPrice flag. The AMM price  *)
(* can only widen the spread (VaultPriceFeed.getPriceV1), and only that of *)
(* the native token, ETH and BTC (getAmmPrice).                            *)
Quote == [BOOLEAN -> [min: Positive, max: Positive]]
Fees == [taxBasisPoints: Nat, stableTaxBasisPoints: Nat,
         mintBurnFeeBasisPoints: Nat, swapFeeBasisPoints: Nat,
         stableSwapFeeBasisPoints: Nat, marginFeeBasisPoints: 0..BPS,
         liquidationFeeUsd: Nat, minProfitTime: Nat, hasDynamicFees: BOOLEAN]
Position == [size: Nat, collateral: Nat, averagePrice: Nat,
             entryFundingRate: Nat, reserveAmount: Nat,
             lastIncreasedTime: Nat]
NoPosition == [size |-> 0, collateral |-> 0, averagePrice |-> 0,
               entryFundingRate |-> 0, reserveAmount |-> 0,
               lastIncreasedTime |-> 0]

ASSUME TokenAssumption ==
    /\ Volatile \cap Stable = {} /\ USDG \notin Token
    /\ IsFiniteSet(Users) /\ IsFiniteSet(Token)
    /\ Router \in Callers
    /\ TokenUnit \in [Asset -> Positive]
    /\ Quotes \in [Token -> SUBSET Quote]
    /\ \A t \in Token : Quotes[t] # {}
    /\ \A t \in Token : \A q \in Quotes[t] :
          /\ q[TRUE].min <= q[FALSE].min /\ q[FALSE].min <= q[FALSE].max
          /\ q[FALSE].max <= q[TRUE].max
          /\ t \in Stable => q[TRUE] = q[FALSE]

ASSUME ParameterAssumption ==
    /\ {BPS, FundingPrecision, PricePrecision, FundingInterval,
        TotalTokenWeights, MaxLeverage} \subseteq Positive
    /\ {FundingRateFactor, StableFundingRateFactor} \subseteq Nat
    /\ InitialPool \in [Asset -> Nat] /\ InitialPool[USDG] = 0
    /\ StartTime \in Nat /\ StartTime >= FundingInterval
    /\ MinProfitBasisPoints \in [Volatile -> Nat]
    /\ {TokenWeights, MaxUsdgAmounts, BufferAmounts} \subseteq [Token -> Nat]
    /\ MaxGlobalShortSizes \in [Volatile -> Nat]
    /\ FeeSettings \subseteq Fees /\ InitFees \in Fees

ASSUME InputAssumption ==
    /\ SizeDeltas \subseteq Nat /\ CollateralDeltas \subseteq Nat
    /\ SendAmounts \in [Asset -> SUBSET Nat] /\ UsdgSettings \subseteq Nat
    /\ Switches \subseteq BOOLEAN
    /\ {MaxEvents, MaxUsdgSupply, MaxTime} \subseteq Nat

VARIABLES
    balance,            \* balanceOf(vault) of every asset
    tokenBalances,      \* the balance last recorded by the Vault
    poolAmounts, reservedAmounts, guaranteedUsd, feeReserves, usdgAmounts,
    cumulativeFundingRates, lastFundingTimes,
    globalShortSizes, globalShortAveragePrices,
    positions,
    usdgSupply,         \* totalSupply of USDG
    isSwapEnabled, isLeverageEnabled, fees, approvedRouters,
    prices,             \* what the price feed reports, per token
    now,                \* block.timestamp
    events              \* transfers, price changes and settings, to bound them

ledgerVars == <<balance, tokenBalances, poolAmounts, feeReserves>>
debtVars == <<usdgAmounts, usdgSupply>>
fundingVars == <<cumulativeFundingRates, lastFundingTimes>>
positionVars == <<positions, reservedAmounts, guaranteedUsd,
                  globalShortSizes, globalShortAveragePrices>>
configVars == <<isSwapEnabled, isLeverageEnabled, fees, approvedRouters>>
envVars == <<prices, now, events>>
vars == <<ledgerVars, debtVars, fundingVars, positionVars, configVars,
          envVars>>

TypeOK ==
    /\ balance \in [Asset -> Nat] /\ tokenBalances \in [Asset -> Nat]
    /\ poolAmounts \in [Token -> Nat] /\ reservedAmounts \in [Token -> Nat]
    /\ guaranteedUsd \in [Token -> Nat] /\ feeReserves \in [Token -> Nat]
    /\ usdgAmounts \in [Token -> Nat] /\ usdgSupply \in Nat
    /\ cumulativeFundingRates \in [Token -> Nat]
    /\ lastFundingTimes \in [Token -> Nat]
    /\ globalShortSizes \in [Volatile -> Nat]
    /\ globalShortAveragePrices \in [Volatile -> Nat]
    /\ positions \in [Keys -> Position]
    /\ isSwapEnabled \in BOOLEAN /\ isLeverageEnabled \in BOOLEAN
    /\ fees \in Fees /\ approvedRouters \in [Users -> SUBSET Callers]
    /\ prices \in [Token -> Quote] /\ now \in Nat /\ events \in Nat

(* The Vault right after its first liquidity came in by directPoolDeposit. *)
Init ==
    /\ balance = InitialPool /\ tokenBalances = InitialPool
    /\ poolAmounts = [t \in Token |-> InitialPool[t]]
    /\ reservedAmounts = [t \in Token |-> 0]
    /\ guaranteedUsd = [t \in Token |-> 0]
    /\ feeReserves = [t \in Token |-> 0]
    /\ usdgAmounts = [t \in Token |-> 0] /\ usdgSupply = 0
    /\ cumulativeFundingRates = [t \in Token |-> 0]
    /\ lastFundingTimes = [t \in Token |-> 0]
    /\ globalShortSizes = [t \in Volatile |-> 0]
    /\ globalShortAveragePrices = [t \in Volatile |-> 0]
    /\ positions = [k \in Keys |-> NoPosition]
    /\ isSwapEnabled = TRUE /\ isLeverageEnabled = TRUE
    /\ fees = InitFees /\ approvedRouters = [u \in Users |-> {}]
    /\ prices \in {p \in [Token -> UNION {Quotes[t] : t \in Token}] :
                      \A t \in Token : p[t] \in Quotes[t]}
    /\ now = StartTime /\ events = 0

-----------------------------------------------------------------------------
(* Conversions. `amm` is the includeAmmPrice flag: TRUE except while       *)
(* liquidatePosition runs.                                                 *)

MinPrice(amm, t) == prices[t][amm].min
MaxPrice(amm, t) == prices[t][amm].max

TokenToUsdMin(amm, t, amount) ==
    (amount * MinPrice(amm, t)) \div TokenUnit[t]
UsdToTokenMax(amm, t, usd) == (usd * TokenUnit[t]) \div MinPrice(amm, t)
UsdToTokenMin(amm, t, usd) == (usd * TokenUnit[t]) \div MaxPrice(amm, t)

AdjustForDecimals(amount, from, to) ==
    (amount * TokenUnit[to]) \div TokenUnit[from]

AfterFees(amount, bps) == (amount * (BPS - bps)) \div BPS

(* What a token amount is worth in USDG at the minimum price.              *)
UsdgValue(t, amount) ==
    AdjustForDecimals((amount * MinPrice(TRUE, t)) \div PricePrecision,
                      t, USDG)

Distance(a, b) == IF a > b THEN a - b ELSE b - a

(* Definitions headed "Faulty" are wrong on purpose: each stands for a       *)
(* mistake that one of the properties below must detect.                   *)

(* Faulty: the pool may be drawn down into the reserves.                   *)
UnreservedPool(reserved, pool) == 0 <= pool

(* What _increaseReservedAmount and _decreasePoolAmount validate last.     *)
WithinPool(reserved, pool) == reserved <= pool

(* Faulty: tokens the Vault already booked are credited again.             *)
WholeBalance(a) == balance[a]

(* _transferIn                                                             *)
TransferIn(a) == balance[a] - tokenBalances[a]

-----------------------------------------------------------------------------
(* Funding: updateCumulativeFundingRate and getNextFundingRate.            *)

FundingDue(t) == lastFundingTimes[t] + FundingInterval <= now

NextFundingRate(t) ==
    LET intervals == (now - lastFundingTimes[t]) \div FundingInterval
        factor == IF t \in Stable THEN StableFundingRateFactor
                                  ELSE FundingRateFactor
    IN  IF poolAmounts[t] = 0 THEN 0
        ELSE (factor * reservedAmounts[t] * intervals) \div poolAmounts[t]

CumulativeRate(t) ==
    IF lastFundingTimes[t] = 0 \/ ~FundingDue(t)
    THEN cumulativeFundingRates[t]
    ELSE cumulativeFundingRates[t] + NextFundingRate(t)

FundingTime(t) ==
    IF lastFundingTimes[t] = 0 \/ FundingDue(t)
    THEN (now \div FundingInterval) * FundingInterval
    ELSE lastFundingTimes[t]

(* Faulty: the time of the update is recorded but not the rate.            *)
AccrueTimes(ts) ==
    /\ lastFundingTimes' = [t \in Token |->
           IF t \in ts THEN FundingTime(t) ELSE lastFundingTimes[t]]
    /\ UNCHANGED cumulativeFundingRates

AccrueFunding(ts) ==
    /\ cumulativeFundingRates' = [t \in Token |->
           IF t \in ts THEN CumulativeRate(t) ELSE cumulativeFundingRates[t]]
    /\ lastFundingTimes' = [t \in Token |->
           IF t \in ts THEN FundingTime(t) ELSE lastFundingTimes[t]]

-----------------------------------------------------------------------------
(* Swap fees: VaultUtils.getFeeBasisPoints. The debt and the supply are    *)
(* arguments because sellUSDG asks for its fee after it has already lowered *)
(* the token's USDG debt and burnt the USDG.                               *)

TargetUsdgAmount(t, supply) == (TokenWeights[t] * supply) \div TotalTokenWeights

FeeBasisPoints(t, debt, supply, delta, base, tax, increment) ==
    LET target == TargetUsdgAmount(t, supply)
        next == IF increment THEN debt + delta
                ELSE IF delta > debt THEN 0 ELSE debt - delta
        initialDiff == Distance(debt, target)
        nextDiff == Distance(next, target)
        rebate == (tax * initialDiff) \div target
        average == (initialDiff + nextDiff) \div 2
        capped == IF average > target THEN target ELSE average
    IN  IF ~fees.hasDynamicFees \/ target = 0 THEN base
        ELSE IF nextDiff < initialDiff
             THEN IF rebate > base THEN 0 ELSE base - rebate
             ELSE base + (tax * capped) \div target

SwapFeeBasisPoints(tokenIn, tokenOut, usdgAmount) ==
    LET stableSwap == tokenIn \in Stable /\ tokenOut \in Stable
        base == IF stableSwap THEN fees.stableSwapFeeBasisPoints
                              ELSE fees.swapFeeBasisPoints
        tax == IF stableSwap THEN fees.stableTaxBasisPoints
                             ELSE fees.taxBasisPoints
        feeIn == FeeBasisPoints(tokenIn, usdgAmounts[tokenIn], usdgSupply,
                                usdgAmount, base, tax, TRUE)
        feeOut == FeeBasisPoints(tokenOut, usdgAmounts[tokenOut], usdgSupply,
                                 usdgAmount, base, tax, FALSE)
    IN  IF feeIn > feeOut THEN feeIn ELSE feeOut

(* Faulty: the debt is not capped at zero, or is written off.              *)
UncappedDebt(debt, amount) == debt - amount
ClearedDebt(debt, amount) == 0

(* _increaseUsdgAmount validates the cap, _decreaseUsdgAmount stops at 0.  *)
WithinUsdgCap(t, debt) == MaxUsdgAmounts[t] = 0 \/ debt <= MaxUsdgAmounts[t]
DecreasedUsdg(debt, amount) == IF debt <= amount THEN 0 ELSE debt - amount

-----------------------------------------------------------------------------
(* Position arithmetic.                                                    *)

PositionFee(sizeDelta) ==
    sizeDelta - (sizeDelta * (BPS - fees.marginFeeBasisPoints)) \div BPS

FundingFee(size, rate, entryRate) ==
    (size * (rate - entryRate)) \div FundingPrecision

MarginFee(k, sizeDelta) ==
    PositionFee(sizeDelta) +
    FundingFee(positions[k].size, CumulativeRate(k.collateralToken),
               positions[k].entryFundingRate)

(* The price a position is opened and marked at.                           *)
EntryPrice(k) == IF k.isLong THEN MaxPrice(TRUE, k.indexToken)
                             ELSE MinPrice(TRUE, k.indexToken)
MarkPrice(amm, k) == IF k.isLong THEN MinPrice(amm, k.indexToken)
                                 ELSE MaxPrice(amm, k.indexToken)

HasProfit(amm, k, p) ==
    IF k.isLong THEN MarkPrice(amm, k) > p.averagePrice
                ELSE p.averagePrice > MarkPrice(amm, k)

(* getDelta: profits below the minimum are ignored until minProfitTime has *)
(* passed since the last increase.                                         *)
Delta(amm, k, p) ==
    LET raw == (p.size * Distance(p.averagePrice, MarkPrice(amm, k)))
                   \div p.averagePrice
        minBps == IF now > p.lastIncreasedTime + fees.minProfitTime
                  THEN 0 ELSE MinProfitBasisPoints[k.indexToken]
    IN  IF HasProfit(amm, k, p) /\ raw * BPS <= p.size * minBps
        THEN 0 ELSE raw

(* Faulty: profit and loss swapped.                                        *)
SwappedAveragePrice(k, sizeDelta) ==
    LET p == positions[k]
        nextSize == p.size + sizeDelta
        delta == Delta(TRUE, k, p)
    IN  (EntryPrice(k) * nextSize) \div
            (IF k.isLong <=> HasProfit(TRUE, k, p)
             THEN nextSize - delta ELSE nextSize + delta)

NextAveragePrice(k, sizeDelta) ==
    LET p == positions[k]
        nextSize == p.size + sizeDelta
        delta == Delta(TRUE, k, p)
        divisor == IF k.isLong <=> HasProfit(TRUE, k, p)
                   THEN nextSize + delta ELSE nextSize - delta
    IN  (EntryPrice(k) * nextSize) \div divisor

NextGlobalShortAveragePrice(t, price, sizeDelta) ==
    LET size == globalShortSizes[t]
        average == globalShortAveragePrices[t]
        delta == (size * Distance(average, price)) \div average
        nextSize == size + sizeDelta
        divisor == IF average > price THEN nextSize - delta
                                      ELSE nextSize + delta
    IN  IF size = 0 THEN price ELSE (price * nextSize) \div divisor

(* VaultUtils.validateLiquidation: its state and the margin fees. `raise`  *)
(* is TRUE when a trader's own trade is being validated: profits then do   *)
(* not count. The fees are capped to what remains only when the losses     *)
(* leave something.                                                        *)
LiquidationCheck(amm, raise, k, p, rate) ==
    LET hasProfit == HasProfit(amm, k, p)
        delta == Delta(amm, k, p)
        marginFees == FundingFee(p.size, rate, p.entryFundingRate)
                          + PositionFee(p.size)
        remaining == IF ~hasProfit THEN p.collateral - delta
                     ELSE IF raise THEN p.collateral ELSE p.collateral + delta
    IN  IF remaining < 0
        THEN [state |-> 1, fees |-> marginFees]
        ELSE IF remaining < marginFees
        THEN [state |-> 1, fees |-> remaining]
        ELSE IF remaining < marginFees + fees.liquidationFeeUsd
        THEN [state |-> 1, fees |-> marginFees]
        ELSE IF remaining * MaxLeverage < p.size * BPS
        THEN [state |-> 2, fees |-> marginFees]
        ELSE [state |-> 0, fees |-> marginFees]

(* Faulty: the position left behind is not checked for liquidation, or its *)
(* collateral not against its size.                                        *)
UncheckedPosition(k, p, rate) == p.size >= p.collateral /\ p.averagePrice > 0
UnsizedPosition(k, p, rate) ==
    p.averagePrice > 0 /\ LiquidationCheck(TRUE, TRUE, k, p, rate).state = 0

(* _validatePosition and validateLiquidation with _raise                   *)
ValidPosition(k, p, rate) ==
    /\ p.size >= p.collateral
    /\ p.averagePrice > 0
    /\ LiquidationCheck(TRUE, TRUE, k, p, rate).state = 0

(* Faulty: the deposit is credited without its margin fee.                 *)
IncreasedWithoutFee(k, sizeDelta) ==
    LET p == positions[k]
        c == k.collateralToken
    IN  [p EXCEPT !.size = @ + sizeDelta,
                  !.collateral = @ + TokenToUsdMin(TRUE, c, TransferIn(c)),
                  !.averagePrice = EntryPrice(k),
                  !.entryFundingRate = CumulativeRate(c),
                  !.reserveAmount = @ + UsdToTokenMax(TRUE, c, sizeDelta),
                  !.lastIncreasedTime = now]

(* The position increasePosition leaves behind.                            *)
Increased(k, sizeDelta) ==
    LET p == positions[k]
        c == k.collateralToken
    IN  [size |-> p.size + sizeDelta,
         collateral |-> p.collateral + TokenToUsdMin(TRUE, c, TransferIn(c))
                            - MarginFee(k, sizeDelta),
         averagePrice |-> IF p.size = 0 THEN EntryPrice(k)
                          ELSE IF sizeDelta = 0 THEN p.averagePrice
                          ELSE NextAveragePrice(k, sizeDelta),
         entryFundingRate |-> CumulativeRate(c),
         reserveAmount |-> p.reserveAmount + UsdToTokenMax(TRUE, c, sizeDelta),
         lastIncreasedTime |-> now]

(* Faulty: a partial close gives the whole reserve back.                   *)
WholeReserve(p, sizeDelta) == p.reserveAmount

ReserveShare(p, sizeDelta) == (p.reserveAmount * sizeDelta) \div p.size

(* _reduceCollateral: what leaves the position and the pool, and what is   *)
(* paid, when sizeDelta of a position is closed. The fee is taken from the *)
(* payout when that is larger, from the position's collateral otherwise.   *)
Reduction(amm, k, collateralDelta, sizeDelta) ==
    LET p == positions[k]
        c == k.collateralToken
        fee == MarginFee(k, sizeDelta)
        closing == p.size = sizeDelta
        pnl == (sizeDelta * Delta(amm, k, p)) \div p.size
        profit == IF HasProfit(amm, k, p) THEN pnl ELSE 0
        loss == pnl - profit
        left == p.collateral - loss - collateralDelta
        usdOut == profit + collateralDelta + (IF closing THEN left ELSE 0)
        feeFromPosition == usdOut <= fee
    IN  [fee |-> fee, profit |-> profit, loss |-> loss, left |-> left,
         collateral |-> (IF closing THEN 0 ELSE left)
                            - (IF feeFromPosition THEN fee ELSE 0),
         usdOut |-> usdOut,
         paid |-> UsdToTokenMin(amm, c, IF feeFromPosition THEN usdOut
                                                           ELSE usdOut - fee),
         poolIn |-> IF k.isLong THEN 0 ELSE UsdToTokenMin(amm, c, loss),
         poolOut |-> IF ~k.isLong THEN UsdToTokenMin(amm, c, profit)
                     ELSE UsdToTokenMin(amm, c, usdOut) +
                          (IF feeFromPosition THEN UsdToTokenMin(amm, c, fee)
                                              ELSE 0)]

(* Faulty: a partial close keeps the whole reserve in the position.        *)
DecreasedKeepingReserve(amm, k, collateralDelta, sizeDelta) ==
    IF positions[k].size = sizeDelta THEN NoPosition
    ELSE [positions[k] EXCEPT
             !.size = @ - sizeDelta,
             !.collateral = Reduction(amm, k, collateralDelta,
                                      sizeDelta).collateral,
             !.entryFundingRate = CumulativeRate(k.collateralToken)]

(* The position _decreasePosition leaves behind.                           *)
Decreased(amm, k, collateralDelta, sizeDelta) ==
    IF positions[k].size = sizeDelta THEN NoPosition
    ELSE [positions[k] EXCEPT
             !.size = @ - sizeDelta,
             !.collateral = Reduction(amm, k, collateralDelta,
                                      sizeDelta).collateral,
             !.entryFundingRate = CumulativeRate(k.collateralToken),
             !.reserveAmount = @ - ReserveShare(positions[k], sizeDelta)]

(* Faulty: closing a short does not lower the total.                       *)
StaleShortSize(t, sizeDelta) == globalShortSizes[t]

(* _decreaseGlobalShortSize never goes below zero.                         *)
ReducedShortSize(t, sizeDelta) ==
    IF sizeDelta > globalShortSizes[t] THEN 0
    ELSE globalShortSizes[t] - sizeDelta

-----------------------------------------------------------------------------
(* Environment: plain transfers to the Vault, the price feed, the clock.   *)

(* A bound that only model checking needs.                                 *)
CountEvent == events < MaxEvents /\ events' = events + 1

SendTokens(a, amount) ==
    /\ amount > 0 /\ CountEvent
    /\ a = USDG => balance[a] + amount <= usdgSupply
    /\ balance' = [balance EXCEPT ![a] = @ + amount]
    /\ UNCHANGED <<tokenBalances, poolAmounts, feeReserves, debtVars,
                   fundingVars, positionVars, configVars, prices, now>>

ChangePrice(t, q) ==
    /\ q # prices[t] /\ CountEvent
    /\ prices' = [prices EXCEPT ![t] = q]
    /\ UNCHANGED <<ledgerVars, debtVars, fundingVars, positionVars,
                   configVars, now>>

Tick ==
    /\ now < MaxTime
    /\ now' = now + 1
    /\ UNCHANGED <<ledgerVars, debtVars, fundingVars, positionVars,
                   configVars, prices, events>>

-----------------------------------------------------------------------------
(* Operations of the pool.                                                 *)

UpdateCumulativeFundingRate(t) ==
    /\ AccrueFunding({t})
    /\ UNCHANGED <<ledgerVars, debtVars, positionVars, configVars, envVars>>

DirectPoolDeposit(t) ==
    LET amount == TransferIn(t) IN
    /\ amount > 0
    /\ poolAmounts[t] + amount <= balance[t]
    /\ poolAmounts' = [poolAmounts EXCEPT ![t] = @ + amount]
    /\ tokenBalances' = [tokenBalances EXCEPT ![t] = balance[t]]
    /\ UNCHANGED <<balance, feeReserves, debtVars, fundingVars, positionVars,
                   configVars, envVars>>

(* `sent` is what the caller transfers to the Vault in the same            *)
(* transaction, as GlpManager does.                                        *)
BuyUSDG(t, sent) ==
    LET amount == TransferIn(t) + sent
        bps == FeeBasisPoints(t, usdgAmounts[t], usdgSupply,
                   UsdgValue(t, amount), fees.mintBurnFeeBasisPoints,
                   fees.taxBasisPoints, TRUE)
        afterFees == AfterFees(amount, bps)
        minted == UsdgValue(t, afterFees)
    IN
    /\ amount > 0 /\ UsdgValue(t, amount) > 0 /\ bps <= BPS
    /\ WithinUsdgCap(t, usdgAmounts[t] + minted)
    /\ poolAmounts[t] + afterFees <= balance[t] + sent
    /\ usdgSupply + minted <= MaxUsdgSupply
    /\ AccrueFunding({t})
    /\ feeReserves' = [feeReserves EXCEPT ![t] = @ + (amount - afterFees)]
    /\ poolAmounts' = [poolAmounts EXCEPT ![t] = @ + afterFees]
    /\ balance' = [balance EXCEPT ![t] = @ + sent]
    /\ tokenBalances' = [tokenBalances EXCEPT ![t] = balance'[t]]
    /\ usdgAmounts' = [usdgAmounts EXCEPT ![t] = @ + minted]
    /\ usdgSupply' = usdgSupply + minted
    /\ UNCHANGED <<positionVars, configVars, envVars>>

(* Faulty: rounded in favour of the seller.                                *)
RoundedUpRedemption(t, usdg) ==
    AdjustForDecimals((usdg * PricePrecision + MaxPrice(TRUE, t) - 1)
                          \div MaxPrice(TRUE, t), USDG, t)

(* getRedemptionAmount                                                     *)
RedemptionAmount(t, usdg) ==
    AdjustForDecimals((usdg * PricePrecision) \div MaxPrice(TRUE, t), USDG, t)

(* The fee is computed after the debt and the supply have been lowered.    *)
(* The caller may mint `fresh` USDG and transfer `sent` of its own to the  *)
(* Vault in the same transaction.                                          *)
SellUSDG(t, fresh, sent) ==
    LET usdg == TransferIn(USDG) + sent
        redemption == RedemptionAmount(t, usdg)
        debt == DecreasedUsdg(usdgAmounts[t], usdg)
        bps == FeeBasisPoints(t, debt, usdgSupply + fresh - usdg, usdg,
                   fees.mintBurnFeeBasisPoints, fees.taxBasisPoints, FALSE)
        amountOut == AfterFees(redemption, bps)
    IN
    /\ balance[USDG] + sent <= usdgSupply + fresh
    /\ usdg > 0 /\ redemption > 0 /\ amountOut > 0 /\ bps <= BPS
    /\ WithinPool(reservedAmounts[t], poolAmounts[t] - redemption)
    /\ amountOut <= balance[t]
    /\ AccrueFunding({t})
    /\ usdgAmounts' = [usdgAmounts EXCEPT ![t] = debt]
    /\ usdgSupply' = usdgSupply + fresh - usdg
    /\ poolAmounts' = [poolAmounts EXCEPT ![t] = @ - redemption]
    /\ feeReserves' = [feeReserves EXCEPT ![t] = @ + (redemption - amountOut)]
    /\ balance' = [balance EXCEPT ![USDG] = @ + sent - usdg, ![t] = @ - amountOut]
    /\ tokenBalances' = [tokenBalances EXCEPT ![USDG] = balance'[USDG],
                                              ![t] = balance'[t]]
    /\ UNCHANGED <<positionVars, configVars, envVars>>

Swap(tokenIn, tokenOut) ==
    LET amountIn == TransferIn(tokenIn)
        amountOut == AdjustForDecimals(
            (amountIn * MinPrice(TRUE, tokenIn)) \div MaxPrice(TRUE, tokenOut),
            tokenIn, tokenOut)
        usdg == UsdgValue(tokenIn, amountIn)
        bps == SwapFeeBasisPoints(tokenIn, tokenOut, usdg)
        paid == AfterFees(amountOut, bps)
    IN
    /\ isSwapEnabled /\ tokenIn # tokenOut
    /\ amountIn > 0 /\ bps <= BPS
    /\ WithinUsdgCap(tokenIn, usdgAmounts[tokenIn] + usdg)
    /\ poolAmounts[tokenIn] + amountIn <= balance[tokenIn]
    /\ WithinPool(reservedAmounts[tokenOut], poolAmounts[tokenOut] - amountOut)
    /\ poolAmounts[tokenOut] - amountOut >= BufferAmounts[tokenOut]
    /\ paid <= balance[tokenOut]
    /\ AccrueFunding({tokenIn, tokenOut})
    /\ feeReserves' = [feeReserves EXCEPT ![tokenOut] = @ + (amountOut - paid)]
    /\ usdgAmounts' = [usdgAmounts EXCEPT ![tokenIn] = @ + usdg,
                                          ![tokenOut] = DecreasedUsdg(@, usdg)]
    /\ poolAmounts' = [poolAmounts EXCEPT ![tokenIn] = @ + amountIn,
                                          ![tokenOut] = @ - amountOut]
    /\ balance' = [balance EXCEPT ![tokenOut] = @ - paid]
    /\ tokenBalances' = [tokenBalances EXCEPT
                            ![tokenIn] = balance[tokenIn],
                            ![tokenOut] = balance'[tokenOut]]
    /\ UNCHANGED <<usdgSupply, positionVars, configVars, envVars>>

-----------------------------------------------------------------------------
(* Operations on positions.                                                *)

Open(k) == positions[k].size > 0

(* _validateRouter                                                         *)
MayActFor(caller, account) ==
    caller = account \/ caller = Router \/ caller \in approvedRouters[account]

WithinShortCap(t, size) ==
    MaxGlobalShortSizes[t] = 0 \/ size <= MaxGlobalShortSizes[t]

(* The reserve is raised before the deposit joins the pool, so a long      *)
(* cannot reserve its own collateral.                                      *)
IncreasePosition(caller, k, sizeDelta) ==
    LET c == k.collateralToken
        p == Increased(k, sizeDelta)
        fee == MarginFee(k, sizeDelta)
        amountIn == TransferIn(c)
        pool == IF k.isLong
                THEN poolAmounts[c] + amountIn - UsdToTokenMin(TRUE, c, fee)
                ELSE poolAmounts[c]
        reserved == reservedAmounts[c] + UsdToTokenMax(TRUE, c, sizeDelta)
        guaranteed == guaranteedUsd[c] + sizeDelta + fee
                          - TokenToUsdMin(TRUE, c, amountIn)
        shortSize == globalShortSizes[k.indexToken] + sizeDelta
    IN
    /\ isLeverageEnabled /\ MayActFor(caller, k.account)
    /\ p.collateral >= 0 /\ p.size > 0
    /\ ValidPosition(k, p, CumulativeRate(c))
    /\ WithinPool(reserved, poolAmounts[c])
    /\ k.isLong => /\ guaranteed >= 0
                   /\ poolAmounts[c] + amountIn <= balance[c]
                   /\ WithinPool(reserved, pool)
    /\ ~k.isLong => /\ WithinShortCap(k.indexToken, shortSize)
                    /\ globalShortSizes[k.indexToken] > 0
                         => globalShortAveragePrices[k.indexToken] > 0
    /\ AccrueFunding({c})
    /\ positions' = [positions EXCEPT ![k] = p]
    /\ feeReserves' = [feeReserves EXCEPT ![c] = @ + UsdToTokenMin(TRUE, c, fee)]
    /\ tokenBalances' = [tokenBalances EXCEPT ![c] = balance[c]]
    /\ reservedAmounts' = [reservedAmounts EXCEPT ![c] = reserved]
    /\ poolAmounts' = [poolAmounts EXCEPT ![c] = pool]
    /\ IF k.isLong
       THEN /\ guaranteedUsd' = [guaranteedUsd EXCEPT ![c] = guaranteed]
            /\ UNCHANGED <<globalShortSizes, globalShortAveragePrices>>
       ELSE /\ globalShortAveragePrices' = [globalShortAveragePrices EXCEPT
                   ![k.indexToken] = NextGlobalShortAveragePrice(
                        k.indexToken, EntryPrice(k), sizeDelta)]
            /\ globalShortSizes' = [globalShortSizes EXCEPT
                                        ![k.indexToken] = shortSize]
            /\ UNCHANGED guaranteedUsd
    /\ UNCHANGED <<balance, debtVars, configVars, envVars>>

(* _decreasePosition, shared by decreasePosition and liquidatePosition.    *)
Decrease(amm, k, collateralDelta, sizeDelta) ==
    LET c == k.collateralToken
        p == positions[k]
        r == Reduction(amm, k, collateralDelta, sizeDelta)
        next == Decreased(amm, k, collateralDelta, sizeDelta)
        pool == poolAmounts[c] + r.poolIn - r.poolOut
        reserved == reservedAmounts[c] - ReserveShare(p, sizeDelta)
        guaranteed == guaranteedUsd[c] + (p.collateral - r.collateral)
                          - sizeDelta
    IN
    /\ Open(k) /\ p.size >= sizeDelta
    /\ p.collateral >= collateralDelta
    /\ p.averagePrice > 0
    /\ r.left >= 0 /\ r.collateral >= 0
    /\ reserved >= 0
    /\ ~k.isLong /\ r.loss > 0 => pool <= balance[c]
    /\ k.isLong \/ r.profit > 0 => WithinPool(reserved, pool)
    /\ next # NoPosition => ValidPosition(k, next, CumulativeRate(c))
    /\ k.isLong => guaranteed >= 0
    /\ r.usdOut > 0 => r.paid <= balance[c]
    /\ AccrueFunding({c})
    /\ positions' = [positions EXCEPT ![k] = next]
    /\ feeReserves' = [feeReserves EXCEPT ![c] = @ + UsdToTokenMin(amm, c, r.fee)]
    /\ reservedAmounts' = [reservedAmounts EXCEPT ![c] = reserved]
    /\ poolAmounts' = [poolAmounts EXCEPT ![c] = pool]
    /\ IF k.isLong
       THEN /\ guaranteedUsd' = [guaranteedUsd EXCEPT ![c] = guaranteed]
            /\ UNCHANGED globalShortSizes
       ELSE /\ globalShortSizes' = [globalShortSizes EXCEPT ![k.indexToken] =
                                        ReducedShortSize(k.indexToken, sizeDelta)]
            /\ UNCHANGED guaranteedUsd
    /\ IF r.usdOut > 0
       THEN /\ balance' = [balance EXCEPT ![c] = @ - r.paid]
            /\ tokenBalances' = [tokenBalances EXCEPT ![c] = balance'[c]]
       ELSE UNCHANGED <<balance, tokenBalances>>
    /\ UNCHANGED <<globalShortAveragePrices, debtVars, configVars, envVars>>

DecreasePosition(caller, k, collateralDelta, sizeDelta) ==
    /\ MayActFor(caller, k.account)
    /\ Decrease(TRUE, k, collateralDelta, sizeDelta)

(* Faulty: a liquidated long's fees stay in the pool as well.              *)
LiquidationPoolKeepingFees(k, marginFees) ==
    LET c == k.collateralToken
        collateral == positions[k].collateral
    IN  IF ~k.isLong /\ marginFees < collateral
        THEN poolAmounts[c] + UsdToTokenMin(FALSE, c, collateral - marginFees)
        ELSE poolAmounts[c]

(* What of a liquidated short's collateral the pool keeps, and what a      *)
(* liquidated long's margin fees take from the pool.                       *)
LiquidationPool(k, marginFees) ==
    LET c == k.collateralToken
        collateral == positions[k].collateral
    IN  IF k.isLong THEN poolAmounts[c] - UsdToTokenMin(FALSE, c, marginFees)
        ELSE IF marginFees < collateral
        THEN poolAmounts[c] + UsdToTokenMin(FALSE, c, collateral - marginFees)
        ELSE poolAmounts[c]

(* liquidatePosition in state 1: the collateral is lost, the liquidator is *)
(* paid from the pool.                                                     *)
Liquidate(k, marginFees) ==
    LET c == k.collateralToken
        p == positions[k]
        liquidatorFee == UsdToTokenMin(FALSE, c, fees.liquidationFeeUsd)
        charged == LiquidationPool(k, marginFees)
        reserved == reservedAmounts[c] - p.reserveAmount
        guaranteed == guaranteedUsd[c] - (p.size - p.collateral)
    IN
    /\ reserved >= 0
    /\ k.isLong => guaranteed >= 0
    /\ ~k.isLong /\ marginFees < p.collateral => charged <= balance[c]
    /\ WithinPool(reserved, charged - liquidatorFee)
    /\ liquidatorFee <= balance[c]
    /\ positions' = [positions EXCEPT ![k] = NoPosition]
    /\ feeReserves' = [feeReserves EXCEPT
                           ![c] = @ + UsdToTokenMin(FALSE, c, marginFees)]
    /\ reservedAmounts' = [reservedAmounts EXCEPT ![c] = reserved]
    /\ poolAmounts' = [poolAmounts EXCEPT ![c] = charged - liquidatorFee]
    /\ IF k.isLong
       THEN /\ guaranteedUsd' = [guaranteedUsd EXCEPT ![c] = guaranteed]
            /\ UNCHANGED globalShortSizes
       ELSE /\ globalShortSizes' = [globalShortSizes EXCEPT ![k.indexToken] =
                                        ReducedShortSize(k.indexToken, p.size)]
            /\ UNCHANGED guaranteedUsd
    /\ balance' = [balance EXCEPT ![c] = @ - liquidatorFee]
    /\ tokenBalances' = [tokenBalances EXCEPT ![c] = balance'[c]]
    /\ AccrueFunding({c})
    /\ UNCHANGED <<globalShortAveragePrices, debtVars, configVars, envVars>>

LiquidationOf(k) ==
    LiquidationCheck(FALSE, FALSE, k, positions[k],
                     CumulativeRate(k.collateralToken))

LiquidateInsolvent(k) ==
    /\ Open(k) /\ positions[k].averagePrice > 0
    /\ LiquidationOf(k).state = 1
    /\ Liquidate(k, LiquidationOf(k).fees)

(* Over-leverage alone closes the position as a decrease would.            *)
LiquidateOverleveraged(k) ==
    /\ Open(k) /\ positions[k].averagePrice > 0
    /\ LiquidationOf(k).state = 2
    /\ Decrease(FALSE, k, 0, positions[k].size)

LiquidatePosition(k) == LiquidateInsolvent(k) \/ LiquidateOverleveraged(k)

-----------------------------------------------------------------------------
(* Operations of governance and of the account holders.                    *)

(* Faulty: the fees are paid out but stay on the books.                    *)
WithdrawFeesAgain(t) ==
    /\ feeReserves[t] > 0
    /\ feeReserves[t] <= balance[t]
    /\ balance' = [balance EXCEPT ![t] = @ - feeReserves[t]]
    /\ tokenBalances' = [tokenBalances EXCEPT ![t] = balance'[t]]
    /\ UNCHANGED <<poolAmounts, feeReserves, debtVars, fundingVars,
                   positionVars, configVars, envVars>>

WithdrawFees(t) ==
    /\ feeReserves[t] > 0
    /\ feeReserves[t] <= balance[t]
    /\ balance' = [balance EXCEPT ![t] = @ - feeReserves[t]]
    /\ tokenBalances' = [tokenBalances EXCEPT ![t] = balance'[t]]
    /\ feeReserves' = [feeReserves EXCEPT ![t] = 0]
    /\ UNCHANGED <<poolAmounts, debtVars, fundingVars, positionVars,
                   configVars, envVars>>

SetUsdgAmount(t, amount) ==
    /\ amount > usdgAmounts[t] => WithinUsdgCap(t, amount)
    /\ CountEvent
    /\ usdgAmounts' = [usdgAmounts EXCEPT ![t] = amount]
    /\ UNCHANGED <<ledgerVars, usdgSupply, fundingVars, positionVars,
                   configVars, prices, now>>

SetFees(setting) ==
    /\ CountEvent
    /\ fees' = setting
    /\ UNCHANGED <<ledgerVars, debtVars, fundingVars, positionVars,
                   isSwapEnabled, isLeverageEnabled, approvedRouters, prices, now>>

SetIsSwapEnabled(enabled) ==
    /\ CountEvent
    /\ isSwapEnabled' = enabled
    /\ UNCHANGED <<ledgerVars, debtVars, fundingVars, positionVars,
                   isLeverageEnabled, fees, approvedRouters, prices, now>>

SetIsLeverageEnabled(enabled) ==
    /\ CountEvent
    /\ isLeverageEnabled' = enabled
    /\ UNCHANGED <<ledgerVars, debtVars, fundingVars, positionVars,
                   isSwapEnabled, fees, approvedRouters, prices, now>>

SetApproval(account, routers) ==
    /\ CountEvent
    /\ approvedRouters' = [approvedRouters EXCEPT ![account] = routers]
    /\ UNCHANGED <<ledgerVars, debtVars, fundingVars, positionVars,
                   isSwapEnabled, isLeverageEnabled, fees, prices, now>>

AddRouter(account, router) ==
    SetApproval(account, approvedRouters[account] \cup {router})
RemoveRouter(account, router) ==
    SetApproval(account, approvedRouters[account] \ {router})

-----------------------------------------------------------------------------
Environment ==
    \/ \E a \in Asset : \E n \in SendAmounts[a] : SendTokens(a, n)
    \/ \E t \in Token : \E q \in Quotes[t] : ChangePrice(t, q)
    \/ Tick

Pool ==
    \E t \in Token :
        \/ UpdateCumulativeFundingRate(t)
        \/ DirectPoolDeposit(t)
        \/ BuyUSDG(t, 0)
        \/ SellUSDG(t, 0, 0)
        \/ \E u \in Token : Swap(t, u)

Leverage ==
    \E k \in Keys :
        \/ \E s \in Callers : \E d \in SizeDeltas :
               \/ IncreasePosition(s, k, d)
               \/ \E cd \in CollateralDeltas : DecreasePosition(s, k, cd, d)
        \/ LiquidatePosition(k)

Governance ==
    \/ \E t \in Token : \/ WithdrawFees(t)
                        \/ \E n \in UsdgSettings : SetUsdgAmount(t, n)
    \/ \E setting \in FeeSettings : SetFees(setting)
    \/ \E b \in Switches : SetIsSwapEnabled(b) \/ SetIsLeverageEnabled(b)
    \/ \E u \in Users : \E r \in Callers \ {Router, u} :
           AddRouter(u, r) \/ RemoveRouter(u, r)

Next == Environment \/ Pool \/ Leverage \/ Governance

Spec == Init /\ [][Next]_vars

-----------------------------------------------------------------------------
(* Properties.                                                             *)

(* The positions backed by a token, and the shorts of a token. A closed    *)
(* position counts as nothing (NoPosition).                                *)
KeysOn(t) == {k \in Keys : k.collateralToken = t}
ShortsOf(t) == {k \in Keys : ~k.isLong /\ k.indexToken = t}

(* Part of the inductive argument: the recorded balances lag behind the    *)
(* real ones and the Vault holds no more USDG than exists.                 *)
BalancesRecorded ==
    /\ \A a \in Asset : tokenBalances[a] <= balance[a]
    /\ balance[USDG] <= usdgSupply

(* Tokens reserved for positions never exceed the pool that must pay them  *)
(* (_increaseReservedAmount, _decreasePoolAmount).                         *)
ReservedWithinPool == \A t \in Token : reservedAmounts[t] <= poolAmounts[t]

(* reservedAmounts is exactly what the open positions reserved, so that    *)
(* giving a reserve back never fails with "Vault: insufficient reserve".   *)
ReservesMatchPositions ==
    \A t \in Token :
        reservedAmounts[t] = SumFunctionOnSet(
            [k \in Keys |-> positions[k].reserveAmount], KeysOn(t))

(* "guaranteedUsd stores the sum of (position.size - position.collateral)  *)
(* for all positions" (Vault.sol:607), through fees, losses and partial    *)
(* closes.                                                                 *)
GuaranteedMatchesLongs ==
    \A t \in Volatile :
        guaranteedUsd[t] = SumFunctionOnSet(
            [k \in Keys |-> positions[k].size - positions[k].collateral],
            KeysOn(t))

(* globalShortSizes is the total of the open shorts: the saturating        *)
(* subtraction of _decreaseGlobalShortSize never hides a difference.       *)
ShortSizesMatchPositions ==
    \A t \in Volatile :
        globalShortSizes[t] = SumFunctionOnSet(
            [k \in Keys |-> positions[k].size], ShortsOf(t))

(* No position's entry rate is ahead of its token's cumulative rate: the   *)
(* subtraction in getFundingFee cannot underflow and block a close.        *)
EntryRateBehind ==
    \A k \in Keys : positions[k].entryFundingRate
                        <= cumulativeFundingRates[k.collateralToken]

(* A closed position leaves nothing behind, an open one has a price and    *)
(* never more collateral than size.                                        *)
PositionShape ==
    \A k \in Keys :
        IF Open(k) THEN /\ positions[k].collateral <= positions[k].size
                        /\ positions[k].averagePrice > 0
                   ELSE positions[k] = NoPosition

(* The Vault holds the pool and the fees of every volatile token.          *)
VolatileSolvent ==
    \A t \in Volatile : poolAmounts[t] + feeReserves[t] <= tokenBalances[t]

(* The pool can always pay a winner: what closing a whole position takes   *)
(* out of the pool is within what that position has reserved.              *)
PayoutWithinReserve ==
    \A k \in Keys :
        LET r == Reduction(TRUE, k, 0, positions[k].size) IN
        Open(k) /\ r.left >= 0 /\ r.usdOut > r.fee
            => r.poolOut <= positions[k].reserveAmount

(* A liquidation may not be brought on by somebody's trade: a call made at *)
(* unchanged prices, time and fees leaves every position that was safe     *)
(* from liquidatePosition safe, or closed.                                 *)
Safe(k) == Open(k) => LiquidationOf(k).state = 0
SameMarket == UNCHANGED <<prices, now, fees>>
TradesNeverEndanger ==
    [][SameMarket => \A k \in Keys : Safe(k) => Safe(k)']_vars

(* What a position would be worth if it were closed now, before fees.      *)
Equity(k) ==
    LET p == positions[k]
    IN  IF ~Open(k) THEN 0
        ELSE IF HasProfit(TRUE, k, p) THEN p.collateral + Delta(TRUE, k, p)
        ELSE p.collateral - Delta(TRUE, k, p)

(* One unit of the average price, which getNextAveragePrice rounds down.   *)
AverageRounding(k) ==
    LET p == positions[k]
    IN  IF Open(k) THEN 2 + (p.size * MarkPrice(TRUE, k))
                                \div (p.averagePrice * p.averagePrice)
                   ELSE 0

(* No call at unchanged prices creates value for a trader: what a position *)
(* is worth afterwards, what was paid and the fees taken are covered by    *)
(* what it was worth and what was deposited.                               *)
ValueTaken(k) ==
    LET c == k.collateralToken
    IN  (((balance[c] - balance'[c]) + (feeReserves'[c] - feeReserves[c]))
            * MaxPrice(TRUE, c)) \div TokenUnit[c]
Deposited(k) ==
    IF balance' = balance
    THEN TokenToUsdMin(TRUE, k.collateralToken, TransferIn(k.collateralToken))
    ELSE 0
EquityConserved ==
    [][SameMarket =>
         \A k \in Keys :
            positions'[k] # positions[k] /\ Safe(k)
            => Equity(k)' + ValueTaken(k)
                   <= Equity(k) + Deposited(k) + AverageRounding(k)']_vars

(* Tokens the Vault has recorded beyond the pool, fees and collateral of   *)
(* shorts.                                                                 *)
ShortCollateral(t) ==
    SumFunctionOnSet(
        [k \in Keys |-> UsdToTokenMin(TRUE, t, positions[k].collateral)],
        {k \in KeysOn(t) : ~k.isLong})
Surplus(t) ==
    tokenBalances[t] - poolAmounts[t] - feeReserves[t] - ShortCollateral(t)

(* No call books more to the pool, the fees or a short's collateral than   *)
(* it received, or pays out more than it takes off them: a collateral in   *)
(* USD may be rounded by one unit of its token, and the liquidation of a   *)
(* short whose fees exceed its collateral is the exception.                *)
CollateralRounding(t) == IF t \in Stable THEN 1 ELSE 0
UncappedLiquidation(k) ==
    /\ ~k.isLong /\ Open(k) /\ ~Open(k)'
    /\ LiquidationOf(k).fees > positions[k].collateral
SurplusKept ==
    [][UNCHANGED prices /\ (\A k \in Keys : ~UncappedLiquidation(k))
         => \A t \in Token :
               Surplus(t)' + CollateralRounding(t) >= Surplus(t)]_vars

(* "poolAmount + feeReserve + offset == balance" after every operation     *)
(* (test/core/Vault/helpers.js:93): the pool and the fees never exceed     *)
(* what the Vault holds. A liquidated short whose fees exceed its          *)
(* collateral refutes it.                                                  *)
StableBacked ==
    \A t \in Stable : poolAmounts[t] + feeReserves[t] <= balance[t]

(* The per-token debts cover the USDG in circulation: capping a token's    *)
(* debt at zero can only overstate the total (_decreaseUsdgAmount).        *)
DebtCoversSupply == usdgSupply <= SumFunction(usdgAmounts)

(* At unchanged prices minting, redeeming and swapping never lower the     *)
(* value of the pools below the USDG they back, but for the roundings of   *)
(* the tokens that moved. There are none where PricePrecision divides the  *)
(* price and the unit of the token that of USDG.                           *)
PoolValue == SumFunction([t \in Token |-> UsdgValue(t, poolAmounts[t])])
Exact(t) ==
    /\ MinPrice(TRUE, t) % PricePrecision = 0
    /\ TokenUnit[USDG] % TokenUnit[t] = 0
CoverRounding(t) ==
    IF Exact(t) THEN 0 ELSE 2 + TokenUnit[USDG] \div TokenUnit[t]
MoveRoundings ==
    SumFunction([t \in Token |-> IF poolAmounts'[t] = poolAmounts[t] THEN 0
                                 ELSE CoverRounding(t)])
UsdgCoverKept ==
    [][UNCHANGED <<prices, positions>>
         => PoolValue' + MoveRoundings
                >= PoolValue + (usdgSupply' - usdgSupply)]_vars
=============================================================================
