---------------------------- MODULE VaultProofs ----------------------------
(***************************************************************************)
(* What is proved of Vault for every value of its constants. The ledgers   *)
(* keep their types, the reserves stay in the pool, funding fees can       *)
(* always be computed, open positions are well formed and the volatile     *)
(* tokens of the pool and the fees are really held: all of this follows    *)
(* from the inductive invariant IInv. Beside it, the ledgers that are kept *)
(* by differences (reserves, guaranteed USD, short sizes, debts) are the   *)
(* sums they stand for.                                                    *)
(***************************************************************************)
EXTENDS Vault, LedgerSums

(***************************************************************************)
(* Arithmetic.                                                             *)
(***************************************************************************)

(* Products of amounts are amounts.                                        *)
LEMMA ProductNat == ASSUME NEW a \in Nat, NEW b \in Nat PROVE a * b \in Nat
  OBVIOUS

(* Dividing an amount by a positive number gives an amount.                *)
LEMMA QuotientNat == ASSUME NEW a \in Nat, NEW b \in Positive
                     PROVE a \div b \in Nat
  BY DEF Positive

(* What rounding down loses: less than one divisor.                        *)
LEMMA DivisionBounds ==
  ASSUME NEW a \in Nat, NEW b \in Positive
  PROVE  /\ (a \div b) * b <= a /\ a < (a \div b) * b + b
  BY DEF Positive

(* Two quotients rounded down never exceed the quotient of the sum.        *)
LEMMA QuotientSum ==
  ASSUME NEW a \in Nat, NEW b \in Nat, NEW p \in Positive
  PROVE  (a \div p) + (b \div p) <= (a + b) \div p
  BY DEF Positive

(* A proportional share of an amount is at most the amount.                *)
LEMMA ShareBound ==
  ASSUME NEW a \in Nat, NEW b \in Nat, NEW c \in Positive, b <= c
  PROVE  (a * b) \div c <= a
  BY DEF Positive

(* The inductive invariant. VolatileSolvent needs the balances the Vault   *)
(* has recorded, ReservedWithinPool for what a payout leaves in the pool,  *)
(* and PositionShape and EntryRateBehind so that fees and profits are      *)
(* amounts at all.                                                         *)
IInv == /\ TypeOK /\ BalancesRecorded /\ EntryRateBehind /\ PositionShape
        /\ ReservedWithinPool /\ VolatileSolvent

-----------------------------------------------------------------------------
(* A long is backed by its own volatile token, a short by a stable one.    *)
LEMMA KeyFields ==
  ASSUME NEW k \in Keys
  PROVE  /\ k.account \in Users /\ k.collateralToken \in Token
         /\ k.indexToken \in Volatile /\ k.indexToken \in Token
         /\ k.isLong \in BOOLEAN
         /\ k.isLong => k.collateralToken = k.indexToken
         /\ ~k.isLong => k.collateralToken \in Stable
  BY DEF Keys, Token

(* Both prices of a token are positive, whatever the AMM flag.             *)
LEMMA PriceType ==
  ASSUME TypeOK, NEW t \in Token, NEW amm \in BOOLEAN
  PROVE  MinPrice(amm, t) \in Positive /\ MaxPrice(amm, t) \in Positive
  BY DEF TypeOK, Quote, MinPrice, MaxPrice

(* 10 ** decimals is positive.                                             *)
LEMMA UnitType ==
  /\ \A a \in Asset : TokenUnit[a] \in Positive
  /\ Token \subseteq Asset /\ USDG \in Asset /\ USDG \notin Token
  /\ Volatile \subseteq Token /\ Stable \subseteq Token
  /\ Volatile \cap Stable = {}
  BY TokenAssumption DEF Asset, Token

(* Conversions between tokens and USD give amounts.                        *)
LEMMA ConversionType ==
  ASSUME TypeOK, NEW t \in Token, NEW amm \in BOOLEAN, NEW n \in Nat
  PROVE  /\ TokenToUsdMin(amm, t, n) \in Nat
         /\ UsdToTokenMax(amm, t, n) \in Nat
         /\ UsdToTokenMin(amm, t, n) \in Nat
         /\ UsdToTokenMin(amm, t, 0) = 0
  <1>1. MinPrice(amm, t) \in Positive /\ MaxPrice(amm, t) \in Positive
        /\ TokenUnit[t] \in Positive
    BY PriceType, UnitType
  <1>2. /\ n * MinPrice(amm, t) \in Nat /\ n * TokenUnit[t] \in Nat
    BY <1>1, ProductNat DEF Positive
  <1>3. UsdToTokenMin(amm, t, 0) = 0
    BY <1>1 DEF UsdToTokenMin, Positive
  <1> QED
    BY <1>1, <1>2, <1>3, QuotientNat
    DEF TokenToUsdMin, UsdToTokenMax, UsdToTokenMin

(* Splitting an amount of USD and converting the parts never yields more   *)
(* tokens than converting the whole.                                       *)
LEMMA UsdToTokenSum ==
  ASSUME TypeOK, NEW t \in Token, NEW amm \in BOOLEAN,
         NEW a \in Nat, NEW b \in Nat
  PROVE  UsdToTokenMin(amm, t, a) + UsdToTokenMin(amm, t, b)
             <= UsdToTokenMin(amm, t, a + b)
  <1>1. MaxPrice(amm, t) \in Positive /\ TokenUnit[t] \in Positive
    BY PriceType, UnitType
  <1>2. /\ a * TokenUnit[t] \in Nat /\ b * TokenUnit[t] \in Nat
        /\ (a + b) * TokenUnit[t] = a * TokenUnit[t] + b * TokenUnit[t]
    BY <1>1, ProductNat DEF Positive
  <1> QED
    BY <1>1, <1>2, QuotientSum DEF UsdToTokenMin

(* The USDG value of a token amount is an amount.                          *)
LEMMA UsdgValueType ==
  ASSUME TypeOK, NEW t \in Token, NEW n \in Nat
  PROVE  UsdgValue(t, n) \in Nat
  <1>1. MinPrice(TRUE, t) \in Positive /\ TokenUnit[t] \in Positive
        /\ TokenUnit[USDG] \in Positive /\ PricePrecision \in Positive
    BY PriceType, UnitType, ParameterAssumption
  <1>2. (n * MinPrice(TRUE, t)) \div PricePrecision \in Nat
    BY <1>1, ProductNat, QuotientNat DEF Positive
  <1> QED
    BY <1>1, <1>2, ProductNat, QuotientNat
    DEF UsdgValue, AdjustForDecimals, Positive

(* A redemption is an amount of tokens.                                    *)
LEMMA RedemptionType ==
  ASSUME TypeOK, NEW t \in Token, NEW n \in Nat
  PROVE  RedemptionAmount(t, n) \in Nat
  <1>1. MaxPrice(TRUE, t) \in Positive /\ TokenUnit[t] \in Positive
        /\ TokenUnit[USDG] \in Positive /\ PricePrecision \in Positive
    BY PriceType, UnitType, ParameterAssumption
  <1>2. (n * PricePrecision) \div MaxPrice(TRUE, t) \in Nat
    BY <1>1, ProductNat, QuotientNat DEF Positive
  <1> QED
    BY <1>1, <1>2, ProductNat, QuotientNat
    DEF RedemptionAmount, AdjustForDecimals, Positive

(* A fee of at most 100 percent leaves part of the amount.                 *)
LEMMA AfterFeesBound ==
  ASSUME NEW n \in Nat, NEW bps \in 0..BPS
  PROVE  AfterFees(n, bps) \in 0..n
  <1>1. BPS \in Positive /\ BPS - bps \in Nat /\ BPS - bps <= BPS
    BY ParameterAssumption DEF Positive
  <1>2. n * (BPS - bps) \in Nat
    BY <1>1, ProductNat
  <1> QED
    BY <1>1, <1>2, ShareBound, QuotientNat DEF AfterFees, Positive

-----------------------------------------------------------------------------
(* Funding.                                                                *)

(* The next cumulative rate is no lower than the recorded one.             *)
LEMMA FundingType ==
  ASSUME TypeOK, NEW t \in Token
  PROVE  /\ CumulativeRate(t) \in Nat
         /\ cumulativeFundingRates[t] <= CumulativeRate(t)
         /\ FundingTime(t) \in Nat
  <1>1. /\ poolAmounts[t] \in Nat /\ reservedAmounts[t] \in Nat
        /\ now \in Nat /\ lastFundingTimes[t] \in Nat
        /\ cumulativeFundingRates[t] \in Nat
    BY DEF TypeOK
  <1>2. /\ FundingInterval \in Positive
        /\ FundingRateFactor \in Nat /\ StableFundingRateFactor \in Nat
    BY ParameterAssumption
  <1>3. FundingTime(t) \in Nat
    BY <1>1, <1>2, ProductNat, QuotientNat DEF FundingTime, Positive
  <1>4. ASSUME FundingDue(t) PROVE NextFundingRate(t) \in Nat
    <2> DEFINE intervals == (now - lastFundingTimes[t]) \div FundingInterval
               factor == IF t \in Stable THEN StableFundingRateFactor
                                         ELSE FundingRateFactor
    <2>1. intervals \in Nat
      BY <1>1, <1>2, <1>4, QuotientNat DEF FundingDue, Positive
    <2>2. factor \in Nat
      BY <1>2
    <2>3. factor * reservedAmounts[t] * intervals \in Nat
      BY <1>1, <2>1, <2>2, ProductNat
    <2> QED
      BY <1>1, <2>3, QuotientNat DEF NextFundingRate, Positive
  <1> QED
    BY <1>1, <1>3, <1>4 DEF CumulativeRate

(* Accruing funding keeps both funding maps typed.                         *)
LEMMA AccrueFundingType ==
  ASSUME TypeOK, NEW ts \in SUBSET Token, AccrueFunding(ts)
  PROVE  /\ cumulativeFundingRates' \in [Token -> Nat]
         /\ lastFundingTimes' \in [Token -> Nat]
         /\ \A t \in Token :
               cumulativeFundingRates[t] <= cumulativeFundingRates'[t]
         /\ \A t \in ts : cumulativeFundingRates'[t] = CumulativeRate(t)
  <1>1. \A t \in Token : cumulativeFundingRates[t] \in Nat
    BY DEF TypeOK
  <1> QED
    BY <1>1, FundingType DEF AccrueFunding, TypeOK

-----------------------------------------------------------------------------
(* Fees and position arithmetic.                                           *)

(* The dynamic fee is a number of basis points, rebate and tax included.   *)
LEMMA FeeBasisPointsType ==
  ASSUME NEW t \in Token, NEW debt \in Nat, NEW supply \in Nat,
         NEW delta \in Nat, NEW base \in Nat, NEW tax \in Nat,
         NEW increment \in BOOLEAN
  PROVE  FeeBasisPoints(t, debt, supply, delta, base, tax, increment) \in Nat
  <1> DEFINE target == TargetUsdgAmount(t, supply)
             next == IF increment THEN debt + delta
                     ELSE IF delta > debt THEN 0 ELSE debt - delta
             initialDiff == Distance(debt, target)
             nextDiff == Distance(next, target)
             average == (initialDiff + nextDiff) \div 2
             capped == IF average > target THEN target ELSE average
  <1>1. target \in Nat
    BY ParameterAssumption, ProductNat, QuotientNat DEF TargetUsdgAmount
  <1>2. next \in Nat
    OBVIOUS
  <1> HIDE DEF target, next
  <1>3. initialDiff \in Nat /\ nextDiff \in Nat
    BY <1>1, <1>2 DEF Distance
  <1> HIDE DEF initialDiff, nextDiff
  <1>4. average \in Nat
    BY <1>3
  <1>5. capped \in Nat
    BY <1>1, <1>4
  <1> HIDE DEF average, capped
  <1>6. ASSUME target # 0
        PROVE  /\ (tax * initialDiff) \div target \in Nat
               /\ (tax * capped) \div target \in Nat
    <2>1. tax * initialDiff \in Nat /\ tax * capped \in Nat
      BY <1>3, <1>5, ProductNat
    <2> QED
      BY <1>1, <1>6, <2>1, QuotientNat DEF Positive
  <1> QED
    BY <1>1, <1>2, <1>3, <1>4, <1>5, <1>6
    DEF FeeBasisPoints, target, next, initialDiff, nextDiff, average, capped

(* The fields of the fee settings are amounts.                             *)
LEMMA FeeTypes ==
  ASSUME TypeOK
  PROVE  /\ fees.taxBasisPoints \in Nat /\ fees.stableTaxBasisPoints \in Nat
         /\ fees.mintBurnFeeBasisPoints \in Nat
         /\ fees.swapFeeBasisPoints \in Nat
         /\ fees.stableSwapFeeBasisPoints \in Nat
         /\ fees.marginFeeBasisPoints \in 0..BPS
         /\ fees.liquidationFeeUsd \in Nat
         /\ fees.minProfitTime \in Nat /\ fees.hasDynamicFees \in BOOLEAN
  BY DEF TypeOK, Fees

(* The fee of a swap is a number of basis points.                          *)
LEMMA SwapFeeType ==
  ASSUME TypeOK, NEW a \in Token, NEW b \in Token, NEW n \in Nat
  PROVE  SwapFeeBasisPoints(a, b, n) \in Nat
  <1>1. usdgAmounts[a] \in Nat /\ usdgAmounts[b] \in Nat /\ usdgSupply \in Nat
    BY DEF TypeOK
  <1> QED
    BY <1>1, FeeTypes, FeeBasisPointsType DEF SwapFeeBasisPoints

(* The position fee is an amount.                                          *)
LEMMA PositionFeeType ==
  ASSUME TypeOK, NEW d \in Nat
  PROVE  PositionFee(d) \in Nat
  <1>1. BPS \in Positive /\ fees.marginFeeBasisPoints \in 0..BPS
    BY FeeTypes, ParameterAssumption
  <1> DEFINE kept == BPS - fees.marginFeeBasisPoints
  <1>2. kept \in Nat /\ kept <= BPS
    BY <1>1 DEF Positive
  <1>3. (d * kept) \div BPS <= d /\ (d * kept) \div BPS \in Nat
    BY <1>1, <1>2, ShareBound, ProductNat, QuotientNat
  <1> QED
    BY <1>3 DEF PositionFee

(* The fields of a position are amounts.                                   *)
LEMMA PositionType ==
  ASSUME TypeOK, NEW k \in Keys
  PROVE  /\ positions[k] \in Position
         /\ positions[k].size \in Nat /\ positions[k].collateral \in Nat
         /\ positions[k].averagePrice \in Nat
         /\ positions[k].entryFundingRate \in Nat
         /\ positions[k].reserveAmount \in Nat
         /\ positions[k].lastIncreasedTime \in Nat
  BY DEF TypeOK, Position

(* The funding fee of a position behind the rate is an amount.             *)
LEMMA FundingFeeType ==
  ASSUME NEW size \in Nat, NEW rate \in Nat, NEW entry \in Nat, entry <= rate
  PROVE  FundingFee(size, rate, entry) \in Nat
  <1>1. rate - entry \in Nat /\ FundingPrecision \in Positive
    BY ParameterAssumption
  <1> QED
    BY <1>1, ProductNat, QuotientNat DEF FundingFee

(* The position and funding fees of a change of position are an amount.    *)
LEMMA MarginFeeType ==
  ASSUME TypeOK, EntryRateBehind, NEW k \in Keys, NEW d \in Nat
  PROVE  MarginFee(k, d) \in Nat
  <1>1. k.collateralToken \in Token
    BY KeyFields
  <1>2. /\ CumulativeRate(k.collateralToken) \in Nat
        /\ cumulativeFundingRates[k.collateralToken]
               <= CumulativeRate(k.collateralToken)
        /\ cumulativeFundingRates[k.collateralToken] \in Nat
    BY <1>1, FundingType DEF TypeOK
  <1>3. positions[k].entryFundingRate <= CumulativeRate(k.collateralToken)
    BY <1>2, PositionType DEF EntryRateBehind
  <1>4. FundingFee(positions[k].size, CumulativeRate(k.collateralToken),
                   positions[k].entryFundingRate) \in Nat
    BY <1>2, <1>3, PositionType, FundingFeeType
  <1>5. PositionFee(d) \in Nat
    BY PositionFeeType
  <1> QED
    BY <1>4, <1>5 DEF MarginFee

(* Positions are opened and marked at positive prices.                     *)
LEMMA MarkPriceType ==
  ASSUME TypeOK, NEW k \in Keys, NEW amm \in BOOLEAN
  PROVE  MarkPrice(amm, k) \in Positive /\ EntryPrice(k) \in Positive
  BY KeyFields, PriceType DEF MarkPrice, EntryPrice

(* Losses of a long and profits of a short never exceed the size.          *)
LEMMA DeltaType ==
  ASSUME TypeOK, NEW k \in Keys, NEW amm \in BOOLEAN,
         NEW p \in Position, p.averagePrice > 0
  PROVE  /\ Delta(amm, k, p) \in Nat
         /\ ~(k.isLong <=> HasProfit(amm, k, p)) => Delta(amm, k, p) <= p.size
  <1> DEFINE price == MarkPrice(amm, k)
             gap == Distance(p.averagePrice, price)
             raw == (p.size * gap) \div p.averagePrice
  <1>1. price \in Positive /\ p.averagePrice \in Positive /\ p.size \in Nat
    BY MarkPriceType DEF Position, Positive
  <1>2. gap \in Nat
    BY <1>1 DEF Distance, Positive
  <1>3. raw \in Nat
    BY <1>1, <1>2, ProductNat, QuotientNat
  <1>4. ASSUME price <= p.averagePrice PROVE raw <= p.size
    <2>1. gap <= p.averagePrice
      BY <1>1, <1>4 DEF Distance, Positive
    <2> QED
      BY <1>1, <1>2, <2>1, ShareBound
  <1>5. ~(k.isLong <=> HasProfit(amm, k, p)) => price <= p.averagePrice
    BY <1>1, KeyFields DEF HasProfit, Positive
  <1>6. Delta(amm, k, p) \in {0, raw}
    BY DEF Delta
  <1> QED
    BY <1>1, <1>3, <1>4, <1>5, <1>6

(* The fees validateLiquidation returns are an amount.                     *)
LEMMA LiquidationCheckType ==
  ASSUME TypeOK, NEW k \in Keys, NEW amm \in BOOLEAN, NEW raise \in BOOLEAN,
         NEW p \in Position, p.averagePrice > 0,
         NEW rate \in Nat, p.entryFundingRate <= rate
  PROVE  LiquidationCheck(amm, raise, k, p, rate).fees \in Nat
  <1> DEFINE marginFees == FundingFee(p.size, rate, p.entryFundingRate)
                               + PositionFee(p.size)
             remaining == IF ~HasProfit(amm, k, p)
                          THEN p.collateral - Delta(amm, k, p)
                          ELSE IF raise THEN p.collateral
                          ELSE p.collateral + Delta(amm, k, p)
  <1>1. p.size \in Nat /\ p.collateral \in Nat /\ p.entryFundingRate \in Nat
    BY DEF Position
  <1>2. marginFees \in Nat
    <2>1. FundingFee(p.size, rate, p.entryFundingRate) \in Nat
      BY <1>1, FundingFeeType
    <2>2. PositionFee(p.size) \in Nat
      BY <1>1, PositionFeeType
    <2> QED
      BY <2>1, <2>2
  <1>3. remaining \in Int
    BY <1>1, DeltaType
  <1> HIDE DEF marginFees, remaining
  <1>4. \/ LiquidationCheck(amm, raise, k, p, rate).fees = marginFees
        \/ /\ LiquidationCheck(amm, raise, k, p, rate).fees = remaining
           /\ ~(remaining < 0)
    BY DEF LiquidationCheck, marginFees, remaining
  <1> QED
    BY <1>2, <1>3, <1>4

(* The average price after an increase of a position that can be priced is *)
(* an amount.                                                              *)
LEMMA NextAveragePriceType ==
  ASSUME TypeOK, NEW k \in Keys, NEW d \in Positive,
         positions[k].averagePrice > 0
  PROVE  NextAveragePrice(k, d) \in Nat
  <1> DEFINE p == positions[k]
             nextSize == p.size + d
             delta == Delta(TRUE, k, p)
             divisor == IF k.isLong <=> HasProfit(TRUE, k, p)
                        THEN nextSize + delta ELSE nextSize - delta
  <1>1. nextSize \in Positive /\ p.size \in Nat
    BY PositionType DEF Positive
  <1>2. delta \in Nat /\ (~(k.isLong <=> HasProfit(TRUE, k, p)) => delta <= p.size)
    BY PositionType, DeltaType
  <1>3. divisor \in Positive
    <2>1. CASE k.isLong <=> HasProfit(TRUE, k, p)
      <3>1. divisor = nextSize + delta
        BY <2>1
      <3> HIDE DEF nextSize, delta, divisor
      <3> QED
        BY <1>1, <1>2, <3>1 DEF Positive
    <2>2. CASE ~(k.isLong <=> HasProfit(TRUE, k, p))
      <3>1. delta <= p.size /\ divisor = nextSize - delta
        BY <1>2, <2>2
      <3>2. nextSize = p.size + d /\ d \in Positive
        OBVIOUS
      <3> HIDE DEF nextSize, delta, divisor, p
      <3> QED
        BY <1>1, <1>2, <3>1, <3>2 DEF Positive
    <2> QED
      BY <2>1, <2>2
  <1>4. EntryPrice(k) * nextSize \in Nat
    BY <1>1, MarkPriceType, ProductNat DEF Positive
  <1> QED
    BY <1>3, <1>4, QuotientNat DEF NextAveragePrice

(* The average price of all shorts of a token stays an amount.             *)
LEMMA NextGlobalShortAveragePriceType ==
  ASSUME TypeOK, NEW t \in Volatile, NEW price \in Positive, NEW d \in Nat,
         globalShortSizes[t] > 0 => globalShortAveragePrices[t] > 0
  PROVE  NextGlobalShortAveragePrice(t, price, d) \in Nat
  <1> DEFINE size == globalShortSizes[t]
             average == globalShortAveragePrices[t]
             gap == Distance(average, price)
             delta == (size * gap) \div average
             nextSize == size + d
             divisor == IF average > price THEN nextSize - delta
                                           ELSE nextSize + delta
  <1>1. size \in Nat /\ average \in Nat
    BY DEF TypeOK
  <1>2. CASE size = 0
    BY <1>2 DEF NextGlobalShortAveragePrice, Positive
  <1>3. CASE size # 0
    <2>1. average \in Positive /\ gap \in Nat /\ size \in Positive
      BY <1>1, <1>3 DEF Positive, Distance
    <2>2. delta \in Nat
      BY <2>1, ProductNat, QuotientNat DEF Positive
    <2>3. ASSUME average > price PROVE delta < size
      <3>1. gap \in Nat /\ gap < average
        BY <2>1, <2>3 DEF Distance, Positive
      <3>2. size * gap < size * average
        BY <2>1, <3>1 DEF Positive
      <3>3. delta * average <= size * gap
        BY <2>1, ProductNat, DivisionBounds DEF Positive
      <3>4. delta * average < size * average
        BY <2>1, <2>2, <3>1, <3>2, <3>3, ProductNat DEF Positive
      <3> QED
        BY <2>1, <2>2, <3>4 DEF Positive
    <2>4. divisor \in Positive
      BY <2>1, <2>2, <2>3 DEF Positive
    <2>5. price * nextSize \in Nat
      BY <2>1, ProductNat DEF Positive
    <2> QED
      BY <1>3, <2>4, <2>5, QuotientNat DEF NextGlobalShortAveragePrice
  <1> QED
    BY <1>2, <1>3

-----------------------------------------------------------------------------
(* What a partial close gives back of the reserve is within it.            *)
LEMMA ReserveShareType ==
  ASSUME NEW p \in Position, NEW d \in Nat, p.size > 0, d <= p.size
  PROVE  /\ ReserveShare(p, d) \in Nat
         /\ ReserveShare(p, d) <= p.reserveAmount
  <1>1. p.size \in Positive /\ p.reserveAmount \in Nat
    BY DEF Position, Positive
  <1> QED
    BY <1>1, ShareBound, ProductNat, QuotientNat DEF ReserveShare

(* What _reduceCollateral takes off the collateral, pays out and books:    *)
(* the pool and fees part with no more tokens than the conversions give.   *)
LEMMA ReductionType ==
  ASSUME IInv, NEW k \in Keys, NEW amm \in BOOLEAN,
         NEW cd \in Nat, NEW d \in Nat,
         Open(k), d <= positions[k].size, positions[k].averagePrice > 0,
         NEW r, r = Reduction(amm, k, cd, d), r.left >= 0
  PROVE  /\ r.fee \in Nat /\ r.profit \in Nat /\ r.left \in Nat
         /\ r.collateral \in Int /\ r.usdOut \in Nat
         /\ r.paid \in Nat /\ r.poolIn \in Nat /\ r.poolOut \in Nat
         /\ r.usdOut = 0 => r.paid = 0
         /\ k.isLong => /\ r.poolIn = 0
                        /\ r.paid + UsdToTokenMin(amm, k.collateralToken, r.fee)
                               <= r.poolOut
         /\ ~k.isLong /\ ~(r.profit > 0) => r.poolOut = 0
  <1> DEFINE p == positions[k]
             c == k.collateralToken
             fee == MarginFee(k, d)
             closing == p.size = d
             pnl == (d * Delta(amm, k, p)) \div p.size
             profit == IF HasProfit(amm, k, p) THEN pnl ELSE 0
             loss == pnl - profit
             left == p.collateral - loss - cd
             usdOut == profit + cd + (IF closing THEN left ELSE 0)
             feeFromPosition == usdOut <= fee
             tokens(usd) == UsdToTokenMin(amm, c, usd)
  <1>1. TypeOK /\ EntryRateBehind
    BY DEF IInv
  <1>2. c \in Token
    BY KeyFields
  <1>3. /\ p \in Position /\ p.size \in Positive /\ p.collateral \in Nat
    BY <1>1, PositionType DEF Open, Positive
  <1>4. fee \in Nat
    BY <1>1, MarginFeeType
  <1>5. pnl \in Nat
    <2>1. Delta(amm, k, p) \in Nat
      BY <1>1, <1>3, DeltaType
    <2> QED
      BY <1>3, <2>1, ProductNat, QuotientNat
  <1>6. /\ r.fee = fee /\ r.profit = profit /\ r.left = left
        /\ r.usdOut = usdOut
        /\ r.collateral = (IF closing THEN 0 ELSE left)
                              - (IF feeFromPosition THEN fee ELSE 0)
        /\ r.paid = tokens(IF feeFromPosition THEN usdOut ELSE usdOut - fee)
        /\ r.poolIn = IF k.isLong THEN 0 ELSE tokens(loss)
        /\ r.poolOut = IF ~k.isLong THEN tokens(profit)
                       ELSE tokens(usdOut)
                            + (IF feeFromPosition THEN tokens(fee) ELSE 0)
    BY DEF Reduction
  <1> HIDE DEF pnl, fee, p, c
  <1>7. profit \in Nat /\ loss \in Nat
    BY <1>5
  <1> HIDE DEF profit, loss
  <1>8. left \in Nat
    BY <1>3, <1>6, <1>7
  <1> HIDE DEF left
  <1>9. usdOut \in Nat
    BY <1>7, <1>8
  <1> HIDE DEF usdOut
  <1>10. \A n \in Nat : tokens(n) \in Nat
    BY <1>1, <1>2, ConversionType
  <1>11. tokens(0) = 0
    BY <1>1, <1>2, ConversionType
  <1>12. ~feeFromPosition => usdOut - fee \in Nat
    BY <1>4, <1>9
  <1>13. \A a, b \in Nat : tokens(a) + tokens(b) <= tokens(a + b)
    BY <1>1, <1>2, UsdToTokenSum
  <1> HIDE DEF tokens
  <1>14. ~feeFromPosition
           => tokens(usdOut - fee) + tokens(fee) <= tokens(usdOut)
    <2>1. ASSUME ~feeFromPosition
          PROVE  tokens(usdOut - fee) + tokens(fee)
                     <= tokens((usdOut - fee) + fee)
      BY <1>4, <1>12, <1>13, <2>1
    <2>2. (usdOut - fee) + fee = usdOut
      BY <1>4, <1>9
    <2> QED
      BY <2>1, <2>2
  <1>15. r.paid \in Nat /\ r.poolIn \in Nat /\ r.poolOut \in Nat
    BY <1>4, <1>6, <1>7, <1>9, <1>10, <1>12
  <1>16. r.usdOut = 0 => r.paid = 0
    <2>1. ASSUME usdOut = 0 PROVE feeFromPosition
      BY <1>4, <2>1
    <2> QED
      BY <1>6, <1>11, <2>1
  <1>17. ASSUME k.isLong
         PROVE  /\ r.poolIn = 0
                /\ r.paid + tokens(r.fee) <= r.poolOut
    <2>1. r.poolIn = 0 /\ r.fee = fee
      BY <1>6, <1>17
    <2>2. CASE feeFromPosition
      <3>1. r.paid = tokens(usdOut) /\ r.poolOut = tokens(usdOut) + tokens(fee)
        BY <1>6, <1>17, <2>2
      <3> QED
        BY <1>4, <1>9, <1>10, <2>1, <3>1
    <2>3. CASE ~feeFromPosition
      <3>1. r.paid = tokens(usdOut - fee) /\ r.poolOut = tokens(usdOut) + 0
        BY <1>6, <1>17, <2>3
      <3> QED
        BY <1>4, <1>9, <1>10, <1>14, <2>1, <2>3, <3>1
    <2> QED
      BY <2>2, <2>3
  <1>18. ~k.isLong /\ ~(r.profit > 0) => r.poolOut = 0
    BY <1>6, <1>7, <1>11
  <1>19. r.collateral \in Int
    BY <1>4, <1>6, <1>8
  <1> QED
    BY <1>4, <1>6, <1>7, <1>8, <1>9, <1>15, <1>16, <1>17, <1>18, <1>19
    DEF tokens, c

-----------------------------------------------------------------------------
(* The inductive invariant holds initially and every action preserves it.  *)

(* The first liquidity satisfies the invariant.                            *)
LEMMA InitIInv == Init => IInv
  <1> SUFFICES ASSUME Init PROVE IInv
    OBVIOUS
  <1> USE DEF Init
  <1>1. NoPosition \in Position
    BY DEF NoPosition, Position
  <1>2. prices \in [Token -> Quote]
    BY TokenAssumption
  <1>3. TypeOK
    BY <1>1, <1>2, TokenAssumption, UnitType, ParameterAssumption DEF TypeOK
  <1>4. BalancesRecorded
    BY UnitType, ParameterAssumption DEF BalancesRecorded
  <1>5. EntryRateBehind
    BY KeyFields DEF EntryRateBehind, NoPosition
  <1>6. PositionShape
    BY DEF PositionShape, Open, NoPosition
  <1>7. ReservedWithinPool /\ VolatileSolvent
    BY UnitType, ParameterAssumption DEF ReservedWithinPool, VolatileSolvent
  <1> QED
    BY <1>3, <1>4, <1>5, <1>6, <1>7 DEF IInv

(* Transfers in, price changes and time preserve the invariant.            *)
LEMMA EnvironmentIInv == IInv /\ Environment => IInv'
  <1> SUFFICES ASSUME IInv, Environment PROVE IInv'
    OBVIOUS
  <1> USE DEF IInv, ledgerVars, debtVars, fundingVars, positionVars,
              configVars, envVars, CountEvent
  <1>1. ASSUME NEW a \in Asset, NEW n \in SendAmounts[a], SendTokens(a, n)
        PROVE  IInv'
    <2>1. n \in Nat
      BY InputAssumption
    <2>2. TypeOK'
      BY <1>1, <2>1 DEF TypeOK, SendTokens
    <2>3. BalancesRecorded'
      BY <1>1, <2>1, UnitType DEF BalancesRecorded, SendTokens, TypeOK
    <2>4. EntryRateBehind' /\ PositionShape' /\ ReservedWithinPool'
          /\ VolatileSolvent'
      BY <1>1 DEF SendTokens, EntryRateBehind, PositionShape, Open,
                  ReservedWithinPool, VolatileSolvent
    <2> QED
      BY <2>2, <2>3, <2>4
  <1>2. ASSUME NEW t \in Token, NEW q \in Quotes[t], ChangePrice(t, q)
        PROVE  IInv'
    <2>1. q \in Quote
      BY TokenAssumption
    <2>2. TypeOK'
      BY <1>2, <2>1 DEF TypeOK, ChangePrice
    <2> QED
      BY <1>2, <2>2 DEF ChangePrice, BalancesRecorded, EntryRateBehind,
             PositionShape, Open, ReservedWithinPool, VolatileSolvent
  <1>3. ASSUME Tick PROVE IInv'
    <2>1. TypeOK'
      BY <1>3 DEF TypeOK, Tick
    <2> QED
      BY <1>3, <2>1 DEF Tick, BalancesRecorded, EntryRateBehind,
             PositionShape, Open, ReservedWithinPool, VolatileSolvent
  <1> QED
    BY <1>1, <1>2, <1>3 DEF Environment

(* Accruing funding leaves entry rates behind and nothing else changes     *)
(* hands.                                                                  *)
LEMMA AccrueEntryRates ==
  ASSUME IInv, NEW ts \in SUBSET Token, AccrueFunding(ts),
         positions' = positions
  PROVE  EntryRateBehind' /\ PositionShape'
  <1>1. \A t \in Token : cumulativeFundingRates[t] <= cumulativeFundingRates'[t]
    BY AccrueFundingType DEF IInv
  <1>2. cumulativeFundingRates' \in [Token -> Nat]
    BY AccrueFundingType DEF IInv
  <1>3. \A k \in Keys : /\ positions[k].entryFundingRate \in Nat
                        /\ cumulativeFundingRates[k.collateralToken] \in Nat
                        /\ k.collateralToken \in Token
    BY PositionType, KeyFields DEF IInv, TypeOK
  <1>4. EntryRateBehind'
    BY <1>1, <1>2, <1>3 DEF IInv, EntryRateBehind
  <1> QED
    BY <1>4 DEF IInv, PositionShape, Open

(* Updating the funding rate preserves the invariant.                      *)
LEMMA UpdateFundingIInv ==
  ASSUME IInv, NEW t \in Token, UpdateCumulativeFundingRate(t)
  PROVE  IInv'
  <1> USE DEF IInv, UpdateCumulativeFundingRate, ledgerVars, debtVars,
              positionVars, configVars, envVars
  <1>1. TypeOK'
    BY AccrueFundingType DEF TypeOK
  <1>2. EntryRateBehind' /\ PositionShape'
    BY AccrueEntryRates
  <1> QED
    BY <1>1, <1>2 DEF BalancesRecorded, ReservedWithinPool, VolatileSolvent

(* What _transferIn measures is an amount.                                 *)
LEMMA TransferInType ==
  ASSUME IInv, NEW a \in Asset
  PROVE  TransferIn(a) \in Nat /\ TransferIn(a) <= balance[a]
  BY DEF IInv, TypeOK, BalancesRecorded, TransferIn

(* A direct deposit preserves the invariant.                               *)
LEMMA DirectPoolDepositIInv ==
  ASSUME IInv, NEW t \in Token, DirectPoolDeposit(t)
  PROVE  IInv'
  <1> DEFINE amount == TransferIn(t)
  <1> USE DEF IInv, ledgerVars, debtVars, fundingVars, positionVars,
              configVars, envVars
  <1>1. amount \in Nat /\ amount = balance[t] - tokenBalances[t]
    BY TransferInType, UnitType DEF TransferIn
  <1> HIDE DEF amount
  <1>2. /\ poolAmounts' = [poolAmounts EXCEPT ![t] = @ + amount]
        /\ tokenBalances' = [tokenBalances EXCEPT ![t] = balance[t]]
        /\ UNCHANGED <<balance, feeReserves, debtVars, fundingVars,
                       positionVars, configVars, envVars>>
    BY DEF DirectPoolDeposit, amount
  <1>3. TypeOK'
    BY <1>1, <1>2, UnitType DEF TypeOK
  <1>4. BalancesRecorded'
    BY <1>1, <1>2, UnitType DEF BalancesRecorded, TypeOK
  <1>5. EntryRateBehind' /\ PositionShape'
    BY <1>2 DEF EntryRateBehind, PositionShape, Open
  <1>6. ReservedWithinPool'
    BY <1>1, <1>2 DEF ReservedWithinPool, TypeOK
  <1>7. VolatileSolvent'
    BY <1>1, <1>2, UnitType DEF VolatileSolvent, TypeOK
  <1> QED
    BY <1>3, <1>4, <1>5, <1>6, <1>7

(* Minting USDG preserves the invariant: pool and fees split what came in. *)
LEMMA BuyUSDGIInv ==
  ASSUME IInv, NEW t \in Token, NEW sent \in Nat, BuyUSDG(t, sent)
  PROVE  IInv' /\ usdgSupply <= usdgSupply'
  <1> DEFINE amount == TransferIn(t) + sent
             bps == FeeBasisPoints(t, usdgAmounts[t], usdgSupply,
                        UsdgValue(t, amount), fees.mintBurnFeeBasisPoints,
                        fees.taxBasisPoints, TRUE)
             afterFees == AfterFees(amount, bps)
             minted == UsdgValue(t, afterFees)
  <1> USE DEF IInv, positionVars, configVars, envVars
  <1>1. amount \in Nat /\ amount = balance[t] + sent - tokenBalances[t]
    BY TransferInType, UnitType DEF TransferIn, TypeOK
  <1> HIDE DEF amount
  <1>2. bps \in Nat
    <2>1. usdgAmounts[t] \in Nat /\ usdgSupply \in Nat
          /\ UsdgValue(t, amount) \in Nat
      BY <1>1, UsdgValueType DEF TypeOK
    <2> QED
      BY <2>1, FeeTypes, FeeBasisPointsType
  <1> HIDE DEF bps
  <1>3. /\ bps <= BPS
        /\ AccrueFunding({t})
        /\ feeReserves' = [feeReserves EXCEPT ![t] = @ + (amount - afterFees)]
        /\ poolAmounts' = [poolAmounts EXCEPT ![t] = @ + afterFees]
        /\ balance' = [balance EXCEPT ![t] = @ + sent]
        /\ tokenBalances' = [tokenBalances EXCEPT ![t] = balance'[t]]
        /\ usdgAmounts' = [usdgAmounts EXCEPT ![t] = @ + minted]
        /\ usdgSupply' = usdgSupply + minted
        /\ UNCHANGED <<positionVars, configVars, envVars>>
    BY DEF BuyUSDG, amount, bps
  <1>4. afterFees \in 0..amount
    <2>1. bps <= BPS
      BY <1>3
    <2>2. bps \in 0..BPS
      BY <1>2, <2>1, ParameterAssumption DEF Positive
    <2>3. AfterFees(amount, bps) \in 0..amount
      BY <1>1, <2>2, AfterFeesBound
    <2> QED
      BY <2>3 DEF afterFees
  <1>5. minted \in Nat
    BY <1>1, <1>4, UsdgValueType
  <1> HIDE DEF afterFees, minted
  <1>6. TypeOK'
    BY <1>1, <1>3, <1>4, <1>5, AccrueFundingType, UnitType DEF TypeOK
  <1>7. BalancesRecorded'
    BY <1>3, <1>5, UnitType DEF BalancesRecorded, TypeOK
  <1>8. EntryRateBehind' /\ PositionShape'
    BY <1>3, AccrueEntryRates
  <1>9. ReservedWithinPool'
    BY <1>1, <1>3, <1>4 DEF ReservedWithinPool, TypeOK
  <1>10. VolatileSolvent'
    BY <1>1, <1>3, <1>4, UnitType DEF VolatileSolvent, TypeOK
  <1>11. usdgSupply <= usdgSupply'
    BY <1>3, <1>5 DEF TypeOK
  <1> QED
    BY <1>6, <1>7, <1>8, <1>9, <1>10, <1>11

(* Redeeming USDG preserves the invariant: what leaves the pool is paid    *)
(* out or becomes a fee.                                                   *)
LEMMA SellUSDGIInv ==
  ASSUME IInv, NEW t \in Token, NEW fresh \in Nat, NEW sent \in Nat,
         SellUSDG(t, fresh, sent)
  PROVE  IInv'
  <1> DEFINE usdg == TransferIn(USDG) + sent
             redemption == RedemptionAmount(t, usdg)
             debt == DecreasedUsdg(usdgAmounts[t], usdg)
             bps == FeeBasisPoints(t, debt, usdgSupply + fresh - usdg, usdg,
                        fees.mintBurnFeeBasisPoints, fees.taxBasisPoints, FALSE)
             amountOut == AfterFees(redemption, bps)
  <1> USE DEF IInv, positionVars, configVars, envVars
  <1>1. /\ usdg \in Nat /\ usdg <= balance[USDG] + sent
        /\ usdg <= usdgSupply + fresh
        /\ balance[USDG] + sent <= usdgSupply + fresh
        /\ usdg = balance[USDG] + sent - tokenBalances[USDG]
    <2>1. balance[USDG] + sent <= usdgSupply + fresh
      BY DEF SellUSDG
    <2> QED BY <2>1, TransferInType, UnitType DEF TransferIn, TypeOK
  <1> HIDE DEF usdg
  <1>2. redemption \in Nat
    BY <1>1, RedemptionType
  <1> HIDE DEF redemption
  <1>3. debt \in Nat
    BY <1>1 DEF DecreasedUsdg, TypeOK
  <1> HIDE DEF debt
  <1>4. bps \in Nat
    <2>1. usdgSupply + fresh - usdg \in Nat
      BY <1>1 DEF TypeOK
    <2> QED
      BY <1>1, <1>3, <2>1, FeeTypes, FeeBasisPointsType
  <1> HIDE DEF bps
  <1>5. /\ bps <= BPS
        /\ reservedAmounts[t] <= poolAmounts[t] - redemption
        /\ amountOut <= balance[t]
        /\ AccrueFunding({t})
        /\ usdgAmounts' = [usdgAmounts EXCEPT ![t] = debt]
        /\ usdgSupply' = usdgSupply + fresh - usdg
        /\ poolAmounts' = [poolAmounts EXCEPT ![t] = @ - redemption]
        /\ feeReserves' = [feeReserves EXCEPT
                               ![t] = @ + (redemption - amountOut)]
        /\ balance' = [balance EXCEPT ![USDG] = @ + sent - usdg, ![t] = @ - amountOut]
        /\ tokenBalances' = [tokenBalances EXCEPT ![USDG] = balance'[USDG],
                                                  ![t] = balance'[t]]
        /\ UNCHANGED <<positionVars, configVars, envVars>>
    BY DEF SellUSDG, WithinPool, usdg, redemption, debt, bps
  <1>6. amountOut \in 0..redemption
    <2>1. bps <= BPS
      BY <1>5
    <2>2. bps \in 0..BPS
      BY <1>4, <2>1, ParameterAssumption DEF Positive
    <2>3. AfterFees(redemption, bps) \in 0..redemption
      BY <1>2, <2>2, AfterFeesBound
    <2> QED
      BY <2>3 DEF amountOut
  <1> HIDE DEF amountOut
  <1>7. /\ balance'[USDG] = balance[USDG] + sent - usdg
        /\ balance'[t] = balance[t] - amountOut
        /\ \A a \in Asset \ {t, USDG} : balance'[a] = balance[a]
    BY <1>5, UnitType DEF TypeOK
  <1>8. TypeOK'
    <2>1. balance' \in [Asset -> Nat]
      BY <1>1, <1>5, <1>6, UnitType DEF TypeOK
    <2>2. tokenBalances' \in [Asset -> Nat]
      BY <1>5, <2>1, UnitType DEF TypeOK
    <2>3. poolAmounts' \in [Token -> Nat]
      BY <1>2, <1>5 DEF TypeOK
    <2>4. feeReserves' \in [Token -> Nat]
      BY <1>2, <1>5, <1>6 DEF TypeOK
    <2>5. usdgAmounts' \in [Token -> Nat] /\ usdgSupply' \in Nat
      BY <1>1, <1>3, <1>5 DEF TypeOK
    <2> QED
      BY <1>5, <2>1, <2>2, <2>3, <2>4, <2>5, AccrueFundingType DEF TypeOK
  <1>9. BalancesRecorded'
    BY <1>1, <1>5, <1>6, <1>7, UnitType DEF BalancesRecorded, TypeOK
  <1>10. EntryRateBehind' /\ PositionShape'
    BY <1>5, AccrueEntryRates
  <1>11. ReservedWithinPool'
    BY <1>5 DEF ReservedWithinPool, TypeOK
  <1>12. VolatileSolvent'
    BY <1>2, <1>5, <1>6, <1>7, UnitType
    DEF VolatileSolvent, BalancesRecorded, TypeOK
  <1> QED
    BY <1>8, <1>9, <1>10, <1>11, <1>12

(* Swapping preserves the invariant for both tokens.                       *)
LEMMA SwapIInv ==
  ASSUME IInv, NEW tokenIn \in Token, NEW tokenOut \in Token,
         Swap(tokenIn, tokenOut)
  PROVE  IInv'
  <1> DEFINE amountIn == TransferIn(tokenIn)
             amountOut == AdjustForDecimals(
                 (amountIn * MinPrice(TRUE, tokenIn))
                     \div MaxPrice(TRUE, tokenOut), tokenIn, tokenOut)
             usdg == UsdgValue(tokenIn, amountIn)
             bps == SwapFeeBasisPoints(tokenIn, tokenOut, usdg)
             paid == AfterFees(amountOut, bps)
  <1> USE DEF IInv, positionVars, configVars, envVars
  <1>1. /\ amountIn \in Nat /\ amountIn <= balance[tokenIn]
        /\ amountIn = balance[tokenIn] - tokenBalances[tokenIn]
    BY TransferInType, UnitType DEF TransferIn
  <1> HIDE DEF amountIn
  <1>2. amountOut \in Nat
    <2>1. /\ MinPrice(TRUE, tokenIn) \in Positive
          /\ MaxPrice(TRUE, tokenOut) \in Positive
          /\ TokenUnit[tokenIn] \in Positive /\ TokenUnit[tokenOut] \in Positive
      BY PriceType, UnitType
    <2>2. (amountIn * MinPrice(TRUE, tokenIn)) \div MaxPrice(TRUE, tokenOut)
              \in Nat
      BY <1>1, <2>1, ProductNat, QuotientNat DEF Positive
    <2> QED
      BY <2>1, <2>2, ProductNat, QuotientNat DEF AdjustForDecimals, Positive
  <1> HIDE DEF amountOut
  <1>3. usdg \in Nat
    BY <1>1, UsdgValueType
  <1> HIDE DEF usdg
  <1>4. bps \in Nat
    BY <1>3, SwapFeeType
  <1> HIDE DEF bps
  <1>5. /\ bps <= BPS /\ tokenIn # tokenOut
        /\ reservedAmounts[tokenOut] <= poolAmounts[tokenOut] - amountOut
        /\ paid <= balance[tokenOut]
        /\ AccrueFunding({tokenIn, tokenOut})
        /\ feeReserves' = [feeReserves EXCEPT
                               ![tokenOut] = @ + (amountOut - paid)]
        /\ usdgAmounts' = [usdgAmounts EXCEPT
                               ![tokenIn] = @ + usdg,
                               ![tokenOut] = DecreasedUsdg(@, usdg)]
        /\ poolAmounts' = [poolAmounts EXCEPT ![tokenIn] = @ + amountIn,
                                              ![tokenOut] = @ - amountOut]
        /\ balance' = [balance EXCEPT ![tokenOut] = @ - paid]
        /\ tokenBalances' = [tokenBalances EXCEPT
                                ![tokenIn] = balance[tokenIn],
                                ![tokenOut] = balance'[tokenOut]]
        /\ UNCHANGED <<usdgSupply, positionVars, configVars, envVars>>
    BY DEF Swap, WithinPool, amountIn, amountOut, usdg, bps
  <1>6. paid \in 0..amountOut
    <2>1. bps <= BPS
      BY <1>5
    <2>2. bps \in 0..BPS
      BY <1>4, <2>1, ParameterAssumption DEF Positive
    <2>3. AfterFees(amountOut, bps) \in 0..amountOut
      BY <1>2, <2>2, AfterFeesBound
    <2> QED
      BY <2>3 DEF paid
  <1> HIDE DEF paid
  <1>7. /\ balance'[tokenOut] = balance[tokenOut] - paid
        /\ \A a \in Asset \ {tokenOut} : balance'[a] = balance[a]
    BY <1>5, UnitType DEF TypeOK
  <1>8. TypeOK'
    <2>1. balance' \in [Asset -> Nat]
      BY <1>5, <1>6, UnitType DEF TypeOK
    <2>2. tokenBalances' \in [Asset -> Nat]
      BY <1>5, <2>1, UnitType DEF TypeOK
    <2>3. poolAmounts' \in [Token -> Nat]
      BY <1>1, <1>2, <1>5 DEF TypeOK
    <2>4. feeReserves' \in [Token -> Nat]
      BY <1>2, <1>5, <1>6 DEF TypeOK
    <2>5. usdgAmounts' \in [Token -> Nat] /\ usdgSupply' \in Nat
      BY <1>3, <1>5 DEF TypeOK, DecreasedUsdg
    <2> QED
      BY <1>5, <2>1, <2>2, <2>3, <2>4, <2>5, AccrueFundingType DEF TypeOK
  <1>9. BalancesRecorded'
    BY <1>1, <1>5, <1>6, <1>7, UnitType DEF BalancesRecorded, TypeOK
  <1>10. EntryRateBehind' /\ PositionShape'
    BY <1>5, AccrueEntryRates
  <1>11. ReservedWithinPool'
    BY <1>1, <1>5 DEF ReservedWithinPool, TypeOK
  <1>12. VolatileSolvent'
    BY <1>1, <1>2, <1>5, <1>6, <1>7, UnitType
    DEF VolatileSolvent, BalancesRecorded, TypeOK
  <1> QED
    BY <1>8, <1>9, <1>10, <1>11, <1>12

(* A changed position that enters at the accrued rate keeps EntryRateBehind. *)
LEMMA ChangedPosition ==
  ASSUME IInv, NEW k \in Keys, NEW p \in Position,
         AccrueFunding({k.collateralToken}),
         positions' = [positions EXCEPT ![k] = p],
         p.entryFundingRate <= CumulativeRate(k.collateralToken),
         IF p.size > 0 THEN p.collateral <= p.size /\ p.averagePrice > 0
                       ELSE p = NoPosition
  PROVE  /\ positions' \in [Keys -> Position]
         /\ EntryRateBehind' /\ PositionShape'
  <1> USE DEF IInv
  <1>1. k.collateralToken \in Token
    BY KeyFields
  <1>2. /\ cumulativeFundingRates' \in [Token -> Nat]
        /\ cumulativeFundingRates'[k.collateralToken]
               = CumulativeRate(k.collateralToken)
        /\ \A t \in Token :
              cumulativeFundingRates[t] <= cumulativeFundingRates'[t]
    BY <1>1, AccrueFundingType
  <1>3. positions' \in [Keys -> Position]
    BY DEF TypeOK
  <1>4. positions'[k] = p /\ \A j \in Keys \ {k} : positions'[j] = positions[j]
    BY DEF TypeOK
  <1>5. EntryRateBehind'
    <2> SUFFICES ASSUME NEW j \in Keys
                 PROVE  positions'[j].entryFundingRate
                            <= cumulativeFundingRates'[j.collateralToken]
      BY DEF EntryRateBehind
    <2>1. CASE j = k
      BY <1>2, <1>4, <2>1
    <2>2. CASE j # k
      <3>1. /\ positions[j].entryFundingRate \in Nat
            /\ cumulativeFundingRates[j.collateralToken] \in Nat
            /\ j.collateralToken \in Token
        BY PositionType, KeyFields DEF TypeOK
      <3>2. positions[j].entryFundingRate
                <= cumulativeFundingRates[j.collateralToken]
        BY DEF EntryRateBehind
      <3> QED
        BY <1>2, <1>4, <2>2, <3>1, <3>2
    <2> QED
      BY <2>1, <2>2
  <1>6. PositionShape'
    BY <1>4 DEF PositionShape, Open
  <1> QED
    BY <1>3, <1>5, <1>6

(* An increased position has its type and enters at the accrued rate.      *)
LEMMA IncreasedType ==
  ASSUME IInv, NEW k \in Keys, NEW d \in Nat,
         Increased(k, d).collateral >= 0, Increased(k, d).size > 0
  PROVE  /\ Increased(k, d) \in Position
         /\ Increased(k, d).entryFundingRate
                = CumulativeRate(k.collateralToken)
  <1> DEFINE p == positions[k]
             c == k.collateralToken
             q == Increased(k, d)
             deposit == TokenToUsdMin(TRUE, c, TransferIn(c))
             fee == MarginFee(k, d)
             reserve == UsdToTokenMax(TRUE, c, d)
  <1> USE DEF IInv
  <1>1. p.size \in Nat /\ p.collateral \in Nat /\ p.reserveAmount \in Nat
        /\ p.averagePrice \in Nat /\ c \in Token
    BY PositionType, KeyFields
  <1>2. q.size \in Nat
    BY <1>1 DEF Increased
  <1>3. q.collateral \in Nat
    <2>1. TransferIn(c) \in Nat
      BY <1>1, TransferInType, UnitType
    <2>2. deposit \in Nat /\ fee \in Nat
      BY <1>1, <2>1, ConversionType, MarginFeeType
    <2>3. q.collateral = p.collateral + deposit - fee
      BY DEF Increased
    <2>4. q.collateral >= 0
      OBVIOUS
    <2> HIDE DEF p, q, deposit, fee
    <2> QED
      BY <1>1, <2>2, <2>3, <2>4
  <1>4. q.averagePrice \in Nat
    <2>1. CASE p.size = 0
      BY <2>1, MarkPriceType DEF Increased, Positive
    <2>2. CASE p.size # 0 /\ d = 0
      BY <1>1, <2>2 DEF Increased
    <2>3. CASE p.size # 0 /\ d # 0
      <3>1. p.averagePrice > 0 /\ d \in Positive
        BY <1>1, <2>3 DEF PositionShape, Open, Positive
      <3>2. q.averagePrice = NextAveragePrice(k, d)
        BY <2>3 DEF Increased
      <3> QED
        BY <3>1, <3>2, NextAveragePriceType
    <2> QED
      BY <2>1, <2>2, <2>3
  <1>5. q.entryFundingRate \in Nat /\ q.entryFundingRate = CumulativeRate(c)
    BY <1>1, FundingType DEF Increased
  <1>6. q.reserveAmount \in Nat
    <2>1. reserve \in Nat
      BY <1>1, ConversionType
    <2>2. q.reserveAmount = p.reserveAmount + reserve
      BY DEF Increased
    <2> HIDE DEF p, q, reserve
    <2> QED
      BY <1>1, <2>1, <2>2
  <1>7. q.lastIncreasedTime \in Nat
    BY DEF Increased, TypeOK
  <1>8. q = [size |-> q.size, collateral |-> q.collateral,
             averagePrice |-> q.averagePrice,
             entryFundingRate |-> q.entryFundingRate,
             reserveAmount |-> q.reserveAmount,
             lastIncreasedTime |-> q.lastIncreasedTime]
    BY DEF Increased
  <1> HIDE DEF q
  <1> QED
    BY <1>2, <1>3, <1>4, <1>5, <1>6, <1>7, <1>8 DEF Position, q

(* Opening or increasing a position preserves the invariant: its reserve   *)
(* is checked against the pool, and the fee comes out of the collateral    *)
(* the pool has just received.                                             *)
LEMMA IncreasePositionIInv ==
  ASSUME IInv, NEW s, NEW k \in Keys, NEW d \in Nat, IncreasePosition(s, k, d)
  PROVE  IInv'
  <1> DEFINE c == k.collateralToken
             p == Increased(k, d)
             fee == MarginFee(k, d)
             feeTokens == UsdToTokenMin(TRUE, c, fee)
             amountIn == TransferIn(c)
             reserve == UsdToTokenMax(TRUE, c, d)
             deposit == TokenToUsdMin(TRUE, c, amountIn)
             pool == IF k.isLong THEN poolAmounts[c] + amountIn - feeTokens
                     ELSE poolAmounts[c]
             reserved == reservedAmounts[c] + reserve
             guaranteed == guaranteedUsd[c] + d + fee - deposit
             shortSize == globalShortSizes[k.indexToken] + d
             shortPrice == NextGlobalShortAveragePrice(k.indexToken,
                               EntryPrice(k), d)
  <1> USE DEF IInv, debtVars, configVars, envVars
  <1>1. /\ p.collateral >= 0 /\ p.size > 0
        /\ ValidPosition(k, p, CumulativeRate(c))
        /\ reserved <= poolAmounts[c]
        /\ k.isLong => guaranteed >= 0 /\ reserved <= pool
        /\ ~k.isLong => (globalShortSizes[k.indexToken] > 0
                             => globalShortAveragePrices[k.indexToken] > 0)
        /\ AccrueFunding({c})
        /\ positions' = [positions EXCEPT ![k] = p]
        /\ feeReserves' = [feeReserves EXCEPT ![c] = @ + feeTokens]
        /\ tokenBalances' = [tokenBalances EXCEPT ![c] = balance[c]]
        /\ reservedAmounts' = [reservedAmounts EXCEPT ![c] = reserved]
        /\ poolAmounts' = [poolAmounts EXCEPT ![c] = pool]
        /\ IF k.isLong
           THEN /\ guaranteedUsd' = [guaranteedUsd EXCEPT ![c] = guaranteed]
                /\ UNCHANGED <<globalShortSizes, globalShortAveragePrices>>
           ELSE /\ globalShortAveragePrices' =
                     [globalShortAveragePrices EXCEPT ![k.indexToken] = shortPrice]
                /\ globalShortSizes' = [globalShortSizes EXCEPT
                                            ![k.indexToken] = shortSize]
                /\ UNCHANGED guaranteedUsd
        /\ UNCHANGED <<balance, debtVars, configVars, envVars>>
    BY DEF IncreasePosition, WithinPool
  <1>2. /\ c \in Token /\ c \in Asset /\ k.indexToken \in Volatile
        /\ ~k.isLong => c \notin Volatile
    BY KeyFields, UnitType
  <1>3. amountIn \in Nat /\ amountIn = balance[c] - tokenBalances[c]
    BY <1>2, TransferInType DEF TransferIn
  <1>4. fee \in Nat /\ feeTokens \in Nat /\ reserve \in Nat
        /\ deposit \in Nat
    BY <1>2, <1>3, MarginFeeType, ConversionType
  <1>5. p \in Position /\ p.entryFundingRate = CumulativeRate(c)
    BY <1>1, IncreasedType
  <1>6. positions' \in [Keys -> Position] /\ EntryRateBehind' /\ PositionShape'
    <2>1. p.collateral <= p.size /\ p.averagePrice > 0
      BY <1>1, <1>5 DEF ValidPosition, Position
    <2>2. p.entryFundingRate <= CumulativeRate(c)
      BY <1>2, <1>5, FundingType
    <2> QED
      BY <1>1, <1>2, <1>5, <2>1, <2>2, ChangedPosition
  <1>7. ~k.isLong => shortPrice \in Nat
    BY <1>1, <1>2, MarkPriceType, NextGlobalShortAveragePriceType
  <1> HIDE DEF p, fee, feeTokens, amountIn, reserve, deposit,
               shortPrice, c
  <1>8. pool \in Int /\ reserved \in Nat /\ guaranteed \in Int
        /\ shortSize \in Nat
    <2>1. /\ poolAmounts[c] \in Nat /\ reservedAmounts[c] \in Nat
          /\ guaranteedUsd[c] \in Nat
          /\ globalShortSizes[k.indexToken] \in Nat
      BY <1>2 DEF TypeOK
    <2> QED
      BY <1>3, <1>4, <2>1
  <1>9. reserved <= pool /\ (k.isLong => guaranteed >= 0)
    BY <1>1
  <1> HIDE DEF pool, reserved, guaranteed, shortSize
  <1>10. TypeOK'
    <2> pool \in Nat
      BY <1>8, <1>9
    <2>1. poolAmounts' \in [Token -> Nat]
      BY <1>1 DEF TypeOK
    <2>2. /\ reservedAmounts' \in [Token -> Nat]
          /\ feeReserves' \in [Token -> Nat]
          /\ tokenBalances' \in [Asset -> Nat]
      BY <1>1, <1>2, <1>4, <1>8 DEF TypeOK
    <2>3. guaranteedUsd' \in [Token -> Nat]
      BY <1>1, <1>8, <1>9 DEF TypeOK
    <2>4. /\ globalShortSizes' \in [Volatile -> Nat]
          /\ globalShortAveragePrices' \in [Volatile -> Nat]
      BY <1>1, <1>7, <1>8 DEF TypeOK
    <2>5. /\ cumulativeFundingRates' \in [Token -> Nat]
          /\ lastFundingTimes' \in [Token -> Nat]
      BY <1>1, <1>2, AccrueFundingType
    <2> QED
      BY <1>1, <1>6, <2>1, <2>2, <2>3, <2>4, <2>5 DEF TypeOK
  <1>11. BalancesRecorded'
    BY <1>1, <1>2 DEF BalancesRecorded, TypeOK
  <1>12. ReservedWithinPool'
    BY <1>1, <1>8, <1>9 DEF ReservedWithinPool, TypeOK
  <1>13. VolatileSolvent'
    <2>1. CASE k.isLong
      <3>1. pool = poolAmounts[c] + amountIn - feeTokens
        BY <2>1 DEF pool
      <3> QED
        BY <1>1, <1>2, <1>3, <1>4, <1>8, <3>1, UnitType
        DEF VolatileSolvent, TypeOK
    <2>2. CASE ~k.isLong
      <3>1. c \notin Volatile
        BY <1>2, <2>2
      <3> QED
        BY <1>1, <1>2, <3>1, UnitType DEF VolatileSolvent, TypeOK
    <2> QED
      BY <2>1, <2>2
  <1> QED
    BY <1>6, <1>10, <1>11, <1>12, <1>13

(* A partly closed position is a position again, entered at the accrued    *)
(* rate; a fully closed one leaves nothing.                                *)
LEMMA DecreasedType ==
  ASSUME IInv, NEW k \in Keys, NEW amm \in BOOLEAN,
         NEW cd \in Nat, NEW d \in Nat,
         Open(k), d <= positions[k].size, positions[k].averagePrice > 0,
         Reduction(amm, k, cd, d).left >= 0,
         Reduction(amm, k, cd, d).collateral >= 0
  PROVE  /\ Decreased(amm, k, cd, d) \in Position
         /\ Decreased(amm, k, cd, d).entryFundingRate
                <= CumulativeRate(k.collateralToken)
         /\ d # positions[k].size => Decreased(amm, k, cd, d).size > 0
         /\ d = positions[k].size => Decreased(amm, k, cd, d) = NoPosition
  <1> DEFINE p == positions[k]
             rate == CumulativeRate(k.collateralToken)
             r == Reduction(amm, k, cd, d)
             q == Decreased(amm, k, cd, d)
             share == ReserveShare(p, d)
  <1>1. TypeOK
    BY DEF IInv
  <1>2. p \in Position /\ p.size \in Nat
    BY <1>1, PositionType
  <1>3. rate \in Nat
    BY <1>1, KeyFields, FundingType
  <1>4. CASE d = p.size
    <2>1. q = NoPosition
      BY <1>4 DEF Decreased
    <2>2. NoPosition \in Position /\ NoPosition.entryFundingRate = 0
      BY DEF NoPosition, Position
    <2> QED
      BY <1>3, <1>4, <2>1, <2>2
  <1>5. CASE d # p.size
    <2>1. share \in Nat /\ share <= p.reserveAmount
      BY <1>2, ReserveShareType DEF Open
    <2>2. r.collateral \in Nat
      <3>1. r.collateral \in Int
        BY ReductionType
      <3> QED
        BY <3>1
    <2>3. q = [p EXCEPT !.size = @ - d, !.collateral = r.collateral,
                        !.entryFundingRate = rate,
                        !.reserveAmount = @ - share]
      BY <1>5 DEF Decreased
    <2> HIDE DEF p, r, q, rate, share
    <2>4. p.size - d \in Nat /\ p.size - d > 0
      BY <1>2, <1>5 DEF p
    <2>5. p.reserveAmount - share \in Nat
      BY <1>2, <2>1 DEF Position
    <2>6. /\ q \in Position /\ q.entryFundingRate = rate
          /\ q.size = p.size - d
      BY <1>2, <1>3, <2>2, <2>3, <2>4, <2>5 DEF Position
    <2> QED
      BY <1>3, <1>5, <2>4, <2>6 DEF p, q, rate
  <1> QED
    BY <1>4, <1>5

(* Closing all or part of a position preserves the invariant: whatever     *)
(* leaves the pool is either paid out or becomes a fee reserve.            *)
LEMMA DecreaseIInv ==
  ASSUME IInv, NEW k \in Keys, NEW amm \in BOOLEAN,
         NEW cd \in Nat, NEW d \in Nat, Decrease(amm, k, cd, d)
  PROVE  IInv'
  <1> DEFINE c == k.collateralToken
             p == positions[k]
             r == Reduction(amm, k, cd, d)
             next == Decreased(amm, k, cd, d)
             feeTokens == UsdToTokenMin(amm, c, r.fee)
             share == ReserveShare(p, d)
             pool == poolAmounts[c] + r.poolIn - r.poolOut
             reserved == reservedAmounts[c] - share
             guaranteed == guaranteedUsd[c] + (p.collateral - r.collateral) - d
             shortSize == ReducedShortSize(k.indexToken, d)
  <1> USE DEF IInv, debtVars, configVars, envVars
  <1>1. /\ Open(k) /\ d <= p.size /\ p.averagePrice > 0
        /\ r.left >= 0 /\ r.collateral >= 0
        /\ reserved >= 0
        /\ k.isLong \/ r.profit > 0 => reserved <= pool
        /\ next # NoPosition => ValidPosition(k, next, CumulativeRate(c))
        /\ k.isLong => guaranteed >= 0
        /\ r.usdOut > 0 => r.paid <= balance[c]
        /\ AccrueFunding({c})
        /\ positions' = [positions EXCEPT ![k] = next]
        /\ feeReserves' = [feeReserves EXCEPT ![c] = @ + feeTokens]
        /\ reservedAmounts' = [reservedAmounts EXCEPT ![c] = reserved]
        /\ poolAmounts' = [poolAmounts EXCEPT ![c] = pool]
        /\ IF k.isLong
           THEN /\ guaranteedUsd' = [guaranteedUsd EXCEPT ![c] = guaranteed]
                /\ UNCHANGED globalShortSizes
           ELSE /\ globalShortSizes' = [globalShortSizes EXCEPT
                                            ![k.indexToken] = shortSize]
                /\ UNCHANGED guaranteedUsd
        /\ IF r.usdOut > 0
           THEN /\ balance' = [balance EXCEPT ![c] = @ - r.paid]
                /\ tokenBalances' = [tokenBalances EXCEPT ![c] = balance'[c]]
           ELSE UNCHANGED <<balance, tokenBalances>>
        /\ UNCHANGED <<globalShortAveragePrices, debtVars, configVars, envVars>>
    BY DEF Decrease, Open, WithinPool
  <1>2. /\ c \in Token /\ c \in Asset /\ c # USDG /\ k.indexToken \in Volatile
        /\ ~k.isLong => c \notin Volatile
    BY KeyFields, UnitType
  <1>3. /\ r.fee \in Nat /\ r.profit \in Nat /\ r.collateral \in Int
        /\ r.usdOut \in Nat /\ r.paid \in Nat
        /\ r.poolIn \in Nat /\ r.poolOut \in Nat
        /\ r.usdOut = 0 => r.paid = 0
        /\ k.isLong => r.poolIn = 0 /\ r.paid + feeTokens <= r.poolOut
        /\ ~k.isLong /\ ~(r.profit > 0) => r.poolOut = 0
    BY <1>1, ReductionType
  <1>4. feeTokens \in Nat
    BY <1>2, <1>3, ConversionType
  <1>5. share \in Nat /\ p.collateral \in Nat
    BY <1>1, PositionType, ReserveShareType DEF Open
  <1>6. positions' \in [Keys -> Position] /\ EntryRateBehind' /\ PositionShape'
    <2>1. /\ next \in Position /\ next.entryFundingRate <= CumulativeRate(c)
          /\ d # p.size => next.size > 0
          /\ d = p.size => next = NoPosition
      BY <1>1, DecreasedType
    <2>2. CASE d = p.size
      <3>1. next = NoPosition /\ ~(next.size > 0)
        BY <2>1, <2>2 DEF NoPosition
      <3> HIDE DEF next
      <3> QED
        BY <1>1, <2>1, <3>1, ChangedPosition
    <2>3. CASE d # p.size
      <3>1. next.size > 0 /\ next # NoPosition
        BY <2>1, <2>3 DEF NoPosition
      <3>2. next.collateral <= next.size /\ next.averagePrice > 0
        BY <1>1, <2>1, <3>1 DEF ValidPosition, Position
      <3> QED
        BY <1>1, <2>1, <3>1, <3>2, ChangedPosition
    <2> QED
      BY <2>2, <2>3
  <1>7. shortSize \in Nat
    <2>1. globalShortSizes[k.indexToken] \in Nat
      BY <1>2 DEF TypeOK
    <2> QED
      BY <2>1 DEF ReducedShortSize
  <1> HIDE DEF p, r, next, feeTokens, share, shortSize, c
  <1>8. /\ poolAmounts[c] \in Nat /\ reservedAmounts[c] \in Nat
        /\ guaranteedUsd[c] \in Nat /\ balance[c] \in Nat
        /\ tokenBalances[c] \in Nat /\ feeReserves[c] \in Nat
    BY <1>2 DEF TypeOK
  <1>9. reservedAmounts[c] <= poolAmounts[c]
    BY <1>2 DEF ReservedWithinPool
  <1>10. reserved \in Nat /\ reserved <= reservedAmounts[c]
    BY <1>1, <1>5, <1>8
  <1>11. pool \in Nat /\ reserved <= pool
    <2>1. CASE k.isLong \/ r.profit > 0
      BY <1>1, <1>3, <1>8, <1>10, <2>1
    <2>2. CASE ~k.isLong /\ ~(r.profit > 0)
      BY <1>3, <1>8, <1>9, <1>10, <2>2
    <2> QED
      BY <2>1, <2>2
  <1>12. k.isLong => guaranteed \in Nat
    BY <1>1, <1>3, <1>5, <1>8
  <1>13. k.isLong => /\ pool + feeTokens + r.paid <= poolAmounts[c]
    BY <1>3, <1>4, <1>8
  <1> HIDE DEF pool, reserved, guaranteed
  <1>14. /\ balance'[c] = balance[c] - r.paid /\ balance'[c] \in Nat
         /\ \A a \in Asset \ {c} : /\ balance'[a] = balance[a]
                                   /\ tokenBalances'[a] = tokenBalances[a]
         /\ balance' \in [Asset -> Nat] /\ tokenBalances' \in [Asset -> Nat]
    <2>1. CASE r.usdOut > 0
      <3>1. balance[c] - r.paid \in Nat
        BY <1>1, <1>3, <1>8, <2>1
      <3>2. balance' = [balance EXCEPT ![c] = @ - r.paid]
        BY <1>1, <2>1
      <3>3. balance' \in [Asset -> Nat] /\ balance'[c] = balance[c] - r.paid
        BY <1>2, <3>1, <3>2 DEF TypeOK
      <3>4. tokenBalances' = [tokenBalances EXCEPT ![c] = balance'[c]]
        BY <1>1, <2>1
      <3> QED
        BY <1>2, <3>1, <3>2, <3>3, <3>4 DEF TypeOK
    <2>2. CASE ~(r.usdOut > 0)
      <3>1. r.paid = 0 /\ balance' = balance /\ tokenBalances' = tokenBalances
        BY <1>1, <1>3, <2>2
      <3> QED
        BY <1>8, <3>1 DEF TypeOK
    <2> QED
      BY <2>1, <2>2
  <1>15. \/ tokenBalances'[c] = balance'[c]
         \/ tokenBalances'[c] = tokenBalances[c] /\ r.paid = 0
    BY <1>1, <1>2, <1>3 DEF TypeOK
  <1>16. TypeOK'
    <2>1. /\ poolAmounts' \in [Token -> Nat] /\ feeReserves' \in [Token -> Nat]
          /\ reservedAmounts' \in [Token -> Nat]
      BY <1>1, <1>2, <1>4, <1>10, <1>11 DEF TypeOK
    <2>2. guaranteedUsd' \in [Token -> Nat]
      BY <1>1, <1>12 DEF TypeOK
    <2>3. globalShortSizes' \in [Volatile -> Nat]
      BY <1>1, <1>7 DEF TypeOK
    <2>4. /\ cumulativeFundingRates' \in [Token -> Nat]
          /\ lastFundingTimes' \in [Token -> Nat]
      BY <1>1, <1>2, AccrueFundingType
    <2> QED
      BY <1>1, <1>6, <1>14, <2>1, <2>2, <2>3, <2>4 DEF TypeOK
  <1>17. BalancesRecorded'
    <2>1. \A a \in Asset : tokenBalances'[a] <= balance'[a]
      <3>1. tokenBalances'[c] <= balance'[c]
        BY <1>2, <1>8, <1>14, <1>15 DEF BalancesRecorded
      <3> QED
        BY <1>14, <3>1 DEF BalancesRecorded
    <2>2. balance'[USDG] = balance[USDG] /\ usdgSupply' = usdgSupply
      BY <1>1, <1>2, <1>14, UnitType
    <2> QED
      BY <2>1, <2>2 DEF BalancesRecorded
  <1>18. ReservedWithinPool'
    BY <1>1, <1>10, <1>11 DEF ReservedWithinPool, TypeOK
  <1>19. VolatileSolvent'
    <2> SUFFICES ASSUME NEW t \in Volatile
                 PROVE  poolAmounts'[t] + feeReserves'[t] <= tokenBalances'[t]
      BY DEF VolatileSolvent
    <2>1. t \in Token /\ t \in Asset
      BY UnitType
    <2>2. poolAmounts[t] + feeReserves[t] <= tokenBalances[t]
      BY DEF VolatileSolvent
    <2>3. CASE t # c
      BY <1>1, <1>14, <2>1, <2>2, <2>3 DEF TypeOK
    <2>4. CASE t = c
      <3>1. k.isLong
        BY <1>2, <2>4
      <3>2. tokenBalances[c] <= balance[c]
        BY <1>2 DEF BalancesRecorded
      <3>3. /\ poolAmounts'[c] = pool
            /\ feeReserves'[c] = feeReserves[c] + feeTokens
        BY <1>1, <1>2 DEF TypeOK
      <3>4. tokenBalances'[c] >= tokenBalances[c] - r.paid
        BY <1>3, <1>8, <1>14, <1>15, <3>2
      <3>5. tokenBalances'[c] \in Nat
        BY <1>2, <1>14
      <3> QED
        BY <1>3, <1>4, <1>8, <1>11, <1>13, <2>2, <2>4, <3>1, <3>3, <3>4, <3>5
    <2> QED
      BY <2>3, <2>4
  <1> QED
    BY <1>6, <1>16, <1>17, <1>18, <1>19

(* Liquidating an insolvent position preserves the invariant.              *)
LEMMA LiquidateIInv ==
  ASSUME IInv, NEW k \in Keys, Open(k), positions[k].averagePrice > 0,
         NEW marginFees \in Nat, Liquidate(k, marginFees)
  PROVE  IInv'
  <1> DEFINE c == k.collateralToken
             p == positions[k]
             liquidatorFee == UsdToTokenMin(FALSE, c, fees.liquidationFeeUsd)
             feeTokens == UsdToTokenMin(FALSE, c, marginFees)
             charged == LiquidationPool(k, marginFees)
             reserved == reservedAmounts[c] - p.reserveAmount
             guaranteed == guaranteedUsd[c] - (p.size - p.collateral)
             shortSize == ReducedShortSize(k.indexToken, p.size)
             pool == charged - liquidatorFee
  <1> USE DEF IInv, debtVars, configVars, envVars
  <1>1. /\ reserved >= 0
        /\ k.isLong => guaranteed >= 0
        /\ reserved <= pool
        /\ liquidatorFee <= balance[c]
        /\ positions' = [positions EXCEPT ![k] = NoPosition]
        /\ feeReserves' = [feeReserves EXCEPT ![c] = @ + feeTokens]
        /\ reservedAmounts' = [reservedAmounts EXCEPT ![c] = reserved]
        /\ poolAmounts' = [poolAmounts EXCEPT ![c] = pool]
        /\ IF k.isLong
           THEN /\ guaranteedUsd' = [guaranteedUsd EXCEPT ![c] = guaranteed]
                /\ UNCHANGED globalShortSizes
           ELSE /\ globalShortSizes' = [globalShortSizes EXCEPT
                                            ![k.indexToken] = shortSize]
                /\ UNCHANGED guaranteedUsd
        /\ balance' = [balance EXCEPT ![c] = @ - liquidatorFee]
        /\ tokenBalances' = [tokenBalances EXCEPT ![c] = balance'[c]]
        /\ AccrueFunding({c})
        /\ UNCHANGED <<globalShortAveragePrices, debtVars, configVars, envVars>>
    BY DEF Liquidate, WithinPool
  <1>2. /\ c \in Token /\ c \in Asset /\ c # USDG /\ k.indexToken \in Volatile
        /\ ~k.isLong => c \notin Volatile
    BY KeyFields, UnitType
  <1>3. liquidatorFee \in Nat /\ feeTokens \in Nat
    BY <1>2, FeeTypes, ConversionType
  <1>4. p.size \in Nat /\ p.collateral \in Nat /\ p.reserveAmount \in Nat
    BY PositionType
  <1>5. /\ poolAmounts[c] \in Nat /\ reservedAmounts[c] \in Nat
        /\ guaranteedUsd[c] \in Nat /\ balance[c] \in Nat
        /\ tokenBalances[c] \in Nat /\ feeReserves[c] \in Nat
        /\ globalShortSizes[k.indexToken] \in Nat
    BY <1>2 DEF TypeOK
  <1>6. charged \in Int /\ (k.isLong => charged = poolAmounts[c] - feeTokens)
    <2>1. CASE k.isLong
      <3>1. charged = poolAmounts[c] - feeTokens
        BY <2>1 DEF LiquidationPool
      <3> HIDE DEF charged, feeTokens
      <3> QED
        BY <1>3, <1>5, <3>1
    <2>2. CASE ~k.isLong /\ marginFees < p.collateral
      <3> DEFINE kept == UsdToTokenMin(FALSE, c, p.collateral - marginFees)
      <3>1. p.collateral - marginFees \in Nat
        BY <1>4, <2>2
      <3>2. kept \in Nat
        BY <1>2, <3>1, ConversionType
      <3>3. charged = poolAmounts[c] + kept
        BY <2>2 DEF LiquidationPool
      <3> HIDE DEF charged, kept, feeTokens
      <3> QED
        BY <1>5, <2>2, <3>2, <3>3
    <2>3. CASE ~k.isLong /\ ~(marginFees < p.collateral)
      <3>1. charged = poolAmounts[c]
        BY <2>3 DEF LiquidationPool
      <3> HIDE DEF charged, feeTokens
      <3> QED
        BY <1>5, <2>3, <3>1
    <2> QED
      BY <2>1, <2>2, <2>3
  <1>7. shortSize \in Nat
    BY <1>4, <1>5 DEF ReducedShortSize
  <1>8. positions' \in [Keys -> Position] /\ EntryRateBehind' /\ PositionShape'
    <2>1. /\ NoPosition \in Position /\ ~(NoPosition.size > 0)
          /\ NoPosition.entryFundingRate = 0
      BY DEF NoPosition, Position
    <2>2. CumulativeRate(c) \in Nat
      BY <1>2, FundingType
    <2>3. NoPosition.entryFundingRate <= CumulativeRate(c)
      BY <2>1, <2>2
    <2> QED
      BY <1>1, <2>1, <2>3, ChangedPosition
  <1> HIDE DEF p, liquidatorFee, feeTokens, charged, shortSize, c
  <1>9. reserved \in Nat /\ pool \in Nat /\ (k.isLong => guaranteed \in Nat)
    BY <1>1, <1>3, <1>4, <1>5, <1>6
  <1>10. balance[c] - liquidatorFee \in Nat
    BY <1>1, <1>3, <1>5
  <1>11. k.isLong => pool + feeTokens = poolAmounts[c] - liquidatorFee
    BY <1>3, <1>5, <1>6
  <1> HIDE DEF pool, reserved, guaranteed
  <1>12. /\ balance' \in [Asset -> Nat] /\ tokenBalances' \in [Asset -> Nat]
         /\ balance'[c] = balance[c] - liquidatorFee
         /\ tokenBalances'[c] = balance'[c]
         /\ \A a \in Asset \ {c} : /\ balance'[a] = balance[a]
                                   /\ tokenBalances'[a] = tokenBalances[a]
    BY <1>1, <1>2, <1>10 DEF TypeOK
  <1>13. TypeOK'
    <2>1. /\ poolAmounts' \in [Token -> Nat] /\ feeReserves' \in [Token -> Nat]
          /\ reservedAmounts' \in [Token -> Nat]
      BY <1>1, <1>2, <1>3, <1>9 DEF TypeOK
    <2>2. /\ guaranteedUsd' \in [Token -> Nat]
          /\ globalShortSizes' \in [Volatile -> Nat]
      BY <1>1, <1>7, <1>9 DEF TypeOK
    <2>3. /\ cumulativeFundingRates' \in [Token -> Nat]
          /\ lastFundingTimes' \in [Token -> Nat]
      BY <1>1, <1>2, AccrueFundingType
    <2> QED
      BY <1>1, <1>8, <1>12, <2>1, <2>2, <2>3 DEF TypeOK
  <1>14. BalancesRecorded'
    <2>1. \A a \in Asset : tokenBalances'[a] <= balance'[a]
      <3>1. tokenBalances'[c] <= balance'[c]
        BY <1>2, <1>12
      <3> QED
        BY <1>12, <3>1 DEF BalancesRecorded
    <2>2. balance'[USDG] = balance[USDG] /\ usdgSupply' = usdgSupply
      BY <1>1, <1>2, <1>12, UnitType
    <2> QED
      BY <2>1, <2>2 DEF BalancesRecorded
  <1>15. ReservedWithinPool'
    BY <1>1, <1>9 DEF ReservedWithinPool, TypeOK
  <1>16. VolatileSolvent'
    <2> SUFFICES ASSUME NEW t \in Volatile
                 PROVE  poolAmounts'[t] + feeReserves'[t] <= tokenBalances'[t]
      BY DEF VolatileSolvent
    <2>1. t \in Token /\ t \in Asset
      BY UnitType
    <2>2. poolAmounts[t] + feeReserves[t] <= tokenBalances[t]
      BY DEF VolatileSolvent
    <2>3. CASE t # c
      BY <1>1, <1>12, <2>1, <2>2, <2>3 DEF TypeOK
    <2>4. CASE t = c
      <3>1. k.isLong
        BY <1>2, <2>4
      <3>2. tokenBalances[c] <= balance[c]
        BY <1>2 DEF BalancesRecorded
      <3>3. /\ poolAmounts'[c] = pool
            /\ feeReserves'[c] = feeReserves[c] + feeTokens
        BY <1>1, <1>2 DEF TypeOK
      <3> QED
        BY <1>3, <1>5, <1>9, <1>11, <1>12, <2>2, <2>4, <3>1, <3>2, <3>3
    <2> QED
      BY <2>3, <2>4
  <1> QED
    BY <1>8, <1>13, <1>14, <1>15, <1>16

(* Both outcomes of liquidatePosition preserve the invariant.              *)
LEMMA LiquidatePositionIInv ==
  ASSUME IInv, NEW k \in Keys, LiquidatePosition(k)
  PROVE  IInv'
  <1>1. CASE LiquidateInsolvent(k)
    <2> DEFINE rate == CumulativeRate(k.collateralToken)
    <2>1. TypeOK /\ Open(k) /\ positions[k].averagePrice > 0
      BY <1>1 DEF IInv, LiquidateInsolvent
    <2>2. /\ rate \in Nat
          /\ cumulativeFundingRates[k.collateralToken] \in Nat
          /\ cumulativeFundingRates[k.collateralToken] <= rate
      BY <2>1, KeyFields, FundingType DEF TypeOK
    <2>3. positions[k].entryFundingRate <= rate
      <3>1. positions[k].entryFundingRate
                <= cumulativeFundingRates[k.collateralToken]
        BY DEF IInv, EntryRateBehind
      <3> HIDE DEF rate
      <3> QED
        BY <2>1, <2>2, <3>1, PositionType
    <2>4. LiquidationOf(k).fees \in Nat
      BY <2>1, <2>2, <2>3, PositionType, LiquidationCheckType
      DEF LiquidationOf
    <2> QED
      BY <1>1, <2>1, <2>4, LiquidateIInv DEF LiquidateInsolvent
  <1>2. CASE LiquidateOverleveraged(k)
    <2>1. positions[k].size \in Nat /\ Decrease(FALSE, k, 0, positions[k].size)
      BY <1>2, PositionType DEF IInv, LiquidateOverleveraged
    <2> QED
      BY <2>1, DecreaseIInv
  <1> QED
    BY <1>1, <1>2 DEF LiquidatePosition

(* Withdrawing fees, and every setter, preserves the invariant.            *)
LEMMA GovernanceIInv == IInv /\ Governance => IInv'
  <1> SUFFICES ASSUME IInv, Governance PROVE IInv'
    OBVIOUS
  <1> USE DEF IInv, debtVars, fundingVars, positionVars, configVars,
              envVars, ledgerVars, CountEvent
  <1>1. ASSUME NEW t \in Token, WithdrawFees(t) PROVE IInv'
    <2> DEFINE fee == feeReserves[t]
    <2>1. /\ fee <= balance[t]
          /\ balance' = [balance EXCEPT ![t] = @ - fee]
          /\ tokenBalances' = [tokenBalances EXCEPT ![t] = balance'[t]]
          /\ feeReserves' = [feeReserves EXCEPT ![t] = 0]
          /\ UNCHANGED <<poolAmounts, debtVars, fundingVars, positionVars,
                         configVars, envVars>>
      BY <1>1 DEF WithdrawFees
    <2>2. /\ fee \in Nat /\ balance[t] \in Nat /\ t \in Asset /\ t # USDG
          /\ poolAmounts[t] \in Nat /\ tokenBalances[t] \in Nat
      BY UnitType DEF TypeOK
    <2> HIDE DEF fee
    <2>3. TypeOK'
      BY <2>1, <2>2 DEF TypeOK
    <2>4. BalancesRecorded'
      BY <2>1, <2>2, UnitType DEF BalancesRecorded, TypeOK
    <2>5. EntryRateBehind' /\ PositionShape' /\ ReservedWithinPool'
      BY <2>1 DEF EntryRateBehind, PositionShape, Open, ReservedWithinPool
    <2>6. VolatileSolvent'
      <3>1. t \in Volatile => poolAmounts[t] <= tokenBalances[t] - fee
        BY <2>2 DEF VolatileSolvent, fee
      <3>2. tokenBalances[t] <= balance[t]
        BY <2>2 DEF BalancesRecorded
      <3> QED
        BY <2>1, <2>2, <3>1, <3>2, UnitType DEF VolatileSolvent, TypeOK
    <2> QED
      BY <2>3, <2>4, <2>5, <2>6
  <1>2. ASSUME NEW t \in Token, NEW n \in UsdgSettings, SetUsdgAmount(t, n)
        PROVE  IInv'
    <2>1. n \in Nat
      BY InputAssumption
    <2>2. TypeOK'
      BY <1>2, <2>1 DEF TypeOK, SetUsdgAmount
    <2> QED
      BY <1>2, <2>2 DEF SetUsdgAmount, BalancesRecorded, EntryRateBehind,
             PositionShape, Open, ReservedWithinPool, VolatileSolvent
  <1>3. ASSUME NEW setting \in FeeSettings, SetFees(setting) PROVE IInv'
    <2>1. setting \in Fees
      BY ParameterAssumption
    <2>2. TypeOK'
      BY <1>3, <2>1 DEF TypeOK, SetFees
    <2> QED
      BY <1>3, <2>2 DEF SetFees, BalancesRecorded, EntryRateBehind,
             PositionShape, Open, ReservedWithinPool, VolatileSolvent
  <1>4. ASSUME NEW b \in Switches,
               SetIsSwapEnabled(b) \/ SetIsLeverageEnabled(b)
        PROVE  IInv'
    <2>1. b \in BOOLEAN
      BY InputAssumption
    <2>2. TypeOK'
      BY <1>4, <2>1 DEF TypeOK, SetIsSwapEnabled, SetIsLeverageEnabled
    <2> QED
      BY <1>4, <2>2 DEF SetIsSwapEnabled, SetIsLeverageEnabled,
             BalancesRecorded, EntryRateBehind, PositionShape, Open,
             ReservedWithinPool, VolatileSolvent
  <1>5. ASSUME NEW u \in Users, NEW r \in Callers \ {Router, u},
               AddRouter(u, r) \/ RemoveRouter(u, r)
        PROVE  IInv'
    <2>1. PICK routers \in SUBSET Callers : SetApproval(u, routers)
      <3>1. approvedRouters[u] \in SUBSET Callers
        BY DEF TypeOK
      <3> QED
        BY <1>5, <3>1 DEF AddRouter, RemoveRouter
    <2>2. TypeOK'
      BY <2>1 DEF TypeOK, SetApproval
    <2> QED
      BY <2>1, <2>2 DEF SetApproval, BalancesRecorded, EntryRateBehind,
             PositionShape, Open, ReservedWithinPool, VolatileSolvent
  <1> QED
    BY <1>1, <1>2, <1>3, <1>4, <1>5 DEF Governance

(* Every action of the Vault preserves the invariant.                      *)
LEMMA NextIInv == IInv /\ [Next]_vars => IInv'
  <1> SUFFICES ASSUME IInv, [Next]_vars PROVE IInv'
    OBVIOUS
  <1>1. CASE Environment
    BY <1>1, EnvironmentIInv
  <1>2. CASE Pool
    BY <1>2, UpdateFundingIInv, DirectPoolDepositIInv, BuyUSDGIInv,
       SellUSDGIInv, SwapIInv DEF Pool
  <1>3. CASE Leverage
    <2>1. PICK k \in Keys :
              \/ \E s \in Callers, d \in SizeDeltas :
                    \/ IncreasePosition(s, k, d)
                    \/ \E cd \in CollateralDeltas :
                          DecreasePosition(s, k, cd, d)
              \/ LiquidatePosition(k)
      BY <1>3 DEF Leverage
    <2>2. CASE LiquidatePosition(k)
      BY <2>2, LiquidatePositionIInv
    <2>3. ASSUME NEW s \in Callers, NEW d \in SizeDeltas,
                 IncreasePosition(s, k, d)
          PROVE  IInv'
      BY <2>3, IncreasePositionIInv, InputAssumption
    <2>4. ASSUME NEW s \in Callers, NEW d \in SizeDeltas,
                 NEW cd \in CollateralDeltas, DecreasePosition(s, k, cd, d)
          PROVE  IInv'
      <3>1. d \in Nat /\ cd \in Nat
        BY InputAssumption
      <3>2. Decrease(TRUE, k, cd, d)
        BY <2>4 DEF DecreasePosition
      <3> QED
        BY <3>1, <3>2, DecreaseIInv
    <2> QED
      BY <2>1, <2>2, <2>3, <2>4
  <1>4. CASE Governance
    BY <1>4, GovernanceIInv
  <1>5. CASE UNCHANGED vars
    BY <1>5 DEF IInv, vars, ledgerVars, debtVars, fundingVars, positionVars,
       configVars, envVars, TypeOK, BalancesRecorded, EntryRateBehind,
       PositionShape, Open, ReservedWithinPool, VolatileSolvent
  <1> QED
    BY <1>1, <1>2, <1>3, <1>4, <1>5 DEF Next

-----------------------------------------------------------------------------
(***************************************************************************)
(* The totals the Vault keeps by differences: reserves, guaranteed USD and *)
(* global short sizes are the sums over the positions at every moment.     *)
(***************************************************************************)

Books == /\ ReservesMatchPositions /\ GuaranteedMatchesLongs
         /\ ShortSizesMatchPositions

ReserveOf == [k \in Keys |-> positions[k].reserveAmount]
GuaranteedOf == [k \in Keys |-> positions[k].size - positions[k].collateral]
SizeOf == [k \in Keys |-> positions[k].size]

(* There are finitely many position keys, so their sums exist.             *)
LEMMA KeysFinite ==
  /\ IsFiniteSet(Keys)
  /\ \A t : /\ KeysOn(t) \subseteq Keys /\ IsFiniteSet(KeysOn(t))
            /\ ShortsOf(t) \subseteq Keys /\ IsFiniteSet(ShortsOf(t))
  <1> DEFINE Tuple == (Users \X Token) \X (Volatile \X BOOLEAN)
             Key == [account: Users, collateralToken: Token,
                     indexToken: Volatile, isLong: BOOLEAN]
             key == [x \in Tuple |-> [account |-> x[1][1],
                         collateralToken |-> x[1][2],
                         indexToken |-> x[2][1], isLong |-> x[2][2]]]
  <1>1. IsFiniteSet(Users) /\ IsFiniteSet(Token) /\ IsFiniteSet(Volatile)
    BY TokenAssumption, FS_Subset DEF Token
  <1>2. IsFiniteSet(BOOLEAN)
    <2>1. IsFiniteSet({TRUE} \cup {FALSE})
      BY FS_Singleton, FS_AddElement
    <2>2. BOOLEAN = {TRUE} \cup {FALSE}
      OBVIOUS
    <2> QED BY <2>1, <2>2
  <1>3. IsFiniteSet(Tuple)
    <2>1. IsFiniteSet(Users \X Token) /\ IsFiniteSet(Volatile \X BOOLEAN)
      BY <1>1, <1>2, FS_Product
    <2> QED BY <2>1, FS_Product
  <1>4. key \in Surjection(Tuple, Key)
    <2>1. ASSUME NEW k \in Key PROVE \E x \in Tuple : key[x] = k
      <3> DEFINE x == <<<<k.account, k.collateralToken>>,
                        <<k.indexToken, k.isLong>>>>
      <3>1. x \in Tuple
        OBVIOUS
      <3>2. key[x] = k
        BY <3>1
      <3> QED BY <3>1, <3>2
    <2>2. key \in [Tuple -> Key]
      OBVIOUS
    <2> HIDE DEF key, Tuple, Key
    <2> QED BY <2>1, <2>2 DEF Surjection
  <1>5. IsFiniteSet(Key)
    BY <1>3, <1>4, FS_Surjection
  <1>6. Keys \subseteq Key
    BY DEF Keys
  <1> HIDE DEF Key
  <1>7. IsFiniteSet(Keys)
    BY <1>5, <1>6, FS_Subset
  <1> QED BY <1>7, FS_Subset DEF KeysOn, ShortsOf

(* Steps that leave the positions and their totals alone.                  *)
LEMMA BooksUntouched == ASSUME Books, UNCHANGED positionVars PROVE Books'
  BY DEF Books, positionVars, ReservesMatchPositions, GuaranteedMatchesLongs,
         ShortSizesMatchPositions

(* One sum over positions when only the position k changes.                *)
LEMMA SumFollows ==
  ASSUME NEW S \in SUBSET Keys, NEW f, NEW g, NEW k \in Keys,
         \A j \in Keys : f[j] \in Int /\ g[j] \in Int,
         \A j \in Keys \ {k} : g[j] = f[j]
  PROVE  SumFunctionOnSet(g, S) = SumFunctionOnSet(f, S)
             + (IF k \in S THEN g[k] - f[k] ELSE 0)
  <1>1. IsFiniteSet(S)
    BY KeysFinite, FS_Subset
  <1>2. CASE k \in S
    <2>1. SumFunctionOnSet(g, S) = SumFunctionOnSet(f, S) + (g[k] - f[k])
      BY <1>1, <1>2, SumChange
    <2> QED BY <1>2, <2>1
  <1>3. CASE k \notin S
    <2>1. SumFunctionOnSet(g, S) = SumFunctionOnSet(f, S)
      BY <1>1, <1>3, SumEqual
    <2>2. SumFunctionOnSet(f, S) \in Int
      BY <1>1, SumType
    <2> QED BY <1>3, <2>1, <2>2
  <1> QED BY <1>2, <1>3

(* A change of one position changes every total by as much.                *)
LEMMA BooksFollow ==
  ASSUME TypeOK, Books, NEW k \in Keys, NEW p \in Position,
         positions' = [positions EXCEPT ![k] = p],
         NEW c, c = k.collateralToken, NEW i, i = k.indexToken,
         reservedAmounts' = [reservedAmounts EXCEPT
             ![c] = reservedAmounts[c]
                        + (p.reserveAmount - positions[k].reserveAmount)],
         IF k.isLong
         THEN /\ guaranteedUsd' = [guaranteedUsd EXCEPT
                     ![c] = guaranteedUsd[c]
                         + ((p.size - p.collateral)
                            - (positions[k].size - positions[k].collateral))]
              /\ globalShortSizes' = globalShortSizes
         ELSE /\ guaranteedUsd' = guaranteedUsd
              /\ globalShortSizes' = [globalShortSizes EXCEPT
                     ![i] = globalShortSizes[i] + (p.size - positions[k].size)]
  PROVE  Books'
  <1>1. /\ positions \in [Keys -> Position] /\ positions' \in [Keys -> Position]
        /\ positions'[k] = p
        /\ \A j \in Keys \ {k} : positions'[j] = positions[j]
    BY DEF TypeOK
  <1>2. \A j \in Keys :
           /\ ReserveOf[j] \in Int /\ ReserveOf'[j] \in Int
           /\ GuaranteedOf[j] \in Int /\ GuaranteedOf'[j] \in Int
           /\ SizeOf[j] \in Int /\ SizeOf'[j] \in Int
    BY <1>1 DEF Position, ReserveOf, GuaranteedOf, SizeOf
  <1>3. \A j \in Keys \ {k} : /\ ReserveOf'[j] = ReserveOf[j]
                              /\ GuaranteedOf'[j] = GuaranteedOf[j]
                              /\ SizeOf'[j] = SizeOf[j]
    BY <1>1 DEF ReserveOf, GuaranteedOf, SizeOf
  <1>4. /\ ReserveOf'[k] - ReserveOf[k]
               = p.reserveAmount - positions[k].reserveAmount
        /\ GuaranteedOf'[k] - GuaranteedOf[k] = (p.size - p.collateral)
               - (positions[k].size - positions[k].collateral)
        /\ SizeOf'[k] - SizeOf[k] = p.size - positions[k].size
    BY <1>1 DEF ReserveOf, GuaranteedOf, SizeOf
  <1>5. c \in Token /\ i \in Volatile /\ (k.isLong <=> c \in Volatile)
    BY KeyFields, UnitType
  <1>6. ASSUME NEW t \in Token
        PROVE  reservedAmounts'[t] = SumFunctionOnSet(ReserveOf', KeysOn(t))
    <2>1. SumFunctionOnSet(ReserveOf', KeysOn(t))
              = SumFunctionOnSet(ReserveOf, KeysOn(t))
                + (IF k \in KeysOn(t) THEN ReserveOf'[k] - ReserveOf[k] ELSE 0)
      BY <1>2, <1>3, KeysFinite, SumFollows
    <2>2. reservedAmounts[t] = SumFunctionOnSet(ReserveOf, KeysOn(t))
      BY DEF Books, ReservesMatchPositions, ReserveOf
    <2>3. reservedAmounts \in [Token -> Nat]
      BY DEF TypeOK
    <2>4. k \in KeysOn(t) <=> t = c
      BY DEF KeysOn
    <2>5. CASE t = c
      BY <1>4, <1>5, <2>1, <2>2, <2>3, <2>4, <2>5
    <2>6. CASE t # c
      BY <1>5, <2>1, <2>2, <2>3, <2>4, <2>6
    <2> QED BY <2>5, <2>6
  <1>7. ASSUME NEW t \in Volatile
        PROVE  guaranteedUsd'[t] = SumFunctionOnSet(GuaranteedOf', KeysOn(t))
    <2>1. SumFunctionOnSet(GuaranteedOf', KeysOn(t))
              = SumFunctionOnSet(GuaranteedOf, KeysOn(t))
                + (IF k \in KeysOn(t) THEN GuaranteedOf'[k] - GuaranteedOf[k]
                                      ELSE 0)
      BY <1>2, <1>3, KeysFinite, SumFollows
    <2>2. guaranteedUsd[t] = SumFunctionOnSet(GuaranteedOf, KeysOn(t))
      BY DEF Books, GuaranteedMatchesLongs, GuaranteedOf
    <2>3. guaranteedUsd \in [Token -> Nat] /\ t \in Token
      BY UnitType DEF TypeOK
    <2>4. k \in KeysOn(t) <=> t = c
      BY DEF KeysOn
    <2>5. CASE t = c
      BY <1>4, <1>5, <2>1, <2>2, <2>3, <2>4, <2>5
    <2>6. CASE t # c
      BY <1>5, <2>1, <2>2, <2>3, <2>4, <2>6
    <2> QED BY <2>5, <2>6
  <1>8. ASSUME NEW t \in Volatile
        PROVE  globalShortSizes'[t] = SumFunctionOnSet(SizeOf', ShortsOf(t))
    <2>1. SumFunctionOnSet(SizeOf', ShortsOf(t))
              = SumFunctionOnSet(SizeOf, ShortsOf(t))
                + (IF k \in ShortsOf(t) THEN SizeOf'[k] - SizeOf[k] ELSE 0)
      BY <1>2, <1>3, KeysFinite, SumFollows
    <2>2. globalShortSizes[t] = SumFunctionOnSet(SizeOf, ShortsOf(t))
      BY DEF Books, ShortSizesMatchPositions, SizeOf
    <2>3. globalShortSizes \in [Volatile -> Nat]
      BY DEF TypeOK
    <2>4. k \in ShortsOf(t) <=> ~k.isLong /\ t = i
      BY DEF ShortsOf
    <2>5. CASE ~k.isLong /\ t = i
      BY <1>4, <1>5, <2>1, <2>2, <2>3, <2>4, <2>5
    <2>6. CASE ~(~k.isLong /\ t = i)
      <3>1. globalShortSizes'[t] = globalShortSizes[t]
        BY <1>5, <2>3, <2>6
      <3> QED BY <2>1, <2>2, <2>3, <2>4, <2>6, <3>1
    <2> QED BY <2>5, <2>6
  <1> QED
    BY <1>6, <1>7, <1>8
    DEF Books, ReservesMatchPositions, GuaranteedMatchesLongs,
        ShortSizesMatchPositions, ReserveOf, GuaranteedOf, SizeOf

(* Nothing is open at first.                                               *)
LEMMA InitBooks == Init => Books
  <1> SUFFICES ASSUME Init PROVE Books
    OBVIOUS
  <1>1. \A k \in Keys : ReserveOf[k] = 0 /\ GuaranteedOf[k] = 0 /\ SizeOf[k] = 0
    BY DEF Init, NoPosition, ReserveOf, GuaranteedOf, SizeOf
  <1>2. ASSUME NEW t
        PROVE  /\ SumFunctionOnSet(ReserveOf, KeysOn(t)) = 0
               /\ SumFunctionOnSet(GuaranteedOf, KeysOn(t)) = 0
               /\ SumFunctionOnSet(SizeOf, ShortsOf(t)) = 0
    <2>1. /\ IsFiniteSet(KeysOn(t)) /\ IsFiniteSet(ShortsOf(t))
          /\ KeysOn(t) \subseteq Keys /\ ShortsOf(t) \subseteq Keys
      BY KeysFinite
    <2> QED BY <1>1, <2>1, SumZero
  <1> QED
    BY <1>2, UnitType
    DEF Init, Books, ReservesMatchPositions, GuaranteedMatchesLongs,
        ShortSizesMatchPositions, ReserveOf, GuaranteedOf, SizeOf

(* increasePosition books what it adds to the position.                    *)
LEMMA IncreaseBooks ==
  ASSUME IInv, Books, NEW s, NEW k \in Keys, NEW d \in Nat,
         IncreasePosition(s, k, d)
  PROVE  Books'
  <1> DEFINE c == k.collateralToken
             i == k.indexToken
             old == positions[k]
             p == Increased(k, d)
             fee == MarginFee(k, d)
             reserve == UsdToTokenMax(TRUE, c, d)
             deposit == TokenToUsdMin(TRUE, c, TransferIn(c))
  <1>1. TypeOK /\ EntryRateBehind
    BY DEF IInv
  <1>2. /\ p.collateral >= 0 /\ p.size > 0
        /\ positions' = [positions EXCEPT ![k] = p]
        /\ reservedAmounts' = [reservedAmounts EXCEPT
               ![c] = reservedAmounts[c] + reserve]
        /\ IF k.isLong
           THEN /\ guaranteedUsd' = [guaranteedUsd EXCEPT
                       ![c] = guaranteedUsd[c] + d + fee - deposit]
                /\ globalShortSizes' = globalShortSizes
           ELSE /\ guaranteedUsd' = guaranteedUsd
                /\ globalShortSizes' = [globalShortSizes EXCEPT
                       ![i] = globalShortSizes[i] + d]
    BY DEF IncreasePosition
  <1>3. p \in Position
    BY <1>2, IncreasedType
  <1>4. /\ p.size = old.size + d
        /\ p.collateral = old.collateral + deposit - fee
        /\ p.reserveAmount = old.reserveAmount + reserve
    BY DEF Increased
  <1>5. c \in Token /\ c \in Asset /\ i \in Volatile
    BY KeyFields, UnitType
  <1>6. fee \in Nat /\ reserve \in Nat /\ deposit \in Nat
    BY <1>1, <1>5, TransferInType, MarginFeeType, ConversionType DEF IInv
  <1>7. old.size \in Nat /\ old.collateral \in Nat /\ old.reserveAmount \in Nat
    BY <1>1, PositionType
  <1>8. guaranteedUsd[c] \in Nat
    BY <1>1, <1>5 DEF TypeOK
  <1> HIDE DEF c, i, old, p, fee, reserve, deposit
  <1>9. /\ p.reserveAmount - old.reserveAmount = reserve
        /\ guaranteedUsd[c] + ((p.size - p.collateral)
                               - (old.size - old.collateral))
               = guaranteedUsd[c] + d + fee - deposit
        /\ p.size - old.size = d
    BY <1>4, <1>6, <1>7, <1>8
  <1> QED
    BY <1>1, <1>2, <1>3, <1>9, BooksFollow DEF c, i, old

(* What closes of a position is the same part of its reserve, its size and *)
(* its share in the totals; a whole close leaves nothing.                  *)
LEMMA DecreasedBooks ==
  ASSUME IInv, NEW k \in Keys, NEW amm \in BOOLEAN, NEW cd \in Nat,
         NEW d \in Nat, Decrease(amm, k, cd, d)
  PROVE  /\ Decreased(amm, k, cd, d) \in Position
         /\ Decreased(amm, k, cd, d).size = positions[k].size - d
         /\ Decreased(amm, k, cd, d).collateral
                = Reduction(amm, k, cd, d).collateral
         /\ Decreased(amm, k, cd, d).reserveAmount
                = positions[k].reserveAmount - ReserveShare(positions[k], d)
  <1> DEFINE r == Reduction(amm, k, cd, d)
             p == positions[k]
             q == Decreased(amm, k, cd, d)
  <1>1. /\ Open(k) /\ d <= p.size /\ p.averagePrice > 0
        /\ r.left >= 0 /\ r.collateral >= 0
    BY DEF Decrease
  <1>2. q \in Position
    BY <1>1, DecreasedType
  <1>3. p \in Position /\ p.size \in Nat /\ p.reserveAmount \in Nat /\ p.size > 0
    BY <1>1, PositionType DEF IInv, Open
  <1>4. CASE p.size # d
    <2>1. q = [p EXCEPT !.size = @ - d, !.collateral = r.collateral,
                        !.entryFundingRate = CumulativeRate(k.collateralToken),
                        !.reserveAmount = @ - ReserveShare(p, d)]
      BY <1>4 DEF Decreased
    <2> HIDE DEF r, p, q
    <2>2. /\ q.size = p.size - d /\ q.collateral = r.collateral
          /\ q.reserveAmount = p.reserveAmount - ReserveShare(p, d)
      BY <1>2, <1>3, <2>1 DEF Position
    <2> QED BY <1>2, <2>2 DEF p, q, r
  <1>5. CASE p.size = d
    <2>1. q = NoPosition
      BY <1>5 DEF Decreased
    <2>2. ReserveShare(p, d) = p.reserveAmount
      <3>1. \A a \in Nat, b \in Positive : (a * b) \div b = a
        BY DEF Positive
      <3>2. ReserveShare(p, d) = (p.reserveAmount * d) \div p.size
        BY DEF ReserveShare
      <3> HIDE DEF p
      <3> QED BY <1>3, <1>5, <3>1, <3>2 DEF Positive
    <2>3. r.collateral = 0
      <3>1. r.fee \in Nat
        BY <1>1, ReductionType
      <3>2. r.collateral = 0 - (IF r.usdOut <= r.fee THEN r.fee ELSE 0)
        BY <1>5 DEF Reduction
      <3> HIDE DEF r
      <3> QED BY <1>1, <3>1, <3>2
    <2> QED BY <1>2, <1>3, <1>5, <2>1, <2>2, <2>3 DEF NoPosition
  <1> QED BY <1>4, <1>5

(* The size of a short is part of the global size: lowering it never       *)
(* stops at zero early.                                                    *)
LEMMA ShortWithinTotal ==
  ASSUME TypeOK, Books, NEW k \in Keys, ~k.isLong
  PROVE  positions[k].size <= globalShortSizes[k.indexToken]
  <1>1. k \in ShortsOf(k.indexToken) /\ IsFiniteSet(ShortsOf(k.indexToken))
    BY KeysFinite DEF ShortsOf
  <1>2. \A j \in ShortsOf(k.indexToken) : SizeOf[j] \in Nat
    BY KeysFinite DEF SizeOf, TypeOK, Position
  <1>3. SizeOf[k] <= SumFunctionOnSet(SizeOf, ShortsOf(k.indexToken))
    BY <1>1, <1>2, SumPart
  <1> QED
    BY <1>3, KeyFields DEF Books, ShortSizesMatchPositions, SizeOf

(* _decreasePosition books what it takes off the position.                 *)
LEMMA DecreaseBooks ==
  ASSUME IInv, Books, NEW k \in Keys, NEW amm \in BOOLEAN, NEW cd \in Nat,
         NEW d \in Nat, Decrease(amm, k, cd, d)
  PROVE  Books'
  <1> DEFINE c == k.collateralToken
             i == k.indexToken
             p == positions[k]
             q == Decreased(amm, k, cd, d)
             left == Reduction(amm, k, cd, d).collateral
             share == ReserveShare(p, d)
  <1>1. TypeOK
    BY DEF IInv
  <1>2. /\ Open(k) /\ d <= p.size
        /\ positions' = [positions EXCEPT ![k] = q]
        /\ reservedAmounts' = [reservedAmounts EXCEPT
               ![c] = reservedAmounts[c] - share]
        /\ IF k.isLong
           THEN /\ guaranteedUsd' = [guaranteedUsd EXCEPT
                       ![c] = guaranteedUsd[c] + (p.collateral - left) - d]
                /\ globalShortSizes' = globalShortSizes
           ELSE /\ guaranteedUsd' = guaranteedUsd
                /\ globalShortSizes' = [globalShortSizes EXCEPT
                       ![i] = ReducedShortSize(i, d)]
    BY DEF Decrease
  <1>3. /\ q \in Position /\ q.size = p.size - d /\ q.collateral = left
        /\ q.reserveAmount = p.reserveAmount - share
    BY DecreasedBooks
  <1>4. p.size \in Nat /\ p.collateral \in Nat /\ p.reserveAmount \in Nat
    BY <1>1, PositionType
  <1>5. share \in Nat
    BY <1>1, <1>2, PositionType, ReserveShareType DEF Open
  <1>6. c \in Token /\ i \in Volatile
    BY KeyFields
  <1>7. /\ guaranteedUsd[c] \in Nat /\ reservedAmounts[c] \in Nat
        /\ globalShortSizes[i] \in Nat
    BY <1>1, <1>6 DEF TypeOK
  <1>8. ~k.isLong => ReducedShortSize(i, d) = globalShortSizes[i] - d
    <2>1. ~k.isLong => p.size <= globalShortSizes[i]
      BY <1>1, ShortWithinTotal
    <2> HIDE DEF p
    <2> QED BY <1>2, <1>4, <1>7, <2>1 DEF ReducedShortSize
  <1>9. q.collateral \in Nat
    BY <1>3 DEF Position
  <1> HIDE DEF c, i, p, q, left, share
  <1>10. /\ reservedAmounts[c] + (q.reserveAmount - p.reserveAmount)
                = reservedAmounts[c] - share
         /\ guaranteedUsd[c] + ((q.size - q.collateral)
                                - (p.size - p.collateral))
                = guaranteedUsd[c] + (p.collateral - left) - d
         /\ globalShortSizes[i] + (q.size - p.size) = globalShortSizes[i] - d
    BY <1>3, <1>4, <1>5, <1>7, <1>9
  <1>11. /\ reservedAmounts' = [reservedAmounts EXCEPT
                ![c] = reservedAmounts[c] + (q.reserveAmount - p.reserveAmount)]
         /\ IF k.isLong
            THEN /\ guaranteedUsd' = [guaranteedUsd EXCEPT
                        ![c] = guaranteedUsd[c] + ((q.size - q.collateral)
                                                   - (p.size - p.collateral))]
                 /\ globalShortSizes' = globalShortSizes
            ELSE /\ guaranteedUsd' = guaranteedUsd
                 /\ globalShortSizes' = [globalShortSizes EXCEPT
                        ![i] = globalShortSizes[i] + (q.size - p.size)]
    BY <1>2, <1>8, <1>10
  <1>12. q \in Position /\ positions' = [positions EXCEPT ![k] = q]
    BY <1>2, <1>3
  <1> QED
    BY <1>1, <1>11, <1>12, BooksFollow DEF c, i, p

(* So does the liquidation of an insolvent position.                       *)
LEMMA LiquidateBooks ==
  ASSUME IInv, Books, NEW k \in Keys, NEW marginFees, Liquidate(k, marginFees)
  PROVE  Books'
  <1> DEFINE c == k.collateralToken
             i == k.indexToken
             p == positions[k]
             q == NoPosition
  <1>1. TypeOK
    BY DEF IInv
  <1>2. /\ positions' = [positions EXCEPT ![k] = q]
        /\ reservedAmounts' = [reservedAmounts EXCEPT
               ![c] = reservedAmounts[c] - p.reserveAmount]
        /\ IF k.isLong
           THEN /\ guaranteedUsd' = [guaranteedUsd EXCEPT
                       ![c] = guaranteedUsd[c] - (p.size - p.collateral)]
                /\ globalShortSizes' = globalShortSizes
           ELSE /\ guaranteedUsd' = guaranteedUsd
                /\ globalShortSizes' = [globalShortSizes EXCEPT
                       ![i] = ReducedShortSize(i, p.size)]
    BY DEF Liquidate
  <1>3. /\ q \in Position /\ q.size = 0 /\ q.collateral = 0
        /\ q.reserveAmount = 0
    BY DEF NoPosition, Position
  <1>4. p.size \in Nat /\ p.collateral \in Nat /\ p.reserveAmount \in Nat
    BY <1>1, PositionType
  <1>5. c \in Token /\ i \in Volatile
    BY KeyFields
  <1>6. /\ guaranteedUsd[c] \in Nat /\ reservedAmounts[c] \in Nat
        /\ globalShortSizes[i] \in Nat
    BY <1>1, <1>5 DEF TypeOK
  <1>7. ~k.isLong => ReducedShortSize(i, p.size) = globalShortSizes[i] - p.size
    <2>1. ~k.isLong => p.size <= globalShortSizes[i]
      BY <1>1, ShortWithinTotal
    <2> HIDE DEF p
    <2> QED BY <1>4, <1>6, <2>1 DEF ReducedShortSize
  <1> HIDE DEF c, i, p, q
  <1>8. /\ reservedAmounts[c] + (q.reserveAmount - p.reserveAmount)
               = reservedAmounts[c] - p.reserveAmount
        /\ guaranteedUsd[c] + ((q.size - q.collateral)
                               - (p.size - p.collateral))
               = guaranteedUsd[c] - (p.size - p.collateral)
        /\ globalShortSizes[i] + (q.size - p.size)
               = globalShortSizes[i] - p.size
    BY <1>3, <1>4, <1>6
  <1>9. /\ reservedAmounts' = [reservedAmounts EXCEPT
               ![c] = reservedAmounts[c] + (q.reserveAmount - p.reserveAmount)]
        /\ IF k.isLong
           THEN /\ guaranteedUsd' = [guaranteedUsd EXCEPT
                       ![c] = guaranteedUsd[c] + ((q.size - q.collateral)
                                                  - (p.size - p.collateral))]
                /\ globalShortSizes' = globalShortSizes
           ELSE /\ guaranteedUsd' = guaranteedUsd
                /\ globalShortSizes' = [globalShortSizes EXCEPT
                       ![i] = globalShortSizes[i] + (q.size - p.size)]
    BY <1>2, <1>7, <1>8
  <1>10. q \in Position /\ positions' = [positions EXCEPT ![k] = q]
    BY <1>2, <1>3
  <1> QED
    BY <1>1, <1>9, <1>10, BooksFollow DEF c, i, p

(* Liquidation takes one of the two ways.                                  *)
LEMMA LiquidatePositionBooks ==
  ASSUME IInv, Books, NEW k \in Keys, LiquidatePosition(k)
  PROVE  Books'
  <1>1. CASE LiquidateInsolvent(k)
    BY <1>1, LiquidateBooks DEF LiquidateInsolvent
  <1>2. CASE LiquidateOverleveraged(k)
    <2>1. positions[k].size \in Nat /\ Decrease(FALSE, k, 0, positions[k].size)
      BY <1>2, PositionType DEF IInv, LiquidateOverleveraged
    <2> QED BY <2>1, DecreaseBooks
  <1> QED BY <1>1, <1>2 DEF LiquidatePosition

(* Every other action leaves the positions and the totals alone.           *)
LEMMA OtherStepsKeepPositions ==
  /\ Environment \/ Governance => UNCHANGED positionVars
  /\ \A t \in Token : UpdateCumulativeFundingRate(t) \/ DirectPoolDeposit(t)
                         => UNCHANGED positionVars
  /\ \A t \in Token : \A n : BuyUSDG(t, n) => UNCHANGED positionVars
  /\ \A t \in Token : \A n, m : SellUSDG(t, n, m) => UNCHANGED positionVars
  /\ \A t, u \in Token : Swap(t, u) => UNCHANGED positionVars
  <1>1. Environment => UNCHANGED positionVars
    BY DEF Environment, SendTokens, ChangePrice, Tick
  <1>2. Governance => UNCHANGED positionVars
    BY DEF Governance, WithdrawFees, SetUsdgAmount, SetFees, SetIsSwapEnabled,
           SetIsLeverageEnabled, AddRouter, RemoveRouter, SetApproval
  <1>3. \A t \in Token : UpdateCumulativeFundingRate(t) \/ DirectPoolDeposit(t)
                            => UNCHANGED positionVars
    BY DEF UpdateCumulativeFundingRate, DirectPoolDeposit
  <1>4. \A t \in Token : \A n : BuyUSDG(t, n) => UNCHANGED positionVars
    BY DEF BuyUSDG
  <1>5. \A t \in Token : \A n, m : SellUSDG(t, n, m) => UNCHANGED positionVars
    BY DEF SellUSDG
  <1>6. \A t, u \in Token : Swap(t, u) => UNCHANGED positionVars
    BY DEF Swap
  <1> QED BY <1>1, <1>2, <1>3, <1>4, <1>5, <1>6

(* Every action of the Vault keeps the books.                              *)
LEMMA NextBooks == IInv /\ Books /\ [Next]_vars => Books'
  <1> SUFFICES ASSUME IInv, Books, [Next]_vars PROVE Books'
    OBVIOUS
  <1>1. CASE UNCHANGED positionVars
    BY <1>1, BooksUntouched
  <1>2. CASE Environment \/ Pool \/ Governance
    BY <1>1, <1>2, OtherStepsKeepPositions DEF Pool
  <1>3. CASE Leverage
    <2>1. PICK k \in Keys :
              \/ \E s \in Callers, d \in SizeDeltas :
                    \/ IncreasePosition(s, k, d)
                    \/ \E cd \in CollateralDeltas :
                          DecreasePosition(s, k, cd, d)
              \/ LiquidatePosition(k)
      BY <1>3 DEF Leverage
    <2>2. CASE LiquidatePosition(k)
      BY <2>2, LiquidatePositionBooks
    <2>3. ASSUME NEW s \in Callers, NEW d \in SizeDeltas,
                 IncreasePosition(s, k, d)
          PROVE  Books'
      BY <2>3, IncreaseBooks, InputAssumption
    <2>4. ASSUME NEW s \in Callers, NEW d \in SizeDeltas,
                 NEW cd \in CollateralDeltas, DecreasePosition(s, k, cd, d)
          PROVE  Books'
      <3>1. d \in Nat /\ cd \in Nat
        BY InputAssumption
      <3>2. Decrease(TRUE, k, cd, d)
        BY <2>4 DEF DecreasePosition
      <3> QED BY <3>1, <3>2, DecreaseBooks
    <2> QED BY <2>1, <2>2, <2>3, <2>4
  <1>4. CASE UNCHANGED vars
    BY <1>1, <1>4 DEF vars
  <1> QED BY <1>2, <1>3, <1>4 DEF Next

-----------------------------------------------------------------------------
(* The sum of the debts follows the debt of one token.                     *)
LEMMA DebtFollows ==
  ASSUME NEW f \in [Token -> Nat], NEW g \in [Token -> Nat], NEW t \in Token,
         \A u \in Token \ {t} : g[u] = f[u]
  PROVE  /\ SumFunction(f) \in Nat /\ SumFunction(g) \in Nat
         /\ f[t] <= SumFunction(f)
         /\ SumFunction(g) = SumFunction(f) + (g[t] - f[t])
  <1>1. IsFiniteSet(Token) /\ DOMAIN f = Token /\ DOMAIN g = Token
    BY TokenAssumption
  <1>2. \A u \in Token : f[u] \in Nat /\ g[u] \in Nat
    OBVIOUS
  <1>3. /\ SumFunctionOnSet(f, Token) \in Nat
        /\ SumFunctionOnSet(g, Token) \in Nat
        /\ f[t] <= SumFunctionOnSet(f, Token)
    BY <1>1, <1>2, SumType, SumPart
  <1>4. SumFunctionOnSet(g, Token) = SumFunctionOnSet(f, Token) + (g[t] - f[t])
    BY <1>1, <1>2, SumChange
  <1> QED BY <1>1, <1>3, <1>4 DEF SumFunction

(* Steps that leave the debts alone.                                       *)
LEMMA DebtsUntouched ==
  ASSUME DebtCoversSupply, UNCHANGED debtVars
  PROVE  DebtCoversSupply'
  BY DEF DebtCoversSupply, debtVars

(* buyUSDG adds what it mints to the token's debt.                         *)
LEMMA BuyDebts ==
  ASSUME IInv, DebtCoversSupply, NEW t \in Token, NEW sent \in Nat,
         BuyUSDG(t, sent)
  PROVE  DebtCoversSupply'
  <1> DEFINE amount == TransferIn(t) + sent
             bps == FeeBasisPoints(t, usdgAmounts[t], usdgSupply,
                        UsdgValue(t, amount), fees.mintBurnFeeBasisPoints,
                        fees.taxBasisPoints, TRUE)
             minted == UsdgValue(t, AfterFees(amount, bps))
  <1>1. /\ usdgAmounts \in [Token -> Nat] /\ usdgAmounts' \in [Token -> Nat]
        /\ usdgSupply \in Nat /\ usdgSupply' \in Nat
        /\ usdgSupply <= usdgSupply'
    BY BuyUSDGIInv DEF IInv, TypeOK
  <1>2. /\ usdgAmounts' = [usdgAmounts EXCEPT ![t] = @ + minted]
        /\ usdgSupply' = usdgSupply + minted
    BY DEF BuyUSDG
  <1>3. minted \in Nat
    <2>1. amount \in Nat /\ usdgAmounts[t] \in Nat
      BY <1>1, TransferInType, UnitType DEF IInv, TypeOK
    <2>2. UsdgValue(t, amount) \in Nat
      BY <2>1, UsdgValueType DEF IInv
    <2>3. bps <= BPS
      BY DEF BuyUSDG
    <2> HIDE DEF amount
    <2>4. bps \in Nat
      BY <1>1, <2>1, <2>2, FeeTypes, FeeBasisPointsType DEF IInv
    <2> HIDE DEF bps
    <2>5. bps \in 0..BPS
      BY <2>3, <2>4, ParameterAssumption DEF Positive
    <2>6. AfterFees(amount, bps) \in Nat
      BY <2>1, <2>5, AfterFeesBound
    <2> QED BY <2>6, UsdgValueType DEF IInv
  <1> HIDE DEF minted
  <1>4. /\ usdgAmounts'[t] - usdgAmounts[t] = usdgSupply' - usdgSupply
        /\ \A u \in Token \ {t} : usdgAmounts'[u] = usdgAmounts[u]
    <2>1. usdgAmounts'[t] = usdgAmounts[t] + minted
      BY <1>1, <1>2
    <2> QED BY <1>1, <1>2, <1>3, <2>1
  <1>5. /\ SumFunction(usdgAmounts) \in Nat
        /\ SumFunction(usdgAmounts')
               = SumFunction(usdgAmounts) + (usdgAmounts'[t] - usdgAmounts[t])
    BY <1>1, <1>4, DebtFollows
  <1> QED BY <1>1, <1>4, <1>5 DEF DebtCoversSupply

(* sellUSDG takes no more off the token's debt than it burns. Only a       *)
(* caller that burns the whole supply may mint some of it first.           *)
LEMMA SellDebts ==
  ASSUME IInv, DebtCoversSupply, NEW t \in Token,
         NEW fresh \in Nat, NEW sent \in Nat, SellUSDG(t, fresh, sent),
         fresh = 0 \/ usdgSupply' = 0
  PROVE  DebtCoversSupply'
  <1> DEFINE usdg == TransferIn(USDG) + sent
             debt == DecreasedUsdg(usdgAmounts[t], usdg)
  <1>1. TypeOK /\ TypeOK'
    BY SellUSDGIInv DEF IInv
  <1>2. /\ usdgAmounts' = [usdgAmounts EXCEPT ![t] = debt]
        /\ usdgSupply' = usdgSupply + fresh - usdg
    BY DEF SellUSDG
  <1>3. usdg \in Nat
    BY <1>1, TransferInType, UnitType DEF IInv
  <1>4. usdgAmounts \in [Token -> Nat] /\ usdgAmounts' \in [Token -> Nat]
        /\ usdgSupply \in Nat /\ usdgAmounts[t] \in Nat
    BY <1>1 DEF TypeOK
  <1>5. /\ usdgAmounts'[t] = debt
        /\ \A u \in Token \ {t} : usdgAmounts'[u] = usdgAmounts[u]
    BY <1>2, <1>4
  <1>6. debt \in Nat /\ debt - usdgAmounts[t] >= 0 - usdg
    BY <1>3, <1>4 DEF DecreasedUsdg
  <1>7. /\ SumFunction(usdgAmounts) \in Nat /\ SumFunction(usdgAmounts') \in Nat
        /\ SumFunction(usdgAmounts') = SumFunction(usdgAmounts)
                                           + (debt - usdgAmounts[t])
    BY <1>4, <1>5, DebtFollows
  <1> HIDE DEF usdg, debt
  <1> QED BY <1>2, <1>3, <1>4, <1>6, <1>7 DEF DebtCoversSupply

(* A swap moves debt from one token to the other, or adds some.            *)
LEMMA SwapDebts ==
  ASSUME IInv, DebtCoversSupply, NEW a \in Token, NEW b \in Token, Swap(a, b)
  PROVE  DebtCoversSupply'
  <1> DEFINE usdg == UsdgValue(a, TransferIn(a))
             mid == [usdgAmounts EXCEPT ![a] = @ + usdg]
  <1>1. TypeOK /\ TypeOK'
    BY SwapIInv DEF IInv
  <1>2. /\ a # b /\ usdgSupply' = usdgSupply
        /\ usdgAmounts' = [usdgAmounts EXCEPT ![a] = @ + usdg,
                                              ![b] = DecreasedUsdg(@, usdg)]
    BY DEF Swap
  <1>3. usdg \in Nat
    BY <1>1, TransferInType, UnitType, UsdgValueType DEF IInv
  <1> HIDE DEF usdg
  <1>4. usdgAmounts \in [Token -> Nat] /\ usdgAmounts' \in [Token -> Nat]
        /\ usdgSupply \in Nat /\ mid \in [Token -> Nat]
    BY <1>1, <1>3 DEF TypeOK
  <1>5. /\ mid[a] - usdgAmounts[a] = usdg /\ mid[b] = usdgAmounts[b]
        /\ \A u \in Token \ {a} : mid[u] = usdgAmounts[u]
    BY <1>2, <1>3, <1>4
  <1>6. /\ usdgAmounts'[b] = DecreasedUsdg(usdgAmounts[b], usdg)
        /\ \A u \in Token \ {b} : usdgAmounts'[u] = mid[u]
    BY <1>2, <1>4
  <1> HIDE DEF mid
  <1>7. /\ SumFunction(usdgAmounts) \in Nat
        /\ SumFunction(mid) = SumFunction(usdgAmounts) + usdg
    BY <1>4, <1>5, DebtFollows
  <1>8. /\ SumFunction(usdgAmounts') \in Nat
        /\ SumFunction(usdgAmounts') = SumFunction(mid)
                                           + (usdgAmounts'[b] - mid[b])
    BY <1>4, <1>6, DebtFollows
  <1>9. usdgAmounts'[b] - mid[b] >= 0 - usdg
    <2>1. usdgAmounts[b] \in Nat
      BY <1>4
    <2> QED BY <1>3, <1>5, <1>6, <2>1 DEF DecreasedUsdg
  <1>10. mid[b] \in Nat /\ usdgAmounts'[b] \in Nat
    BY <1>4
  <1> QED BY <1>2, <1>3, <1>4, <1>7, <1>8, <1>9, <1>10 DEF DebtCoversSupply

(* No USDG exists at first.                                                *)
LEMMA InitDebts == Init => DebtCoversSupply
  <1> SUFFICES ASSUME Init PROVE DebtCoversSupply
    OBVIOUS
  <1>1. usdgAmounts \in [Token -> Nat] /\ usdgSupply = 0
    BY DEF Init
  <1>2. SumFunction(usdgAmounts) \in Nat
    BY <1>1, TokenAssumption, SumType DEF SumFunction
  <1> QED BY <1>1, <1>2 DEF DebtCoversSupply

(* Nobody but setUsdgAmount changes a debt outside of these three.         *)
LEMMA OtherStepsKeepDebts ==
  /\ Environment => UNCHANGED debtVars
  /\ UsdgSettings = {} /\ Governance => UNCHANGED debtVars
  /\ \A t \in Token : UpdateCumulativeFundingRate(t) \/ DirectPoolDeposit(t)
                         => UNCHANGED debtVars
  /\ \A s, k, d : IncreasePosition(s, k, d) => UNCHANGED debtVars
  /\ \A s, k, cd, d : DecreasePosition(s, k, cd, d) => UNCHANGED debtVars
  /\ \A k : LiquidatePosition(k) => UNCHANGED debtVars
  <1>1. Environment => UNCHANGED debtVars
    BY DEF Environment, SendTokens, ChangePrice, Tick
  <1>2. UsdgSettings = {} /\ Governance => UNCHANGED debtVars
    BY DEF Governance, WithdrawFees, SetFees, SetIsSwapEnabled,
           SetIsLeverageEnabled, AddRouter, RemoveRouter, SetApproval
  <1>3. \A t \in Token : UpdateCumulativeFundingRate(t) \/ DirectPoolDeposit(t)
                            => UNCHANGED debtVars
    BY DEF UpdateCumulativeFundingRate, DirectPoolDeposit
  <1>4. \A s, k, d : IncreasePosition(s, k, d) => UNCHANGED debtVars
    BY DEF IncreasePosition
  <1>5. \A s, k, cd, d : DecreasePosition(s, k, cd, d) => UNCHANGED debtVars
    BY DEF DecreasePosition, Decrease
  <1>6. \A k : LiquidatePosition(k) => UNCHANGED debtVars
    BY DEF LiquidatePosition, LiquidateInsolvent, LiquidateOverleveraged,
           Liquidate, Decrease
  <1> QED BY <1>1, <1>2, <1>3, <1>4, <1>5, <1>6

(* Every action of the Vault keeps the debt above the supply, as long as   *)
(* governance does not set a debt by hand.                                 *)
LEMMA NextDebts ==
  ASSUME UsdgSettings = {}, IInv, DebtCoversSupply, [Next]_vars
  PROVE  DebtCoversSupply'
  <1>1. CASE UNCHANGED debtVars
    BY <1>1, DebtsUntouched
  <1>2. CASE Environment \/ Governance
    BY <1>1, <1>2, OtherStepsKeepDebts
  <1>3. CASE Pool
    <2>1. PICK t \in Token :
              \/ UpdateCumulativeFundingRate(t) \/ DirectPoolDeposit(t)
              \/ BuyUSDG(t, 0) \/ SellUSDG(t, 0, 0)
              \/ \E u \in Token : Swap(t, u)
      BY <1>3 DEF Pool
    <2>2. CASE UpdateCumulativeFundingRate(t) \/ DirectPoolDeposit(t)
      BY <1>1, <2>2, OtherStepsKeepDebts
    <2>3. CASE BuyUSDG(t, 0)
      BY <2>3, BuyDebts
    <2>4. CASE SellUSDG(t, 0, 0)
      BY <2>4, SellDebts
    <2>5. CASE \E u \in Token : Swap(t, u)
      BY <2>5, SwapDebts
    <2> QED BY <2>1, <2>2, <2>3, <2>4, <2>5
  <1>4. CASE Leverage
    BY <1>1, <1>4, OtherStepsKeepDebts DEF Leverage
  <1>5. CASE UNCHANGED vars
    BY <1>1, <1>5 DEF vars
  <1> QED BY <1>2, <1>3, <1>4, <1>5 DEF Next

-----------------------------------------------------------------------------
(* Trades do not bring on liquidations.                                    *)

(* What the price feed reports is one of the quotes of the token.          *)
Quoted == \A t \in Token : prices[t] \in Quotes[t]

LEMMA InitQuoted == Init => Quoted
  BY DEF Init, Quoted

LEMMA NextQuoted == ASSUME IInv, Quoted, [Next]_vars PROVE Quoted'
  <1>1. CASE UNCHANGED prices
    BY <1>1 DEF Quoted
  <1>2. ASSUME NEW t \in Token, NEW q \in Quotes[t], ChangePrice(t, q)
        PROVE  Quoted'
    BY <1>2 DEF ChangePrice, Quoted, IInv, TypeOK
  <1>3. CASE Environment
    <2>1. ASSUME NEW a \in Asset, NEW n \in SendAmounts[a], SendTokens(a, n)
          PROVE  UNCHANGED prices
      BY <2>1 DEF SendTokens
    <2>2. Tick => UNCHANGED prices
      BY DEF Tick
    <2> QED BY <1>1, <1>2, <1>3, <2>1, <2>2 DEF Environment
  <1>4. CASE Pool
    <2>1. ASSUME NEW t \in Token
          PROVE  /\ UpdateCumulativeFundingRate(t) => UNCHANGED prices
                 /\ DirectPoolDeposit(t) => UNCHANGED prices
                 /\ BuyUSDG(t, 0) => UNCHANGED prices
                 /\ SellUSDG(t, 0, 0) => UNCHANGED prices
                 /\ \A u \in Token : Swap(t, u) => UNCHANGED prices
      BY DEF UpdateCumulativeFundingRate, DirectPoolDeposit, BuyUSDG, SellUSDG,
         Swap, envVars
    <2> QED BY <1>1, <1>4, <2>1 DEF Pool
  <1>5. CASE Leverage
    <2>1. ASSUME NEW s, NEW k, NEW d, IncreasePosition(s, k, d)
          PROVE  UNCHANGED prices
      BY <2>1 DEF IncreasePosition, envVars
    <2>2. ASSUME NEW amm, NEW k, NEW cd, NEW d, Decrease(amm, k, cd, d)
          PROVE  UNCHANGED prices
      BY <2>2 DEF Decrease, envVars
    <2>3. ASSUME NEW k, NEW n, Liquidate(k, n) PROVE UNCHANGED prices
      BY <2>3 DEF Liquidate, envVars
    <2> QED BY <1>1, <1>5, <2>1, <2>2, <2>3 DEF Leverage, DecreasePosition,
            LiquidatePosition, LiquidateInsolvent, LiquidateOverleveraged
  <1>6. CASE Governance
    BY <1>1, <1>6 DEF Governance, WithdrawFees, SetUsdgAmount, SetFees,
       SetIsSwapEnabled, SetIsLeverageEnabled, AddRouter, RemoveRouter,
       SetApproval, envVars
  <1>7. CASE UNCHANGED vars
    BY <1>1, <1>7 DEF vars, envVars
  <1> QED BY <1>3, <1>4, <1>5, <1>6, <1>7 DEF Next

(* Rounding down keeps the order.                                          *)
LEMMA QuotientMonotone ==
  ASSUME NEW a \in Nat, NEW b \in Nat, a <= b, NEW c \in Positive
  PROVE  a \div c <= b \div c
  BY DEF Positive

LEMMA ProductMonotone ==
  ASSUME NEW a \in Int, NEW b \in Int, a <= b, NEW c \in Nat
  PROVE  a * c <= b * c
  OBVIOUS

(* validateLiquidation compares what remains of the collateral with the    *)
(* fees, and with the size.                                                *)
Remaining(amm, raise, k, p) ==
    IF ~HasProfit(amm, k, p) THEN p.collateral - Delta(amm, k, p)
    ELSE IF raise THEN p.collateral ELSE p.collateral + Delta(amm, k, p)
MarginFees(p, rate) ==
    FundingFee(p.size, rate, p.entryFundingRate) + PositionFee(p.size)

LEMMA Validated ==
  ASSUME TypeOK, NEW k \in Keys, NEW amm \in BOOLEAN, NEW raise \in BOOLEAN,
         NEW p \in Position, p.averagePrice > 0,
         NEW rate \in Nat, p.entryFundingRate <= rate
  PROVE  /\ Remaining(amm, raise, k, p) \in Int /\ MarginFees(p, rate) \in Nat
         /\ LiquidationCheck(amm, raise, k, p, rate).state = 0
            <=> /\ Remaining(amm, raise, k, p)
                       >= MarginFees(p, rate) + fees.liquidationFeeUsd
                /\ Remaining(amm, raise, k, p) * MaxLeverage >= p.size * BPS
  <1>1. p.size \in Nat /\ p.collateral \in Nat /\ p.entryFundingRate \in Nat
    BY DEF Position
  <1>2. MarginFees(p, rate) \in Nat
    <2>1. FundingFee(p.size, rate, p.entryFundingRate) \in Nat
      BY <1>1, FundingFeeType
    <2>2. PositionFee(p.size) \in Nat
      BY <1>1, PositionFeeType
    <2> QED
      BY <2>1, <2>2 DEF MarginFees
  <1>3. Remaining(amm, raise, k, p) \in Int
    BY <1>1, DeltaType DEF Remaining
  <1>4. PICK rem \in Int, due \in Nat, liq \in Nat, x \in Int, y \in Int :
            /\ rem = Remaining(amm, raise, k, p) /\ due = MarginFees(p, rate)
            /\ liq = fees.liquidationFeeUsd
            /\ x = Remaining(amm, raise, k, p) * MaxLeverage
            /\ y = p.size * BPS
    <2>1. Remaining(amm, raise, k, p) * MaxLeverage \in Int
      BY <1>3, ParameterAssumption DEF Positive
    <2>2. p.size * BPS \in Int
      BY <1>1, ParameterAssumption DEF Positive
    <2> QED BY <1>2, <1>3, <2>1, <2>2, FeeTypes
  <1>5. LiquidationCheck(amm, raise, k, p, rate).state
            = IF rem < 0 THEN 1 ELSE IF rem < due THEN 1
              ELSE IF rem < due + liq THEN 1 ELSE IF x < y THEN 2 ELSE 0
    BY <1>4 DEF LiquidationCheck, Remaining, MarginFees
  <1>6. LiquidationCheck(amm, raise, k, p, rate).state = 0
            <=> rem >= due + liq /\ x >= y
    BY <1>5
  <1> QED BY <1>2, <1>3, <1>4, <1>6

(* More that remains and less that is due do no harm.                      *)
LEMMA StaysValid ==
  ASSUME TypeOK, NEW k \in Keys,
         NEW amm \in BOOLEAN, NEW raise \in BOOLEAN, NEW rate \in Nat,
         NEW amm2 \in BOOLEAN, NEW raise2 \in BOOLEAN, NEW rate2 \in Nat,
         NEW p \in Position, p.averagePrice > 0,
         p.entryFundingRate <= rate2, rate2 <= rate,
         Remaining(amm, raise, k, p) <= Remaining(amm2, raise2, k, p),
         LiquidationCheck(amm, raise, k, p, rate).state = 0
  PROVE  LiquidationCheck(amm2, raise2, k, p, rate2).state = 0
  <1>1. p.size \in Nat /\ p.entryFundingRate \in Nat
        /\ p.entryFundingRate <= rate
    BY DEF Position
  <1>2. MarginFees(p, rate2) <= MarginFees(p, rate)
    <2>1. PICK n \in Nat, m \in Nat : /\ n = rate2 - p.entryFundingRate
                                      /\ m = rate - p.entryFundingRate
      BY <1>1
    <2>2. n * p.size <= m * p.size
      BY <1>1, <2>1, ProductMonotone
    <2>3. /\ p.size * n \in Nat /\ p.size * m \in Nat
          /\ p.size * n <= p.size * m
      BY <1>1, <2>2, ProductNat
    <2>4. FundingPrecision \in Positive
      BY ParameterAssumption
    <2>5. (p.size * n) \div FundingPrecision <= (p.size * m) \div FundingPrecision
      BY <2>3, <2>4, QuotientMonotone
    <2>6. /\ (p.size * n) \div FundingPrecision \in Nat
          /\ (p.size * m) \div FundingPrecision \in Nat
      BY <2>3, <2>4, QuotientNat
    <2>7. PositionFee(p.size) \in Nat
      BY <1>1, PositionFeeType
    <2>8. /\ MarginFees(p, rate2)
                 = (p.size * n) \div FundingPrecision + PositionFee(p.size)
          /\ MarginFees(p, rate)
                 = (p.size * m) \div FundingPrecision + PositionFee(p.size)
      BY <2>1 DEF MarginFees, FundingFee
    <2> QED BY <2>5, <2>6, <2>7, <2>8
  <1>3. PICK rem \in Int, rem2 \in Int, due \in Nat, due2 \in Nat, liq \in Nat :
            /\ rem = Remaining(amm, raise, k, p)
            /\ rem2 = Remaining(amm2, raise2, k, p)
            /\ due = MarginFees(p, rate) /\ due2 = MarginFees(p, rate2)
            /\ liq = fees.liquidationFeeUsd
    BY <1>1, Validated, FeeTypes
  <1>4. /\ rem <= rem2 /\ due2 <= due /\ MaxLeverage \in Nat
        /\ p.size * BPS \in Int
    BY <1>1, <1>2, <1>3, ParameterAssumption DEF Positive
  <1>5. rem * MaxLeverage <= rem2 * MaxLeverage
    BY <1>4, ProductMonotone
  <1>6. rem >= due + liq /\ rem * MaxLeverage >= p.size * BPS
    BY <1>1, <1>3, Validated
  <1>7. rem2 >= due2 + liq
    BY <1>4, <1>6
  <1>8. rem2 * MaxLeverage >= p.size * BPS
    <2>1. rem * MaxLeverage \in Int /\ rem2 * MaxLeverage \in Int
      BY <1>4
    <2> QED BY <1>4, <1>5, <1>6, <2>1
  <1> QED BY <1>1, <1>3, <1>7, <1>8, Validated

(* A position is worth no more at a price that is worse for it, once its   *)
(* profits do not count.                                                   *)
LEMMA WorthLessAtWorse ==
  ASSUME TypeOK, NEW k \in Keys, NEW p \in Position, p.averagePrice > 0,
         NEW amm \in BOOLEAN, NEW fair \in BOOLEAN,
         NEW raise \in BOOLEAN, NEW lax \in BOOLEAN,
         HasProfit(amm, k, p) => Remaining(amm, raise, k, p) = p.collateral,
         IF k.isLong THEN MarkPrice(amm, k) <= MarkPrice(fair, k)
                     ELSE MarkPrice(fair, k) <= MarkPrice(amm, k)
  PROVE  Remaining(amm, raise, k, p) <= Remaining(fair, lax, k, p)
  <1>1. k.indexToken \in Token /\ k.isLong \in BOOLEAN
    BY KeyFields
  <1>2. /\ MarkPrice(amm, k) \in Nat /\ MarkPrice(fair, k) \in Nat
        /\ p.averagePrice \in Positive /\ p.size \in Nat /\ p.collateral \in Nat
    <2>1. MarkPrice(amm, k) \in Positive /\ MarkPrice(fair, k) \in Positive
      BY MarkPriceType
    <2>2. p.averagePrice \in Nat /\ p.size \in Nat /\ p.collateral \in Nat
      BY DEF Position
    <2> QED BY <2>1, <2>2 DEF Positive
  <1>3. PICK worst \in Nat, best \in Nat :
            worst = MarkPrice(amm, k) /\ best = MarkPrice(fair, k)
    BY <1>2
  <1>4. PICK entry \in Positive, size \in Nat, coll \in Nat :
            entry = p.averagePrice /\ size = p.size /\ coll = p.collateral
    BY <1>2
  <1>5. IF k.isLong THEN worst <= best ELSE best <= worst
    BY <1>3
  <1>6. \/ /\ HasProfit(amm, k, p) /\ HasProfit(fair, k, p)
        \/ /\ ~HasProfit(amm, k, p) /\ HasProfit(fair, k, p)
        \/ /\ ~HasProfit(amm, k, p) /\ ~HasProfit(fair, k, p)
           /\ IF k.isLong THEN best <= entry ELSE entry <= best
    <2>1. entry \in Nat
      BY DEF Positive
    <2>2. CASE k.isLong
      <3>1. /\ HasProfit(amm, k, p) <=> worst > entry
            /\ HasProfit(fair, k, p) <=> best > entry
        BY <1>3, <1>4, <2>2 DEF HasProfit
      <3>2. worst <= best /\ (best > entry \/ best <= entry)
        BY <1>5, <2>1, <2>2
      <3>3. worst > entry => best > entry
        BY <2>1, <3>2
      <3> QED BY <2>2, <3>1, <3>2, <3>3, Zenon
    <2>3. CASE ~k.isLong
      <3>1. /\ HasProfit(amm, k, p) <=> entry > worst
            /\ HasProfit(fair, k, p) <=> entry > best
        BY <1>3, <1>4, <2>3 DEF HasProfit
      <3>2. best <= worst /\ (entry > best \/ entry <= best)
        BY <1>5, <2>1, <2>3
      <3>3. entry > worst => entry > best
        BY <2>1, <3>2
      <3> QED BY <2>3, <3>1, <3>2, <3>3, Zenon
    <2> QED BY <1>1, <2>2, <2>3
  <1>7. PICK d \in Nat, e \in Nat :
            d = Delta(amm, k, p) /\ e = Delta(fair, k, p)
    BY DeltaType
  <1>8. CASE HasProfit(amm, k, p) /\ HasProfit(fair, k, p)
    <2>1. /\ Remaining(amm, raise, k, p) = coll
          /\ Remaining(fair, lax, k, p) \in {coll, coll + e}
      BY <1>4, <1>7, <1>8 DEF Remaining
    <2> QED BY <2>1
  <1>9. CASE ~HasProfit(amm, k, p) /\ HasProfit(fair, k, p)
    <2>1. /\ Remaining(amm, raise, k, p) = coll - d
          /\ Remaining(fair, lax, k, p) \in {coll, coll + e}
      BY <1>4, <1>7, <1>9 DEF Remaining
    <2> QED BY <2>1
  <1>10. CASE /\ ~HasProfit(amm, k, p) /\ ~HasProfit(fair, k, p)
              /\ IF k.isLong THEN best <= entry ELSE entry <= best
    <2>1. /\ d = (size * Distance(entry, worst)) \div entry
          /\ e = (size * Distance(entry, best)) \div entry
      BY <1>3, <1>4, <1>7, <1>10 DEF Delta
    <2>2. Distance(entry, worst) \in Nat /\ Distance(entry, best) \in Nat
          /\ Distance(entry, best) <= Distance(entry, worst)
      <3>1. entry \in Nat
        BY DEF Positive
      <3> QED BY <1>5, <1>10, <3>1 DEF Distance
    <2>3. PICK far \in Nat, near \in Nat :
              far = Distance(entry, worst) /\ near = Distance(entry, best)
      BY <2>2
    <2>4. size * near <= size * far /\ size * near \in Nat /\ size * far \in Nat
      <3>1. near * size <= far * size
        BY <2>2, <2>3, ProductMonotone
      <3> QED BY <3>1, ProductNat
    <2>5. (size * near) \div entry <= (size * far) \div entry
      BY <2>4, QuotientMonotone
    <2>6. e <= d
      BY <2>1, <2>3, <2>5
    <2>7. /\ Remaining(amm, raise, k, p) = coll - d
          /\ Remaining(fair, lax, k, p) = coll - e
      BY <1>4, <1>7, <1>10 DEF Remaining
    <2> QED BY <2>6, <2>7
  <1> QED BY <1>6, <1>8, <1>9, <1>10

(* A trade is validated at the worse prices and without its profits.       *)
LEMMA ValidatedAtWorst ==
  ASSUME TypeOK, Quoted, NEW k \in Keys, NEW p \in Position, p.averagePrice > 0
  PROVE  Remaining(TRUE, TRUE, k, p) <= Remaining(FALSE, FALSE, k, p)
  <1>1. k.indexToken \in Token /\ k.isLong \in BOOLEAN
    BY KeyFields
  <1>2. PICK q \in Quotes[k.indexToken] : q = prices[k.indexToken]
    BY <1>1 DEF Quoted
  <1>3. q[TRUE].min <= q[FALSE].min /\ q[FALSE].max <= q[TRUE].max
    BY <1>1, TokenAssumption
  <1>4. IF k.isLong THEN MarkPrice(TRUE, k) <= MarkPrice(FALSE, k)
                    ELSE MarkPrice(FALSE, k) <= MarkPrice(TRUE, k)
    BY <1>2, <1>3, Zenon DEF MarkPrice, MinPrice, MaxPrice
  <1>5. HasProfit(TRUE, k, p) => Remaining(TRUE, TRUE, k, p) = p.collateral
    BY Zenon DEF Remaining
  <1> QED BY <1>4, <1>5, WorthLessAtWorse

(* Dividing by more gives no more.                                         *)
LEMMA DeeperDivisor ==
  ASSUME NEW a \in Nat, NEW b \in Positive, NEW c \in Positive, b <= c
  PROVE  a \div c <= a \div b
  <1>1. PICK m \in Nat, n \in Nat : m = a \div c /\ n = a \div b
    BY QuotientNat
  <1>2. m * c <= a /\ a < n * b + b
    BY <1>1, DivisionBounds
  <1>3. b \in Nat /\ c \in Nat /\ b > 0
    BY DEF Positive
  <1>4. m * b <= m * c
    BY <1>3
  <1>5. m * b \in Nat /\ m * c \in Nat /\ n * b \in Nat
    BY <1>3, ProductNat
  <1>6. ASSUME n < m PROVE FALSE
    <2>1. n + 1 <= m
      BY <1>6
    <2>2. (n + 1) * b <= m * b
      BY <1>3, <2>1, ProductMonotone
    <2>3. (n + 1) * b = n * b + b
      BY <1>3
    <2> QED BY <1>2, <1>3, <1>4, <1>5, <2>2, <2>3
  <1> QED BY <1>1, <1>6

(* A call either accrues the funding of a token, or leaves its funding and *)
(* its reserves alone and takes nothing out of its pool.                   *)
FundingKept(t) ==
    \/ /\ cumulativeFundingRates'[t] = CumulativeRate(t)
       /\ lastFundingTimes'[t] = FundingTime(t)
    \/ /\ cumulativeFundingRates'[t] = cumulativeFundingRates[t]
       /\ lastFundingTimes'[t] = lastFundingTimes[t]
       /\ reservedAmounts'[t] = reservedAmounts[t]
       /\ poolAmounts[t] <= poolAmounts'[t]

(* The rate accrued so far is the rate recorded right after accruing, and  *)
(* a deeper pool does not raise it.                                        *)
LEMMA AccruedRate ==
  ASSUME TypeOK, TypeOK', NEW t \in Token, now' = now,
         cumulativeFundingRates'[t] = CumulativeRate(t),
         lastFundingTimes'[t] = FundingTime(t)
  PROVE  CumulativeRate(t)' = CumulativeRate(t)
  <1>1. /\ now \in Nat /\ lastFundingTimes[t] \in Nat
        /\ FundingInterval \in Positive
    BY ParameterAssumption DEF TypeOK
  <1>2. now < (now \div FundingInterval) * FundingInterval + FundingInterval
    BY <1>1, DivisionBounds
  <1>3. PICK m \in Nat : m = (now \div FundingInterval) * FundingInterval
    BY <1>1, ProductNat, QuotientNat DEF Positive
  <1>4. FundingInterval \in Nat /\ now < m + FundingInterval
    BY <1>1, <1>2, <1>3 DEF Positive
  <1>5. lastFundingTimes'[t] = 0 \/ ~(lastFundingTimes'[t] + FundingInterval <= now)
    <2>1. CASE lastFundingTimes[t] = 0 \/ FundingDue(t)
      BY <1>1, <1>3, <1>4, <2>1 DEF FundingTime
    <2>2. CASE ~(lastFundingTimes[t] = 0 \/ FundingDue(t))
      BY <1>1, <1>4, <2>2 DEF FundingTime, FundingDue
    <2> QED BY <2>1, <2>2
  <1>6. CumulativeRate(t)' = cumulativeFundingRates'[t]
    BY <1>5 DEF CumulativeRate, FundingDue
  <1> QED BY <1>6

LEMMA RateKept ==
  ASSUME TypeOK, TypeOK', ReservedWithinPool, NEW t \in Token, now' = now,
         FundingKept(t)
  PROVE  CumulativeRate(t)' <= CumulativeRate(t)
  <1>1. CumulativeRate(t) \in Nat
    BY FundingType
  <1>2. CASE /\ cumulativeFundingRates'[t] = CumulativeRate(t)
             /\ lastFundingTimes'[t] = FundingTime(t)
    <2>1. CumulativeRate(t)' = CumulativeRate(t)
      BY <1>2, AccruedRate
    <2> QED BY <1>1, <2>1
  <1>3. CASE /\ cumulativeFundingRates'[t] = cumulativeFundingRates[t]
             /\ lastFundingTimes'[t] = lastFundingTimes[t]
             /\ reservedAmounts'[t] = reservedAmounts[t]
             /\ poolAmounts[t] <= poolAmounts'[t]
    <2>1. FundingDue(t)' <=> FundingDue(t)
      BY <1>3 DEF FundingDue
    <2>2. CASE lastFundingTimes[t] = 0 \/ ~FundingDue(t)
      <3>1. CumulativeRate(t)' = CumulativeRate(t)
        BY <1>3, <2>1, <2>2, Zenon DEF CumulativeRate
      <3> QED BY <1>1, <3>1
    <2>3. CASE ~(lastFundingTimes[t] = 0 \/ ~FundingDue(t))
      <3>1. /\ CumulativeRate(t)' = cumulativeFundingRates[t] + NextFundingRate(t)'
            /\ CumulativeRate(t) = cumulativeFundingRates[t] + NextFundingRate(t)
        BY <1>3, <2>1, <2>3, Zenon DEF CumulativeRate
      <3>2. PICK f \in Nat : f = (IF t \in Stable THEN StableFundingRateFactor
                                                  ELSE FundingRateFactor)
        BY ParameterAssumption
      <3>3. PICK n \in Nat : n = (now - lastFundingTimes[t]) \div FundingInterval
        BY <2>3, ParameterAssumption, QuotientNat
           DEF TypeOK, FundingDue, Positive
      <3>4. PICK res \in Nat, pool \in Nat, deep \in Nat, cum \in Nat :
                /\ res = reservedAmounts[t] /\ pool = poolAmounts[t]
                /\ deep = poolAmounts'[t] /\ cum = cumulativeFundingRates[t]
        BY DEF TypeOK
      <3>5. res <= pool /\ pool <= deep
        BY <1>3, <3>4 DEF ReservedWithinPool
      <3>6. PICK due \in Nat : due = f * res * n
        BY ProductNat
      <3>7. NextFundingRate(t) = IF pool = 0 THEN 0 ELSE due \div pool
        BY <3>2, <3>3, <3>4, <3>6, Zenon DEF NextFundingRate
      <3>8. NextFundingRate(t)' = IF deep = 0 THEN 0 ELSE due \div deep
        BY <1>3, <3>2, <3>3, <3>4, <3>6, Zenon DEF NextFundingRate
      <3>9. /\ NextFundingRate(t) \in Nat /\ NextFundingRate(t)' \in Nat
            /\ NextFundingRate(t)' <= NextFundingRate(t)
        <4>1. CASE deep = 0
          BY <3>5, <3>7, <3>8, <4>1
        <4>2. CASE deep > 0 /\ pool = 0
          <5>1. res = 0
            BY <3>5, <4>2
          <5>2. due = 0
            BY <3>6, <5>1
          <5>3. due \div deep = 0
            BY <4>2, <5>2
          <5> QED BY <3>7, <3>8, <4>2, <5>3
        <4>3. CASE pool > 0
          <5>1. pool \in Positive /\ deep \in Positive
            BY <3>5, <4>3 DEF Positive
          <5>2. due \div pool \in Nat /\ due \div deep \in Nat
            BY <5>1, QuotientNat
          <5>3. due \div deep <= due \div pool
            BY <3>5, <5>1, DeeperDivisor
          <5> QED BY <3>5, <3>7, <3>8, <4>3, <5>2, <5>3
        <4> QED BY <4>1, <4>2, <4>3
      <3> QED BY <3>1, <3>4, <3>9
    <2> QED BY <2>2, <2>3
  <1> QED BY <1>2, <1>3 DEF FundingKept

(* Accruing keeps the funding of the tokens it does not name.              *)
LEMMA Accruing ==
  ASSUME TypeOK, TypeOK', NEW ts \in SUBSET Token, AccrueFunding(ts),
         \A u \in Token \ ts : /\ reservedAmounts'[u] = reservedAmounts[u]
                               /\ poolAmounts'[u] = poolAmounts[u]
  PROVE  \A t \in Token : FundingKept(t)
  <1> SUFFICES ASSUME NEW t \in Token PROVE FundingKept(t)
    OBVIOUS
  <1>1. CASE t \in ts
    BY <1>1 DEF AccrueFunding, FundingKept
  <1>2. CASE t \notin ts
    <2>1. poolAmounts[t] \in Nat /\ poolAmounts'[t] \in Nat
      BY DEF TypeOK
    <2>2. /\ cumulativeFundingRates'[t] = cumulativeFundingRates[t]
          /\ lastFundingTimes'[t] = lastFundingTimes[t]
      BY <1>2 DEF AccrueFunding
    <2> QED BY <1>2, <2>1, <2>2 DEF FundingKept
  <1> QED BY <1>1, <1>2

LEMMA FundingIdle ==
  ASSUME TypeOK, UNCHANGED fundingVars, UNCHANGED reservedAmounts,
         \A u \in Token : poolAmounts[u] <= poolAmounts'[u]
  PROVE  \A t \in Token : FundingKept(t)
  BY DEF FundingKept, fundingVars

(* Every step that can change a pool accrues funding first, direct         *)
(* deposits excepted.                                                      *)
LEMMA NextFunding ==
  ASSUME IInv, IInv', [Next]_vars
  PROVE  \A t \in Token : FundingKept(t)
  <1>1. TypeOK /\ TypeOK'
    BY DEF IInv
  <1>2. \A t \in Token : poolAmounts[t] \in Nat /\ poolAmounts'[t] \in Nat
    BY <1>1 DEF TypeOK
  <1>3. CASE UNCHANGED <<fundingVars, positionVars, poolAmounts>>
    BY <1>1, <1>2, <1>3, FundingIdle DEF positionVars
  <1>4. CASE Environment
    BY <1>3, <1>4 DEF Environment, SendTokens, ChangePrice, Tick, ledgerVars
  <1>5. CASE Governance
    BY <1>3, <1>5 DEF Governance, WithdrawFees, SetUsdgAmount, SetFees,
       SetIsSwapEnabled, SetIsLeverageEnabled, AddRouter, RemoveRouter,
       SetApproval, ledgerVars
  <1>6. CASE Pool
    <2>1. PICK t \in Token :
              \/ UpdateCumulativeFundingRate(t) \/ DirectPoolDeposit(t)
              \/ BuyUSDG(t, 0) \/ SellUSDG(t, 0, 0)
              \/ \E u \in Token : Swap(t, u)
      BY <1>6 DEF Pool
    <2>2. CASE UpdateCumulativeFundingRate(t)
      BY <1>1, <2>2, Accruing
         DEF UpdateCumulativeFundingRate, positionVars, ledgerVars
    <2>3. CASE DirectPoolDeposit(t)
      <3>1. /\ UNCHANGED fundingVars /\ UNCHANGED reservedAmounts
            /\ poolAmounts' = [poolAmounts EXCEPT ![t] = @ + TransferIn(t)]
            /\ TransferIn(t) > 0
        BY <2>3 DEF DirectPoolDeposit, positionVars
      <3>2. TransferIn(t) \in Int
        BY <1>1 DEF TransferIn, TypeOK, Asset
      <3>3. \A u \in Token : poolAmounts[u] <= poolAmounts'[u]
        BY <1>1, <1>2, <3>1, <3>2 DEF TypeOK
      <3> QED BY <1>1, <3>1, <3>3, FundingIdle
    <2>4. CASE BuyUSDG(t, 0)
      <3>1. /\ AccrueFunding({t}) /\ UNCHANGED reservedAmounts
            /\ \A u \in Token \ {t} : poolAmounts'[u] = poolAmounts[u]
        BY <1>1, <2>4 DEF BuyUSDG, positionVars, TypeOK
      <3> QED BY <1>1, <3>1, Accruing
    <2>5. CASE SellUSDG(t, 0, 0)
      <3>1. /\ AccrueFunding({t}) /\ UNCHANGED reservedAmounts
            /\ \A u \in Token \ {t} : poolAmounts'[u] = poolAmounts[u]
        BY <1>1, <2>5 DEF SellUSDG, positionVars, TypeOK
      <3> QED BY <1>1, <3>1, Accruing
    <2>6. ASSUME NEW u \in Token, Swap(t, u)
          PROVE  \A v \in Token : FundingKept(v)
      <3>1. /\ AccrueFunding({t, u}) /\ UNCHANGED reservedAmounts
            /\ \A v \in Token \ {t, u} : poolAmounts'[v] = poolAmounts[v]
        BY <1>1, <2>6 DEF Swap, positionVars, TypeOK
      <3> QED BY <1>1, <3>1, Accruing
    <2> QED BY <2>1, <2>2, <2>3, <2>4, <2>5, <2>6
  <1>7. CASE Leverage
    <2>1. ASSUME NEW c \in Token, AccrueFunding({c}),
                 \A u \in Token \ {c} :
                    /\ reservedAmounts'[u] = reservedAmounts[u]
                    /\ poolAmounts'[u] = poolAmounts[u]
          PROVE  \A t \in Token : FundingKept(t)
      BY <1>1, <2>1, Accruing
    <2>2. ASSUME NEW k \in Keys, NEW s, NEW d, IncreasePosition(s, k, d)
          PROVE  \A t \in Token : FundingKept(t)
      <3>1. k.collateralToken \in Token
        BY KeyFields
      <3>2. /\ AccrueFunding({k.collateralToken})
            /\ \A u \in Token \ {k.collateralToken} :
                    /\ reservedAmounts'[u] = reservedAmounts[u]
                    /\ poolAmounts'[u] = poolAmounts[u]
        BY <1>1, <2>2 DEF IncreasePosition, TypeOK
      <3> QED BY <2>1, <3>1, <3>2
    <2>3. ASSUME NEW k \in Keys, NEW amm, NEW cd, NEW d, Decrease(amm, k, cd, d)
          PROVE  \A t \in Token : FundingKept(t)
      <3>1. k.collateralToken \in Token
        BY KeyFields
      <3>2. /\ AccrueFunding({k.collateralToken})
            /\ \A u \in Token \ {k.collateralToken} :
                    /\ reservedAmounts'[u] = reservedAmounts[u]
                    /\ poolAmounts'[u] = poolAmounts[u]
        BY <1>1, <2>3 DEF Decrease, TypeOK
      <3> QED BY <2>1, <3>1, <3>2
    <2>4. ASSUME NEW k \in Keys, NEW n, Liquidate(k, n)
          PROVE  \A t \in Token : FundingKept(t)
      <3>1. k.collateralToken \in Token
        BY KeyFields
      <3>2. /\ AccrueFunding({k.collateralToken})
            /\ \A u \in Token \ {k.collateralToken} :
                    /\ reservedAmounts'[u] = reservedAmounts[u]
                    /\ poolAmounts'[u] = poolAmounts[u]
        BY <1>1, <2>4 DEF Liquidate, TypeOK
      <3> QED BY <2>1, <3>1, <3>2
    <2> QED BY <1>7, <2>2, <2>3, <2>4 DEF Leverage, DecreasePosition,
            LiquidatePosition, LiquidateInsolvent, LiquidateOverleveraged
  <1>8. CASE UNCHANGED vars
    BY <1>3, <1>8 DEF vars, ledgerVars
  <1> QED BY <1>4, <1>5, <1>6, <1>7, <1>8 DEF Next

(* A position a step leaves open is as it was, or has been validated.      *)
Revalidated(k) ==
    \/ positions'[k] = positions[k]
    \/ positions'[k] = NoPosition
    \/ /\ positions'[k].entryFundingRate = CumulativeRate(k.collateralToken)
       /\ ValidPosition(k, positions'[k], CumulativeRate(k.collateralToken))

LEMMA NextRevalidates ==
  ASSUME IInv, [Next]_vars
  PROVE  \A k \in Keys : Revalidated(k)
  <1>1. CASE UNCHANGED positionVars
    BY <1>1 DEF positionVars, Revalidated
  <1>2. CASE Environment \/ Pool \/ Governance
    BY <1>1, <1>2, OtherStepsKeepPositions DEF Pool
  <1>3. CASE Leverage
    <2>1. ASSUME NEW j \in Keys, NEW p, positions' = [positions EXCEPT ![j] = p],
                 \/ p = NoPosition
                 \/ /\ p.entryFundingRate = CumulativeRate(j.collateralToken)
                    /\ ValidPosition(j, p, CumulativeRate(j.collateralToken))
          PROVE  \A k \in Keys : Revalidated(k)
      <3>1. /\ positions'[j] = p
            /\ \A k \in Keys \ {j} : positions'[k] = positions[k]
        BY <2>1 DEF IInv, TypeOK
      <3>2. Revalidated(j)
        BY <2>1, <3>1, Zenon DEF Revalidated
      <3>3. \A k \in Keys \ {j} : Revalidated(k)
        BY <3>1, Zenon DEF Revalidated
      <3> QED BY <3>2, <3>3
    <2>2. ASSUME NEW j \in Keys, NEW s, NEW d, IncreasePosition(s, j, d)
          PROVE  \A k \in Keys : Revalidated(k)
      <3>1. PICK p : p = Increased(j, d)
        OBVIOUS
      <3>2. /\ positions' = [positions EXCEPT ![j] = p]
            /\ ValidPosition(j, p, CumulativeRate(j.collateralToken))
        BY <2>2, <3>1, Zenon DEF IncreasePosition
      <3>3. p.entryFundingRate = CumulativeRate(j.collateralToken)
        BY <3>1 DEF Increased
      <3> QED BY <2>1, <3>2, <3>3
    <2>3. ASSUME NEW j \in Keys, NEW amm, NEW cd, NEW d, Decrease(amm, j, cd, d)
          PROVE  \A k \in Keys : Revalidated(k)
      <3>1. PICK p : p = Decreased(amm, j, cd, d)
        OBVIOUS
      <3>2. /\ positions' = [positions EXCEPT ![j] = p]
            /\ p # NoPosition
                  => ValidPosition(j, p, CumulativeRate(j.collateralToken))
        BY <2>3, <3>1, Zenon DEF Decrease
      <3>3. p # NoPosition
                => p.entryFundingRate = CumulativeRate(j.collateralToken)
        BY <3>1 DEF Decreased, IInv, TypeOK, Position
      <3> QED BY <2>1, <3>2, <3>3
    <2>4. ASSUME NEW j \in Keys, NEW n, Liquidate(j, n)
          PROVE  \A k \in Keys : Revalidated(k)
      <3>1. PICK p : p = NoPosition
        OBVIOUS
      <3>2. positions' = [positions EXCEPT ![j] = p]
        BY <2>4, <3>1, Zenon DEF Liquidate
      <3> QED BY <2>1, <3>1, <3>2
    <2> QED BY <1>3, <2>2, <2>3, <2>4 DEF Leverage, DecreasePosition,
            LiquidatePosition, LiquidateInsolvent, LiquidateOverleveraged
  <1>4. CASE UNCHANGED vars
    BY <1>1, <1>4 DEF vars
  <1> QED BY <1>2, <1>3, <1>4 DEF Next

(* What validateLiquidation compares depends on the market and on what it  *)
(* is given.                                                               *)
LEMMA SameVerdict ==
  ASSUME SameMarket, NEW k \in Keys
  PROVE  LiquidationOf(k)' =
             LiquidationCheck(FALSE, FALSE, k, positions'[k],
                              CumulativeRate(k.collateralToken)')
  BY Zenon DEF SameMarket, LiquidationOf, LiquidationCheck, HasProfit, Delta,
     MarkPrice, MinPrice, MaxPrice, PositionFee, FundingFee

(* The accrued rate has its type, after the step as well.                  *)
LEMMA RatesTyped ==
  TypeOK => \A t \in Token : /\ CumulativeRate(t) \in Nat
                             /\ cumulativeFundingRates[t] <= CumulativeRate(t)
  BY FundingType

LEMMA LaterRatesTyped ==
  TypeOK' => (\A t \in Token : /\ CumulativeRate(t) \in Nat
                               /\ cumulativeFundingRates[t] <= CumulativeRate(t))'
  BY RatesTyped, PTL

(* A safe position is safe after a step at unchanged prices, time and fees. *)
LEMMA NextSafe ==
  ASSUME IInv, IInv', Quoted, [Next]_vars, SameMarket
  PROVE  \A k \in Keys : Safe(k) => Safe(k)'
  <1> SUFFICES ASSUME NEW k \in Keys, Safe(k), Open(k)'
               PROVE  LiquidationOf(k)'.state = 0
    BY DEF Safe
  <1>1. TypeOK /\ TypeOK' /\ ReservedWithinPool /\ k.collateralToken \in Token
    BY KeyFields DEF IInv
  <1>2. PICK p \in Position : p = positions'[k]
    BY <1>1 DEF TypeOK
  <1>3. p.averagePrice > 0 /\ p.size > 0
    BY <1>2 DEF IInv, PositionShape, Open
  <1>4. PICK rate \in Nat, rate2 \in Nat :
            /\ rate = CumulativeRate(k.collateralToken)
            /\ rate2 = CumulativeRate(k.collateralToken)'
    <2>1. CumulativeRate(k.collateralToken) \in Nat
      BY <1>1, FundingType
    <2>2. CumulativeRate(k.collateralToken)' \in Nat
      BY <1>1, LaterRatesTyped
    <2> QED BY <2>1, <2>2
  <1>5. rate2 <= rate
    <2>1. now' = now
      BY DEF SameMarket
    <2>2. FundingKept(k.collateralToken)
      BY <1>1, NextFunding
    <2> QED BY <1>1, <1>4, <2>1, <2>2, RateKept
  <1>6. p.entryFundingRate <= rate2
    <2>1. /\ p.entryFundingRate <= cumulativeFundingRates'[k.collateralToken]
          /\ p.entryFundingRate \in Nat
          /\ cumulativeFundingRates'[k.collateralToken] \in Nat
      BY <1>1, <1>2 DEF IInv, EntryRateBehind, TypeOK, Position
    <2>2. cumulativeFundingRates'[k.collateralToken]
              <= CumulativeRate(k.collateralToken)'
      BY <1>1, LaterRatesTyped
    <2> QED BY <1>4, <2>1, <2>2
  <1>7. LiquidationOf(k)' = LiquidationCheck(FALSE, FALSE, k, p, rate2)
    BY <1>2, <1>4, SameVerdict, Zenon
  <1>8. CASE positions'[k] = positions[k]
    <2>1. LiquidationCheck(FALSE, FALSE, k, p, rate).state = 0
      <3>1. p = positions[k] /\ Open(k)
        BY <1>2, <1>3, <1>8 DEF Open
      <3> QED BY <1>4, <3>1, Zenon DEF Safe, LiquidationOf
    <2>2. Remaining(FALSE, FALSE, k, p) \in Int
      BY <1>1, <1>3, <1>6, Validated
    <2>3. Remaining(FALSE, FALSE, k, p) <= Remaining(FALSE, FALSE, k, p)
      <3>1. PICK x \in Int : x = Remaining(FALSE, FALSE, k, p)
        BY <2>2, Zenon
      <3>2. x <= x
        OBVIOUS
      <3> QED BY <3>1, <3>2, Zenon
    <2>4. LiquidationCheck(FALSE, FALSE, k, p, rate2).state = 0
      BY <1>1, <1>3, <1>5, <1>6, <2>1, <2>3, StaysValid
    <2> QED BY <1>7, <2>4
  <1>9. CASE ValidPosition(k, positions'[k], CumulativeRate(k.collateralToken))
    <2>1. LiquidationCheck(TRUE, TRUE, k, p, rate).state = 0
      BY <1>2, <1>4, <1>9, Zenon DEF ValidPosition
    <2>2. Remaining(TRUE, TRUE, k, p) <= Remaining(FALSE, FALSE, k, p)
      BY <1>1, <1>3, ValidatedAtWorst
    <2>3. LiquidationCheck(FALSE, FALSE, k, p, rate2).state = 0
      BY <1>1, <1>3, <1>5, <1>6, <2>1, <2>2, StaysValid
    <2> QED BY <1>7, <2>3
  <1>10. positions'[k] # NoPosition
    BY <1>2, <1>3 DEF NoPosition
  <1> QED BY <1>8, <1>9, <1>10, NextRevalidates DEF Revalidated

-----------------------------------------------------------------------------
(* Nothing is booked twice: the surplus of a token never falls.            *)

(* Two quotients rounded down miss at most one of the quotient of the sum. *)
LEMMA QuotientSumWithinOne ==
  ASSUME NEW a \in Nat, NEW b \in Nat, NEW p \in Positive
  PROVE  (a + b) \div p <= (a \div p) + (b \div p) + 1
  BY DEF Positive

Tokens(t, usd) == UsdToTokenMin(TRUE, t, usd)

(* Converting an amount of USD in two parts loses at most one token unit.  *)
LEMMA TokensSum ==
  ASSUME TypeOK, NEW t \in Token, NEW a \in Nat, NEW b \in Nat
  PROVE  /\ Tokens(t, a) \in Nat
         /\ Tokens(t, a) + Tokens(t, b) <= Tokens(t, a + b)
         /\ Tokens(t, a + b) <= Tokens(t, a) + Tokens(t, b) + 1
  <1>1. PICK price \in Positive : price = MaxPrice(TRUE, t)
    BY PriceType
  <1>2. PICK unit \in Positive : unit = TokenUnit[t]
    BY UnitType
  <1>3. \A n : Tokens(t, n) = (n * unit) \div price
    BY <1>1, <1>2, Zenon DEF Tokens, UsdToTokenMin
  <1>4. PICK x \in Nat, y \in Nat : x = a * unit /\ y = b * unit
    BY ProductNat DEF Positive
  <1>5. (a + b) * unit = x + y
    BY <1>4 DEF Positive
  <1>6. /\ x \div price \in Nat
        /\ (x \div price) + (y \div price) <= (x + y) \div price
        /\ (x + y) \div price <= (x \div price) + (y \div price) + 1
    BY QuotientNat, QuotientSum, QuotientSumWithinOne
  <1>7. /\ Tokens(t, a) = x \div price /\ Tokens(t, b) = y \div price
        /\ Tokens(t, a + b) = (x + y) \div price
    BY <1>3, <1>4, <1>5
  <1> QED BY <1>6, <1>7

(* The AMM has no price for a stable token: its flag makes no difference.  *)
LEMMA StableTokens ==
  ASSUME Quoted, NEW t \in Stable, NEW amm \in BOOLEAN, NEW n
  PROVE  UsdToTokenMin(amm, t, n) = Tokens(t, n)
  <1>1. t \in Token
    BY UnitType
  <1>2. prices[t][TRUE] = prices[t][FALSE]
    BY <1>1, TokenAssumption DEF Quoted
  <1>3. MaxPrice(amm, t) = MaxPrice(TRUE, t)
    <2>1. CASE amm = TRUE
      BY <2>1
    <2>2. CASE amm = FALSE
      BY <1>2, <2>2 DEF MaxPrice
    <2> QED BY <2>1, <2>2
  <1> QED BY <1>3, Zenon DEF UsdToTokenMin, Tokens

(* What is recorded and neither pool nor fee.                              *)
Free(t) == tokenBalances[t] - poolAmounts[t] - feeReserves[t]

CollateralOf(t) == [k \in Keys |-> Tokens(t, positions[k].collateral)]
BackedBy(t) == {k \in KeysOn(t) : ~k.isLong}

Kept == \A t \in Token : Surplus(t)' + CollateralRounding(t) >= Surplus(t)

LEMMA SurplusParts ==
  ASSUME NEW t
  PROVE  /\ Surplus(t) = Free(t) - SumFunctionOnSet(CollateralOf(t), BackedBy(t))
         /\ Surplus(t)'
                = Free(t)' - SumFunctionOnSet(CollateralOf(t)', BackedBy(t))
  BY Zenon DEF Surplus, ShortCollateral, Free, CollateralOf, BackedBy, Tokens

(* The collaterals of shorts in tokens, before and after.                  *)
LEMMA CollateralType ==
  ASSUME TypeOK, UNCHANGED prices, positions' \in [Keys -> Position],
         NEW t \in Token
  PROVE  /\ \A k \in Keys : /\ CollateralOf(t)[k] \in Int
                            /\ CollateralOf(t)'[k] \in Int
                            /\ positions'[k] = positions[k]
                                  => CollateralOf(t)'[k] = CollateralOf(t)[k]
         /\ \A k \in Keys :
               /\ CollateralOf(t)[k] = Tokens(t, positions[k].collateral)
               /\ CollateralOf(t)'[k] = Tokens(t, positions'[k].collateral)
         /\ BackedBy(t) \subseteq Keys /\ IsFiniteSet(BackedBy(t))
         /\ SumFunctionOnSet(CollateralOf(t), BackedBy(t)) \in Int
  <1>1. \A n : Tokens(t, n)' = Tokens(t, n)
    BY Zenon DEF Tokens, UsdToTokenMin, MaxPrice
  <1>2. \A k \in Keys :
           /\ CollateralOf(t)[k] = Tokens(t, positions[k].collateral)
           /\ CollateralOf(t)'[k] = Tokens(t, positions'[k].collateral)
    <2>1. CollateralOf(t)' = [k \in Keys |-> Tokens(t, positions'[k].collateral)]
      BY Zenon DEF CollateralOf, Tokens, UsdToTokenMin, MaxPrice
    <2> QED BY <2>1, Zenon DEF CollateralOf
  <1>3. \A n \in Nat : Tokens(t, n) \in Nat
    BY TokensSum
  <1>4. \A k \in Keys : positions[k].collateral \in Nat
                        /\ positions'[k].collateral \in Nat
    BY DEF TypeOK, Position
  <1>5. \A k \in Keys : CollateralOf(t)[k] \in Nat /\ CollateralOf(t)'[k] \in Nat
    BY <1>2, <1>3, <1>4
  <1>6. BackedBy(t) \subseteq Keys /\ IsFiniteSet(BackedBy(t))
    BY KeysFinite, FS_Subset DEF BackedBy
  <1>7. SumFunctionOnSet(CollateralOf(t), BackedBy(t)) \in Int
    BY <1>5, <1>6, SumType
  <1>8. \A k \in Keys : positions'[k] = positions[k]
                           => CollateralOf(t)'[k] = CollateralOf(t)[k]
    BY <1>2, Zenon
  <1>9. \A k \in Keys : CollateralOf(t)[k] \in Int /\ CollateralOf(t)'[k] \in Int
    BY <1>5
  <1> QED BY <1>2, <1>6, <1>7, <1>8, <1>9, Zenon

LEMMA RoundingType == \A t : CollateralRounding(t) \in Nat
  BY DEF CollateralRounding

LEMMA FreeType == TypeOK => \A t \in Token : Free(t) \in Int
  <1> SUFFICES ASSUME TypeOK, NEW t \in Token PROVE Free(t) \in Int
    OBVIOUS
  <1>1. /\ tokenBalances[t] \in Nat /\ poolAmounts[t] \in Nat
        /\ feeReserves[t] \in Nat
    BY UnitType DEF TypeOK
  <1> QED BY <1>1 DEF Free

LEMMA LaterFreeType == TypeOK' => (\A t \in Token : Free(t) \in Int)'
  BY FreeType, PTL

(* A step that leaves the positions alone and frees no tokens on paper.    *)
LEMMA KeptWithoutPositions ==
  ASSUME TypeOK, TypeOK', UNCHANGED <<prices, positions>>,
         \A t \in Token : Free(t)' >= Free(t)
  PROVE  Kept
  <1> SUFFICES ASSUME NEW t \in Token
               PROVE  Surplus(t)' + CollateralRounding(t) >= Surplus(t)
    BY DEF Kept
  <1>1. PICK x \in Int, y \in Int : x = Free(t) /\ y = Free(t)'
    BY FreeType, LaterFreeType
  <1>2. SumFunctionOnSet(CollateralOf(t)', BackedBy(t))
            = SumFunctionOnSet(CollateralOf(t), BackedBy(t))
    <2>1. positions' \in [Keys -> Position]
      BY DEF TypeOK
    <2>2. \A k \in BackedBy(t) : /\ CollateralOf(t)[k] \in Int
                                 /\ CollateralOf(t)'[k] = CollateralOf(t)[k]
      BY <2>1, CollateralType
    <2>3. IsFiniteSet(BackedBy(t))
      BY <2>1, CollateralType
    <2> QED BY <2>2, <2>3, SumEqual
  <1>3. PICK s \in Int : s = SumFunctionOnSet(CollateralOf(t), BackedBy(t))
    <2>1. positions' \in [Keys -> Position]
      BY DEF TypeOK
    <2> QED BY <2>1, CollateralType
  <1>4. Surplus(t) = x - s /\ Surplus(t)' = y - s
    BY <1>1, <1>2, <1>3, SurplusParts
  <1>5. PICK n \in Nat : n = CollateralRounding(t)
    BY RoundingType
  <1> QED BY <1>1, <1>4, <1>5

(* A step that changes one position: what it frees covers what the          *)
(* collateral of a short grows by, up to one unit.                         *)
Covered(k, p) ==
    LET c == k.collateralToken
    IN  IF k.isLong THEN Free(c)' >= Free(c)
        ELSE Free(c)' + Tokens(c, positions[k].collateral) + 1
                 >= Free(c) + Tokens(c, p.collateral)

LEMMA KeptWithPosition ==
  ASSUME TypeOK, TypeOK', UNCHANGED prices, NEW k \in Keys, NEW p \in Position,
         positions' = [positions EXCEPT ![k] = p],
         \A t \in Token \ {k.collateralToken} : Free(t)' >= Free(t),
         Covered(k, p)
  PROVE  Kept
  <1> SUFFICES ASSUME NEW t \in Token
               PROVE  Surplus(t)' + CollateralRounding(t) >= Surplus(t)
    BY DEF Kept
  <1>1. PICK x \in Int, y \in Int : x = Free(t) /\ y = Free(t)'
    BY FreeType, LaterFreeType
  <1>2. PICK n \in Nat : n = CollateralRounding(t)
    BY RoundingType
  <1>3. /\ positions' \in [Keys -> Position] /\ positions'[k] = p
        /\ \A j \in Keys \ {k} : positions'[j] = positions[j]
    BY DEF TypeOK
  <1>4. PICK f, g : f = CollateralOf(t) /\ g = CollateralOf(t)'
    OBVIOUS
  <1>5. /\ \A j \in Keys : f[j] \in Int /\ g[j] \in Int
        /\ \A j \in Keys \ {k} : g[j] = f[j]
        /\ f[k] = Tokens(t, positions[k].collateral)
        /\ g[k] = Tokens(t, p.collateral)
        /\ BackedBy(t) \in SUBSET Keys
        /\ SumFunctionOnSet(f, BackedBy(t)) \in Int
    BY <1>3, <1>4, CollateralType
  <1>6. PICK s \in Int : s = SumFunctionOnSet(f, BackedBy(t))
    BY <1>5
  <1>7. SumFunctionOnSet(g, BackedBy(t))
            = s + (IF k \in BackedBy(t) THEN g[k] - f[k] ELSE 0)
    BY <1>5, <1>6, SumFollows
  <1>8. /\ Surplus(t) = x - s
        /\ Surplus(t)' = y - SumFunctionOnSet(g, BackedBy(t))
    BY <1>1, <1>4, <1>6, SurplusParts
  <1>9. k \in BackedBy(t) <=> ~k.isLong /\ t = k.collateralToken
    BY DEF BackedBy, KeysOn
  <1>10. CASE k \in BackedBy(t)
    <2>1. n = 1
      BY <1>2, <1>9, <1>10, KeyFields DEF CollateralRounding
    <2>2. y + f[k] + 1 >= x + g[k]
      BY <1>1, <1>5, <1>9, <1>10 DEF Covered
    <2>3. f[k] \in Int /\ g[k] \in Int
      BY <1>5
    <2>4. SumFunctionOnSet(g, BackedBy(t)) = s + (g[k] - f[k])
      BY <1>7, <1>10
    <2> QED BY <1>2, <1>8, <2>1, <2>2, <2>3, <2>4
  <1>11. CASE k \notin BackedBy(t)
    <2>1. y >= x
      BY <1>1, <1>9, <1>11 DEF Covered
    <2>2. SumFunctionOnSet(g, BackedBy(t)) = s
      BY <1>6, <1>7, <1>11
    <2> QED BY <1>2, <1>8, <2>1, <2>2
  <1> QED BY <1>10, <1>11

(* What a token's free balance changes by when each of its ledgers does.   *)
FreeMoves(t, recorded, pool, fee) ==
    /\ tokenBalances'[t] >= tokenBalances[t] + recorded
    /\ poolAmounts'[t] = poolAmounts[t] + pool
    /\ feeReserves'[t] = feeReserves[t] + fee

LEMMA FreeAfterMoves ==
  ASSUME TypeOK, TypeOK', NEW t \in Token,
         NEW recorded \in Int, NEW pool \in Int, NEW fee \in Int,
         FreeMoves(t, recorded, pool, fee)
  PROVE  Free(t)' >= Free(t) + recorded - pool - fee
  <1>1. /\ tokenBalances[t] \in Nat /\ tokenBalances'[t] \in Nat
        /\ poolAmounts[t] \in Nat /\ poolAmounts'[t] \in Nat
        /\ feeReserves[t] \in Nat /\ feeReserves'[t] \in Nat
    BY UnitType DEF TypeOK
  <1> QED BY <1>1 DEF Free, FreeMoves

(* The ledgers of the other tokens stand still.                            *)
OthersFree(c) ==
    \A t \in Token \ {c} : /\ tokenBalances'[t] = tokenBalances[t]
                           /\ poolAmounts'[t] = poolAmounts[t]
                           /\ feeReserves'[t] = feeReserves[t]

LEMMA OthersStayFree ==
  ASSUME TypeOK, NEW c, OthersFree(c)
  PROVE  \A t \in Token \ {c} : Free(t)' >= Free(t)
  <1> SUFFICES ASSUME NEW t \in Token \ {c} PROVE Free(t)' >= Free(t)
    OBVIOUS
  <1>1. Free(t)' = Free(t)
    BY DEF OthersFree, Free
  <1>2. Free(t) \in Int
    BY FreeType
  <1> QED BY <1>1, <1>2

(* buyUSDG books what came in to the pool and the fees.                    *)
LEMMA BuyKeeps ==
  ASSUME IInv, TypeOK', NEW t \in Token, BuyUSDG(t, 0)
  PROVE  Kept
  <1>1. PICK amount, after :
            /\ amount = TransferIn(t)
            /\ feeReserves' = [feeReserves EXCEPT ![t] = @ + (amount - after)]
            /\ poolAmounts' = [poolAmounts EXCEPT ![t] = @ + after]
            /\ tokenBalances' = [tokenBalances EXCEPT ![t] = balance'[t]]
            /\ balance' = [balance EXCEPT ![t] = @ + 0]
            /\ UNCHANGED <<prices, positions>>
            /\ after \in 0..amount
    <2> DEFINE amount == TransferIn(t) + 0
               bps == FeeBasisPoints(t, usdgAmounts[t], usdgSupply,
                          UsdgValue(t, amount), fees.mintBurnFeeBasisPoints,
                          fees.taxBasisPoints, TRUE)
               after == AfterFees(amount, bps)
    <2>1. /\ feeReserves' = [feeReserves EXCEPT ![t] = @ + (amount - after)]
          /\ poolAmounts' = [poolAmounts EXCEPT ![t] = @ + after]
          /\ tokenBalances' = [tokenBalances EXCEPT ![t] = balance'[t]]
          /\ balance' = [balance EXCEPT ![t] = @ + 0]
          /\ UNCHANGED <<prices, positions>> /\ bps <= BPS
      BY DEF BuyUSDG, positionVars, envVars
    <2>2. TypeOK /\ BalancesRecorded /\ t \in Asset /\ TransferIn(t) \in Nat
      BY UnitType, TransferInType DEF IInv
    <2>3. amount = TransferIn(t) /\ amount \in Nat
      BY <2>2
    <2>4. bps \in Nat
      <3>1. UsdgValue(t, amount) \in Nat
        BY <2>2, <2>3, UsdgValueType
      <3>2. usdgAmounts[t] \in Nat /\ usdgSupply \in Nat
        BY <2>2 DEF TypeOK
      <3> HIDE DEF amount
      <3> QED BY <2>2, <3>1, <3>2, FeeTypes, FeeBasisPointsType
    <2> HIDE DEF bps
    <2>5. after \in 0..amount
      <3>1. bps \in 0..BPS
        BY <2>1, <2>4, ParameterAssumption DEF Positive
      <3> HIDE DEF amount
      <3> QED BY <2>3, <3>1, AfterFeesBound
    <2> HIDE DEF amount, after
    <2> QED BY <2>1, <2>3, <2>5
  <1>2. TypeOK /\ t \in Asset
    BY UnitType DEF IInv
  <1>3. amount \in Nat /\ after \in Nat /\ amount = balance[t] - tokenBalances[t]
    BY <1>1, <1>2, TransferInType DEF TransferIn, IInv
  <1>4. balance[t] \in Nat /\ tokenBalances[t] \in Nat
    BY <1>2 DEF TypeOK
  <1>5. FreeMoves(t, amount, after, amount - after)
    <2>1. /\ tokenBalances'[t] = balance[t]
          /\ poolAmounts'[t] = poolAmounts[t] + after
          /\ feeReserves'[t] = feeReserves[t] + (amount - after)
      BY <1>1, <1>2, <1>4 DEF TypeOK
    <2> QED BY <1>3, <1>4, <2>1 DEF FreeMoves
  <1>6. Free(t)' >= Free(t)
    <2>1. Free(t)' >= Free(t) + amount - after - (amount - after)
      BY <1>2, <1>3, <1>5, FreeAfterMoves
    <2>2. Free(t) \in Int /\ Free(t)' \in Int
      BY <1>2, FreeType, LaterFreeType
    <2> QED BY <1>3, <2>1, <2>2
  <1>7. OthersFree(t)
    BY <1>1, <1>2, UnitType DEF OthersFree, TypeOK
  <1> QED BY <1>1, <1>2, <1>6, <1>7, OthersStayFree, KeptWithoutPositions

(* directPoolDeposit books what came in to the pool.                       *)
LEMMA DepositKeeps ==
  ASSUME IInv, TypeOK', NEW t \in Token, DirectPoolDeposit(t)
  PROVE  Kept
  <1>1. TypeOK /\ t \in Asset
    BY UnitType DEF IInv
  <1>2. PICK amount : amount = TransferIn(t)
    OBVIOUS
  <1>3. amount \in Nat /\ amount = balance[t] - tokenBalances[t]
    BY <1>1, <1>2, TransferInType DEF TransferIn
  <1>4. /\ poolAmounts' = [poolAmounts EXCEPT ![t] = @ + amount]
        /\ tokenBalances' = [tokenBalances EXCEPT ![t] = balance[t]]
        /\ UNCHANGED <<feeReserves, prices, positions>>
    BY <1>2 DEF DirectPoolDeposit, positionVars, envVars
  <1>5. FreeMoves(t, amount, amount, 0)
    BY <1>1, <1>3, <1>4 DEF FreeMoves, TypeOK
  <1>6. Free(t)' >= Free(t)
    <2>1. Free(t)' >= Free(t) + amount - amount - 0
      BY <1>1, <1>3, <1>5, FreeAfterMoves
    <2>2. Free(t) \in Int /\ Free(t)' \in Int
      BY <1>1, FreeType, LaterFreeType
    <2> QED BY <1>3, <2>1, <2>2
  <1>7. OthersFree(t)
    BY <1>1, <1>4, UnitType DEF OthersFree, TypeOK
  <1> QED BY <1>1, <1>4, <1>6, <1>7, OthersStayFree, KeptWithoutPositions

(* sellUSDG pays out, or keeps as a fee, what it takes off the pool.       *)
LEMMA SellKeeps ==
  ASSUME IInv, TypeOK', NEW t \in Token, SellUSDG(t, 0, 0)
  PROVE  Kept
  <1> DEFINE usdg == TransferIn(USDG) + 0
             redemption == RedemptionAmount(t, usdg)
             debt == DecreasedUsdg(usdgAmounts[t], usdg)
             bps == FeeBasisPoints(t, debt, usdgSupply + 0 - usdg, usdg,
                        fees.mintBurnFeeBasisPoints, fees.taxBasisPoints, FALSE)
             amountOut == AfterFees(redemption, bps)
  <1>1. TypeOK /\ t \in Asset /\ t # USDG
    BY UnitType DEF IInv
  <1>2. usdg \in Nat /\ usdg <= usdgSupply
    <2>1. TransferIn(USDG) \in Nat /\ TransferIn(USDG) <= balance[USDG]
          /\ balance[USDG] <= usdgSupply
      BY TransferInType, UnitType DEF IInv, BalancesRecorded
    <2> QED BY <1>1, <2>1, UnitType DEF TypeOK
  <1> HIDE DEF usdg
  <1>3. redemption \in Nat
    BY <1>1, <1>2, RedemptionType
  <1> HIDE DEF redemption
  <1>4. bps \in Nat
    <2>1. debt \in Nat /\ usdgSupply + 0 - usdg \in Nat
      BY <1>1, <1>2 DEF DecreasedUsdg, TypeOK
    <2> HIDE DEF debt
    <2> QED BY <1>1, <1>2, <2>1, FeeTypes, FeeBasisPointsType
  <1> HIDE DEF bps
  <1>5. /\ bps <= BPS
        /\ poolAmounts' = [poolAmounts EXCEPT ![t] = @ - redemption]
        /\ feeReserves' = [feeReserves EXCEPT
                               ![t] = @ + (redemption - amountOut)]
        /\ balance' = [balance EXCEPT ![USDG] = @ + 0 - usdg,
                                      ![t] = @ - amountOut]
        /\ tokenBalances' = [tokenBalances EXCEPT ![USDG] = balance'[USDG],
                                                  ![t] = balance'[t]]
        /\ UNCHANGED <<prices, positions>>
    BY DEF SellUSDG, positionVars, envVars, usdg, redemption, debt, bps
  <1>6. amountOut \in Nat
    <2>1. bps \in 0..BPS
      BY <1>4, <1>5, ParameterAssumption DEF Positive
    <2> QED BY <1>3, <2>1, AfterFeesBound
  <1> HIDE DEF amountOut
  <1>7. FreeMoves(t, 0 - amountOut, 0 - redemption, redemption - amountOut)
    <2>1. tokenBalances'[t] = balance[t] - amountOut
      BY <1>1, <1>5, UnitType DEF TypeOK
    <2>2. /\ tokenBalances[t] <= balance[t] /\ tokenBalances[t] \in Nat
          /\ balance[t] \in Nat /\ poolAmounts[t] \in Nat
      BY <1>1 DEF IInv, BalancesRecorded, TypeOK
    <2>3. /\ poolAmounts'[t] = poolAmounts[t] - redemption
          /\ feeReserves'[t] = feeReserves[t] + (redemption - amountOut)
      BY <1>1, <1>5 DEF TypeOK
    <2> QED BY <1>3, <1>6, <2>1, <2>2, <2>3 DEF FreeMoves
  <1>8. Free(t)' >= Free(t)
    <2>1. PICK a \in Int, b \in Int, c \in Int :
              a = 0 - amountOut /\ b = 0 - redemption
              /\ c = redemption - amountOut
      BY <1>3, <1>6
    <2>2. Free(t)' >= Free(t) + a - b - c
      BY <1>1, <1>7, <2>1, FreeAfterMoves
    <2>3. Free(t) \in Int /\ Free(t)' \in Int
      BY <1>1, FreeType, LaterFreeType
    <2> QED BY <1>3, <1>6, <2>1, <2>2, <2>3
  <1>9. OthersFree(t)
    BY <1>1, <1>5, UnitType DEF OthersFree, TypeOK
  <1> QED BY <1>1, <1>5, <1>8, <1>9, OthersStayFree, KeptWithoutPositions

(* So does a swap, for both of its tokens.                                 *)
LEMMA SwapKeeps ==
  ASSUME IInv, TypeOK', NEW tokenIn \in Token, NEW tokenOut \in Token,
         Swap(tokenIn, tokenOut)
  PROVE  Kept
  <1> DEFINE amountIn == TransferIn(tokenIn)
             amountOut == AdjustForDecimals(
                 (amountIn * MinPrice(TRUE, tokenIn))
                     \div MaxPrice(TRUE, tokenOut), tokenIn, tokenOut)
             usdg == UsdgValue(tokenIn, amountIn)
             bps == SwapFeeBasisPoints(tokenIn, tokenOut, usdg)
             paid == AfterFees(amountOut, bps)
  <1>1. TypeOK /\ tokenIn \in Asset /\ tokenOut \in Asset
    BY UnitType DEF IInv
  <1>2. amountIn \in Nat /\ amountIn = balance[tokenIn] - tokenBalances[tokenIn]
    BY <1>1, TransferInType DEF TransferIn
  <1> HIDE DEF amountIn
  <1>3. amountOut \in Nat
    <2>1. /\ MinPrice(TRUE, tokenIn) \in Positive
          /\ MaxPrice(TRUE, tokenOut) \in Positive
          /\ TokenUnit[tokenIn] \in Positive /\ TokenUnit[tokenOut] \in Positive
      BY <1>1, PriceType, UnitType
    <2>2. (amountIn * MinPrice(TRUE, tokenIn)) \div MaxPrice(TRUE, tokenOut)
              \in Nat
      BY <1>2, <2>1, ProductNat, QuotientNat DEF Positive
    <2> QED
      BY <2>1, <2>2, ProductNat, QuotientNat DEF AdjustForDecimals, Positive
  <1> HIDE DEF amountOut
  <1>4. bps \in Nat
    BY <1>1, <1>2, UsdgValueType, SwapFeeType
  <1> HIDE DEF usdg, bps
  <1>5. /\ bps <= BPS /\ tokenIn # tokenOut
        /\ feeReserves' = [feeReserves EXCEPT
                               ![tokenOut] = @ + (amountOut - paid)]
        /\ poolAmounts' = [poolAmounts EXCEPT ![tokenIn] = @ + amountIn,
                                              ![tokenOut] = @ - amountOut]
        /\ balance' = [balance EXCEPT ![tokenOut] = @ - paid]
        /\ tokenBalances' = [tokenBalances EXCEPT
                                ![tokenIn] = balance[tokenIn],
                                ![tokenOut] = balance'[tokenOut]]
        /\ UNCHANGED <<prices, positions>>
    BY DEF Swap, positionVars, envVars, amountIn, amountOut, usdg, bps
  <1>6. paid \in Nat
    <2>1. bps \in 0..BPS
      BY <1>4, <1>5, ParameterAssumption DEF Positive
    <2> QED BY <1>3, <2>1, AfterFeesBound
  <1> HIDE DEF paid
  <1>7. FreeMoves(tokenIn, amountIn, amountIn, 0)
    BY <1>1, <1>2, <1>5 DEF FreeMoves, TypeOK
  <1>8. FreeMoves(tokenOut, 0 - paid, 0 - amountOut, amountOut - paid)
    <2>1. tokenBalances'[tokenOut] = balance[tokenOut] - paid
      BY <1>1, <1>5 DEF TypeOK
    <2>2. /\ tokenBalances[tokenOut] <= balance[tokenOut]
          /\ tokenBalances[tokenOut] \in Nat
          /\ balance[tokenOut] \in Nat /\ poolAmounts[tokenOut] \in Nat
      BY <1>1 DEF IInv, BalancesRecorded, TypeOK
    <2>3. /\ poolAmounts'[tokenOut] = poolAmounts[tokenOut] - amountOut
          /\ feeReserves'[tokenOut] = feeReserves[tokenOut] + (amountOut - paid)
      BY <1>1, <1>5 DEF TypeOK
    <2> QED BY <1>3, <1>6, <2>1, <2>2, <2>3 DEF FreeMoves
  <1>9. \A t \in Token : Free(t) \in Int /\ Free(t)' \in Int
    BY <1>1, FreeType, LaterFreeType
  <1>10. Free(tokenIn)' >= Free(tokenIn)
    <2>1. Free(tokenIn)' >= Free(tokenIn) + amountIn - amountIn - 0
      BY <1>1, <1>2, <1>7, FreeAfterMoves
    <2> QED BY <1>2, <1>9, <2>1
  <1>11. Free(tokenOut)' >= Free(tokenOut)
    <2>1. PICK a \in Int, b \in Int, c \in Int :
              a = 0 - paid /\ b = 0 - amountOut /\ c = amountOut - paid
      BY <1>3, <1>6
    <2>2. Free(tokenOut)' >= Free(tokenOut) + a - b - c
      BY <1>1, <1>8, <2>1, FreeAfterMoves
    <2> QED BY <1>3, <1>6, <1>9, <2>1, <2>2
  <1>12. \A t \in Token \ {tokenIn, tokenOut} : Free(t)' = Free(t)
    <2>1. \A t \in Token \ {tokenIn, tokenOut} :
             /\ tokenBalances'[t] = tokenBalances[t]
             /\ poolAmounts'[t] = poolAmounts[t]
             /\ feeReserves'[t] = feeReserves[t]
      BY <1>1, <1>5, UnitType DEF TypeOK
    <2> QED BY <2>1 DEF Free
  <1>13. \A t \in Token : Free(t)' >= Free(t)
    <2> SUFFICES ASSUME NEW t \in Token PROVE Free(t)' >= Free(t)
      OBVIOUS
    <2>1. CASE t \in {tokenIn, tokenOut}
      BY <1>10, <1>11, <2>1
    <2>2. CASE t \notin {tokenIn, tokenOut}
      BY <1>9, <1>12, <2>2
    <2> QED BY <2>1, <2>2
  <1> QED BY <1>1, <1>5, <1>13, KeptWithoutPositions

(* The fees withdrawn leave the books and the Vault together.              *)
LEMMA WithdrawKeeps ==
  ASSUME IInv, TypeOK', NEW t \in Token, WithdrawFees(t)
  PROVE  Kept
  <1>1. TypeOK /\ t \in Asset
    BY UnitType DEF IInv
  <1>2. PICK fee \in Nat : fee = feeReserves[t]
    BY <1>1 DEF TypeOK
  <1>3. /\ balance' = [balance EXCEPT ![t] = @ - fee]
        /\ tokenBalances' = [tokenBalances EXCEPT ![t] = balance'[t]]
        /\ feeReserves' = [feeReserves EXCEPT ![t] = 0]
        /\ UNCHANGED <<poolAmounts, prices, positions>>
    BY <1>2 DEF WithdrawFees, positionVars, envVars
  <1>4. FreeMoves(t, 0 - fee, 0, 0 - fee)
    <2>1. /\ tokenBalances[t] <= balance[t] /\ tokenBalances[t] \in Nat
          /\ balance[t] \in Nat /\ poolAmounts[t] \in Nat
      BY <1>1 DEF IInv, BalancesRecorded, TypeOK
    <2>2. tokenBalances'[t] = balance[t] - fee /\ feeReserves'[t] = 0
      BY <1>1, <1>3 DEF TypeOK
    <2> QED BY <1>2, <1>3, <2>1, <2>2 DEF FreeMoves
  <1>5. Free(t)' >= Free(t)
    <2>1. PICK a \in Int : a = 0 - fee
      BY <1>2
    <2>2. Free(t)' >= Free(t) + a - 0 - a
      BY <1>1, <1>4, <2>1, FreeAfterMoves
    <2>3. Free(t) \in Int /\ Free(t)' \in Int
      BY <1>1, FreeType, LaterFreeType
    <2> QED BY <2>2, <2>3
  <1>6. OthersFree(t)
    BY <1>1, <1>3, UnitType DEF OthersFree, TypeOK
  <1> QED BY <1>1, <1>3, <1>5, <1>6, OthersStayFree, KeptWithoutPositions

(* The feed's lowest price is not above its highest.                       *)
LEMMA SpreadOrdered ==
  ASSUME TypeOK, Quoted, NEW t \in Token
  PROVE  MinPrice(TRUE, t) <= MaxPrice(TRUE, t)
  <1>1. /\ prices[t][TRUE].min <= prices[t][FALSE].min
        /\ prices[t][FALSE].min <= prices[t][FALSE].max
        /\ prices[t][FALSE].max <= prices[t][TRUE].max
    BY TokenAssumption DEF Quoted
  <1>2. PICK a \in Positive, b \in Positive, low \in Positive, high \in Positive :
            /\ a = MinPrice(FALSE, t) /\ b = MaxPrice(FALSE, t)
            /\ low = MinPrice(TRUE, t) /\ high = MaxPrice(TRUE, t)
    BY PriceType
  <1>3. low <= a /\ a <= b /\ b <= high
    BY <1>1, <1>2, Zenon DEF MinPrice, MaxPrice
  <1>4. low <= high
    BY <1>3 DEF Positive
  <1> QED BY <1>2, <1>4

(* A deposit is never worth more tokens than were deposited.               *)
LEMMA DepositWorth ==
  ASSUME TypeOK, Quoted, NEW t \in Token, NEW n \in Nat
  PROVE  Tokens(t, TokenToUsdMin(TRUE, t, n)) <= n
  <1>1. PICK low \in Positive, high \in Positive, unit \in Positive :
            low = MinPrice(TRUE, t) /\ high = MaxPrice(TRUE, t)
            /\ unit = TokenUnit[t]
    BY PriceType, UnitType
  <1>2. low <= high
    BY <1>1, SpreadOrdered
  <1>3. PICK x \in Nat : x = n * low
    BY ProductNat DEF Positive
  <1>4. PICK usd \in Nat : usd = x \div unit
    BY QuotientNat
  <1>5. PICK y \in Nat : y = usd * unit
    BY ProductNat DEF Positive
  <1>6. y <= x
    BY <1>4, <1>5, DivisionBounds
  <1>7. y \div high <= x \div high
    BY <1>6, QuotientMonotone
  <1>8. x \div high <= n
    <2>1. low \in Nat
      BY DEF Positive
    <2>2. (n * low) \div high <= n
      BY <1>2, <2>1, ShareBound
    <2> QED BY <1>3, <2>2
  <1>9. Tokens(t, TokenToUsdMin(TRUE, t, n)) = y \div high
    BY <1>1, <1>3, <1>4, <1>5, Zenon DEF Tokens, UsdToTokenMin, TokenToUsdMin
  <1>10. PICK v \in Nat, w \in Nat : v = x \div high /\ w = y \div high
    BY QuotientNat
  <1>11. w <= v /\ v <= n
    BY <1>7, <1>8, <1>10, Zenon
  <1>12. w <= n
    BY <1>11
  <1> QED BY <1>9, <1>10, <1>12, Zenon

(* The collateral of a short grows by no more than the deposit without its *)
(* fee; a long's deposit and fee are booked whole.                         *)
LEMMA IncreaseKeeps ==
  ASSUME IInv, TypeOK', Quoted, NEW s, NEW k \in Keys, NEW d \in Nat,
         IncreasePosition(s, k, d)
  PROVE  Kept
  <1>1. PICK c : c = k.collateralToken
    OBVIOUS
  <1>2. /\ TypeOK /\ EntryRateBehind /\ c \in Token /\ c \in Asset
    BY <1>1, KeyFields, UnitType DEF IInv
  <1>3. PICK amount \in Nat : /\ amount = TransferIn(c)
                              /\ amount = balance[c] - tokenBalances[c]
    BY <1>2, TransferInType DEF TransferIn
  <1>4. PICK fee \in Nat : fee = MarginFee(k, d)
    BY <1>2, MarginFeeType
  <1>5. PICK charge \in Nat : charge = Tokens(c, fee)
    BY <1>2, TokensSum
  <1>6. PICK usd \in Nat : usd = TokenToUsdMin(TRUE, c, amount)
    BY <1>2, ConversionType
  <1>7. /\ Increased(k, d).collateral >= 0 /\ Increased(k, d).size > 0
        /\ positions' = [positions EXCEPT ![k] = Increased(k, d)]
        /\ feeReserves' = [feeReserves EXCEPT ![c] = @ + charge]
        /\ tokenBalances' = [tokenBalances EXCEPT ![c] = balance[c]]
        /\ poolAmounts' = [poolAmounts EXCEPT
               ![c] = IF k.isLong THEN poolAmounts[c] + amount - charge
                      ELSE poolAmounts[c]]
        /\ UNCHANGED prices
    BY <1>1, <1>3, <1>4, <1>5, Zenon DEF IncreasePosition, Tokens, envVars
  <1>8. PICK p \in Position : p = Increased(k, d)
    BY <1>7, IncreasedType
  <1>9. p.collateral = positions[k].collateral + usd - fee
    BY <1>1, <1>3, <1>4, <1>6, <1>8, Zenon DEF Increased
  <1>10. PICK old \in Nat, new \in Nat :
             old = positions[k].collateral /\ new = p.collateral
    BY <1>2 DEF TypeOK, Position
  <1>11. FreeMoves(c, amount, IF k.isLong THEN amount - charge ELSE 0, charge)
    <2>1. poolAmounts[c] \in Nat /\ tokenBalances[c] \in Nat
          /\ balance[c] \in Nat
      BY <1>2 DEF TypeOK
    <2>2. /\ tokenBalances'[c] = balance[c]
          /\ feeReserves'[c] = feeReserves[c] + charge
          /\ poolAmounts'[c] = IF k.isLong THEN poolAmounts[c] + amount - charge
                               ELSE poolAmounts[c]
      BY <1>2, <1>7 DEF TypeOK
    <2>3. poolAmounts'[c] = poolAmounts[c]
                            + (IF k.isLong THEN amount - charge ELSE 0)
      <3>1. CASE k.isLong
        BY <2>1, <2>2, <3>1
      <3>2. CASE ~k.isLong
        BY <2>1, <2>2, <3>2
      <3> QED BY <3>1, <3>2
    <2> QED BY <1>3, <2>1, <2>2, <2>3 DEF FreeMoves
  <1>12. PICK x \in Int, y \in Int : x = Free(c) /\ y = Free(c)'
    BY <1>2, FreeType, LaterFreeType
  <1>13. ASSUME k.isLong PROVE Covered(k, p)
    <2>1. PICK pool \in Int : pool = amount - charge
      OBVIOUS
    <2>2. FreeMoves(c, amount, pool, charge)
      BY <1>11, <1>13, <2>1
    <2>3. y >= x + amount - pool - charge
      BY <1>2, <1>12, <2>2, FreeAfterMoves
    <2>4. y >= x
      BY <2>1, <2>3
    <2> QED BY <1>1, <1>12, <1>13, <2>4 DEF Covered
  <1>14. ASSUME ~k.isLong PROVE Covered(k, p)
    <2>1. FreeMoves(c, amount, 0, charge)
      BY <1>11, <1>14
    <2>2. y >= x + amount - 0 - charge
      BY <1>2, <1>12, <2>1, FreeAfterMoves
    <2>3. old + usd = new + fee
      BY <1>9, <1>10
    <2>4. PICK o \in Nat, n \in Nat, u \in Nat, w \in Nat :
              /\ o = Tokens(c, old) /\ n = Tokens(c, new)
              /\ u = Tokens(c, usd) /\ w = Tokens(c, old + usd)
      <3>1. \A m \in Nat : Tokens(c, m) \in Nat
        BY <1>2, TokensSum
      <3>2. old + usd \in Nat
        OBVIOUS
      <3> QED BY <3>1, <3>2
    <2>5. w <= o + u + 1
      BY <1>2, <2>4, TokensSum
    <2>6. n + charge <= w
      BY <1>2, <1>5, <2>3, <2>4, TokensSum
    <2>7. u <= amount
      BY <1>2, <1>6, <2>4, DepositWorth
    <2>8. y + o + 1 >= x + n
      BY <2>2, <2>5, <2>6, <2>7
    <2> QED BY <1>1, <1>10, <1>12, <1>14, <2>4, <2>8 DEF Covered
  <1>15. Covered(k, p)
    BY <1>13, <1>14
  <1>16. OthersFree(c)
    BY <1>2, <1>7, UnitType DEF OthersFree, TypeOK
  <1>17. \A t \in Token \ {k.collateralToken} : Free(t)' >= Free(t)
    BY <1>1, <1>2, <1>16, OthersStayFree
  <1> QED BY <1>2, <1>7, <1>8, <1>15, <1>17, KeptWithPosition

(* Four parts of an amount of USD and the amount itself, as tokens.        *)
LEMMA FourParts ==
  ASSUME TypeOK, NEW t \in Token, NEW a \in Nat, NEW b \in Nat,
         NEW w \in Nat, NEW x \in Nat, NEW y \in Nat, NEW z \in Nat,
         a + b = w + (x + (y + z))
  PROVE  Tokens(t, w) + Tokens(t, x) + Tokens(t, y) + Tokens(t, z)
             <= Tokens(t, a) + Tokens(t, b) + 1
  <1>1. \A m \in Nat : Tokens(t, m) \in Nat
    BY TokensSum
  <1>2. PICK yz \in Nat, xyz \in Nat, all \in Nat :
            yz = y + z /\ xyz = x + yz /\ all = w + xyz
    OBVIOUS
  <1>3. PICK ta \in Nat, tb \in Nat, tw \in Nat, tx \in Nat, ty \in Nat,
             tz \in Nat, tyz \in Nat, txyz \in Nat, tall \in Nat :
            /\ ta = Tokens(t, a) /\ tb = Tokens(t, b) /\ tw = Tokens(t, w)
            /\ tx = Tokens(t, x) /\ ty = Tokens(t, y) /\ tz = Tokens(t, z)
            /\ tyz = Tokens(t, yz) /\ txyz = Tokens(t, xyz)
            /\ tall = Tokens(t, all)
    BY <1>1
  <1>4. ty + tz <= tyz
    BY <1>2, <1>3, TokensSum
  <1>5. tx + tyz <= txyz
    BY <1>2, <1>3, TokensSum
  <1>6. tw + txyz <= tall
    BY <1>2, <1>3, TokensSum
  <1>7. tall <= ta + tb + 1
    <2>1. all = a + b
      BY <1>2
    <2> QED BY <1>3, <2>1, TokensSum
  <1>8. tw + tx + ty + tz <= ta + tb + 1
    BY <1>4, <1>5, <1>6, <1>7
  <1> QED BY <1>3, <1>8

(* What reduces a short covers what it pays, the fee, the loss and the     *)
(* collateral it keeps.                                                    *)
LEMMA ShortReduction ==
  ASSUME IInv, Quoted, NEW k \in Keys, ~k.isLong, NEW amm \in BOOLEAN,
         NEW cd \in Nat, NEW d \in Nat,
         Open(k), d <= positions[k].size, positions[k].averagePrice > 0,
         NEW r, r = Reduction(amm, k, cd, d), r.left >= 0, r.collateral >= 0,
         NEW c, c = k.collateralToken
  PROVE  Tokens(c, r.collateral) + r.poolIn + r.paid + Tokens(c, r.fee)
             <= Tokens(c, positions[k].collateral) + r.poolOut + 1
  <1> DEFINE p == positions[k]
             fee == MarginFee(k, d)
             closing == p.size = d
             pnl == (d * Delta(amm, k, p)) \div p.size
             profit == IF HasProfit(amm, k, p) THEN pnl ELSE 0
             loss == pnl - profit
             left == p.collateral - loss - cd
             usdOut == profit + cd + (IF closing THEN left ELSE 0)
             feeFromPosition == usdOut <= fee
             usdPaid == IF feeFromPosition THEN usdOut ELSE usdOut - fee
  <1>1. TypeOK /\ EntryRateBehind
    BY DEF IInv
  <1>2. c \in Token /\ c \in Stable
    BY KeyFields
  <1>3. /\ p \in Position /\ p.size \in Positive /\ p.collateral \in Nat
    BY <1>1, PositionType DEF Open, Positive
  <1>4. fee \in Nat
    BY <1>1, MarginFeeType
  <1>5. pnl \in Nat
    <2>1. Delta(amm, k, p) \in Nat
      BY <1>1, <1>3, DeltaType
    <2> QED
      BY <1>3, <2>1, ProductNat, QuotientNat
  <1>6. /\ r.fee = fee /\ r.left = left
        /\ r.collateral = (IF closing THEN 0 ELSE left)
                              - (IF feeFromPosition THEN fee ELSE 0)
        /\ r.paid = UsdToTokenMin(amm, c, usdPaid)
        /\ r.poolIn = UsdToTokenMin(amm, c, loss)
        /\ r.poolOut = UsdToTokenMin(amm, c, profit)
    BY DEF Reduction
  <1>7. /\ r.paid = Tokens(c, usdPaid) /\ r.poolIn = Tokens(c, loss)
        /\ r.poolOut = Tokens(c, profit)
    BY <1>2, <1>6, StableTokens, Zenon
  <1>8. PICK coll \in Nat : coll = p.collateral
    BY <1>3
  <1> HIDE DEF pnl, fee
  <1>9. profit \in Nat /\ loss \in Nat
    BY <1>5
  <1> HIDE DEF profit, loss
  <1>10. left = coll - loss - cd
    BY <1>8
  <1> HIDE DEF left, p
  <1>11. left \in Nat
    BY <1>6, <1>9, <1>10
  <1>12. usdOut \in Nat
    BY <1>9, <1>11
  <1>13. usdPaid \in Nat
    BY <1>4, <1>12
  <1>14. r.collateral \in Nat
    <2>1. r.collateral \in Int
      BY <1>4, <1>6, <1>11
    <2> QED BY <2>1
  <1>15. coll + profit = r.collateral + (loss + (usdPaid + fee))
    <2>1. PICK rest \in Nat : rest = r.collateral
      BY <1>14
    <2>2. CASE closing
      <3>1. usdOut = profit + cd + left
        BY <2>2
      <3>2. rest = 0 - (IF feeFromPosition THEN fee ELSE 0)
        BY <1>6, <2>1, <2>2
      <3> HIDE DEF usdOut
      <3> QED
        BY <1>4, <1>9, <1>10, <1>11, <1>12, <2>1, <3>1, <3>2
    <2>3. CASE ~closing
      <3>1. usdOut = profit + cd
        BY <1>9, <2>3
      <3>2. rest = left - (IF feeFromPosition THEN fee ELSE 0)
        BY <1>6, <2>1, <2>3
      <3> HIDE DEF usdOut
      <3> QED
        BY <1>4, <1>9, <1>10, <1>11, <1>12, <2>1, <3>1, <3>2
    <2> QED BY <2>2, <2>3
  <1> HIDE DEF usdOut, usdPaid
  <1>16. Tokens(c, r.collateral) + Tokens(c, loss) + Tokens(c, usdPaid)
             + Tokens(c, fee) <= Tokens(c, coll) + Tokens(c, profit) + 1
    BY <1>1, <1>2, <1>4, <1>9, <1>13, <1>14, <1>15, FourParts
  <1> QED BY <1>6, <1>7, <1>8, <1>16, Zenon DEF p

(* _decreasePosition takes off the pool and the position what it pays out  *)
(* and books as a fee.                                                     *)
LEMMA DecreaseKeeps ==
  ASSUME IInv, TypeOK', Quoted, NEW k \in Keys, NEW amm \in BOOLEAN,
         NEW cd \in Nat, NEW d \in Nat, Decrease(amm, k, cd, d)
  PROVE  Kept
  <1>1. PICK c, r : c = k.collateralToken /\ r = Reduction(amm, k, cd, d)
    OBVIOUS
  <1>2. TypeOK /\ c \in Token /\ c \in Asset
    BY <1>1, KeyFields, UnitType DEF IInv
  <1>3. PICK p \in Position : /\ p = Decreased(amm, k, cd, d)
                              /\ p.collateral = r.collateral
    BY <1>1, DecreasedBooks
  <1>4. /\ Open(k) /\ d <= positions[k].size /\ positions[k].averagePrice > 0
        /\ r.left >= 0 /\ r.collateral >= 0
        /\ positions' = [positions EXCEPT ![k] = p]
        /\ feeReserves' = [feeReserves EXCEPT
                               ![c] = @ + UsdToTokenMin(amm, c, r.fee)]
        /\ poolAmounts' = [poolAmounts EXCEPT
                               ![c] = poolAmounts[c] + r.poolIn - r.poolOut]
        /\ IF r.usdOut > 0
           THEN /\ balance' = [balance EXCEPT ![c] = @ - r.paid]
                /\ tokenBalances' = [tokenBalances EXCEPT ![c] = balance'[c]]
           ELSE UNCHANGED <<balance, tokenBalances>>
        /\ UNCHANGED prices
    BY <1>1, <1>3, Zenon DEF Decrease, Open, envVars
  <1>5. /\ r.fee \in Nat /\ r.usdOut \in Nat /\ r.paid \in Nat
        /\ r.poolIn \in Nat /\ r.poolOut \in Nat
        /\ r.usdOut = 0 => r.paid = 0
        /\ k.isLong => /\ r.poolIn = 0
                       /\ r.paid + UsdToTokenMin(amm, c, r.fee) <= r.poolOut
    BY <1>1, <1>4, ReductionType
  <1>6. PICK charge \in Nat : charge = UsdToTokenMin(amm, c, r.fee)
    BY <1>2, <1>5, ConversionType
  <1>7. PICK paid \in Nat, in \in Nat, out \in Nat :
            paid = r.paid /\ in = r.poolIn /\ out = r.poolOut
    BY <1>5
  <1>8. PICK minus \in Int, pool \in Int : minus = 0 - paid /\ pool = in - out
    OBVIOUS
  <1>9. FreeMoves(c, minus, pool, charge)
    <2>1. /\ tokenBalances[c] <= balance[c] /\ tokenBalances[c] \in Nat
          /\ balance[c] \in Nat /\ poolAmounts[c] \in Nat
      BY <1>2 DEF IInv, BalancesRecorded, TypeOK
    <2>2. tokenBalances'[c] >= tokenBalances[c] + minus
      <3>1. CASE r.usdOut > 0
        <4>1. tokenBalances'[c] = balance[c] - paid
          BY <1>2, <1>4, <1>7, <3>1 DEF TypeOK
        <4> QED BY <1>8, <2>1, <4>1
      <3>2. CASE ~(r.usdOut > 0)
        <4>1. tokenBalances'[c] = tokenBalances[c] /\ paid = 0
          BY <1>4, <1>5, <1>7, <3>2
        <4> QED BY <1>8, <2>1, <4>1
      <3> QED BY <3>1, <3>2
    <2>3. /\ poolAmounts'[c] = poolAmounts[c] + in - out
          /\ feeReserves'[c] = feeReserves[c] + charge
      BY <1>2, <1>4, <1>6, <1>7 DEF TypeOK
    <2>4. poolAmounts'[c] = poolAmounts[c] + pool
      BY <1>8, <2>1, <2>3
    <2> QED BY <2>2, <2>3, <2>4 DEF FreeMoves
  <1>10. PICK x \in Int, y \in Int : x = Free(c) /\ y = Free(c)'
    BY <1>2, FreeType, LaterFreeType
  <1>11. y >= x + minus - pool - charge
    BY <1>2, <1>9, <1>10, FreeAfterMoves
  <1>12. ASSUME k.isLong PROVE Covered(k, p)
    <2>1. in = 0 /\ paid + charge <= out
      BY <1>5, <1>6, <1>7, <1>12
    <2>2. y >= x
      BY <1>8, <1>11, <2>1
    <2> QED BY <1>1, <1>10, <1>12, <2>2 DEF Covered
  <1>13. ASSUME ~k.isLong PROVE Covered(k, p)
    <2>1. charge = Tokens(c, r.fee)
      BY <1>1, <1>6, <1>13, KeyFields, StableTokens
    <2>2. positions[k].collateral \in Nat /\ p.collateral \in Nat
      BY <1>2 DEF TypeOK, Position
    <2>3. PICK o \in Nat, n \in Nat :
              o = Tokens(c, positions[k].collateral) /\ n = Tokens(c, p.collateral)
      BY <1>2, <2>2, TokensSum
    <2>4. Tokens(c, r.collateral) + r.poolIn + r.paid + Tokens(c, r.fee)
              <= Tokens(c, positions[k].collateral) + r.poolOut + 1
      BY <1>1, <1>4, <1>13, ShortReduction
    <2>5. n + in + paid + charge <= o + out + 1
      BY <1>3, <1>7, <2>1, <2>3, <2>4, Zenon
    <2>6. y + o + 1 >= x + n
      BY <1>8, <1>11, <2>5
    <2> QED BY <1>1, <1>10, <1>13, <2>3, <2>6 DEF Covered
  <1>14. Covered(k, p)
    BY <1>12, <1>13
  <1>15. OthersFree(c)
    BY <1>2, <1>4, UnitType DEF OthersFree, TypeOK
  <1>16. \A t \in Token \ {k.collateralToken} : Free(t)' >= Free(t)
    BY <1>1, <1>2, <1>15, OthersStayFree
  <1> QED BY <1>2, <1>4, <1>14, <1>16, KeptWithPosition

(* A liquidation leaves to the pool and the fees what the position held,   *)
(* unless the fees of a short are more than its collateral.                *)
LEMMA LiquidateKeeps ==
  ASSUME IInv, TypeOK', Quoted, NEW k \in Keys, NEW m \in Nat,
         Liquidate(k, m), ~k.isLong => m <= positions[k].collateral
  PROVE  Kept
  <1>1. PICK c : c = k.collateralToken
    OBVIOUS
  <1>2. TypeOK /\ c \in Token /\ c \in Asset
    BY <1>1, KeyFields, UnitType DEF IInv
  <1>3. PICK p \in Position : p = NoPosition
    BY DEF NoPosition, Position
  <1>4. PICK charge \in Nat, paid \in Nat :
            /\ charge = UsdToTokenMin(FALSE, c, m)
            /\ paid = UsdToTokenMin(FALSE, c, fees.liquidationFeeUsd)
    BY <1>2, FeeTypes, ConversionType
  <1>5. PICK charged : charged = LiquidationPool(k, m)
    OBVIOUS
  <1>6. /\ positions' = [positions EXCEPT ![k] = p]
        /\ feeReserves' = [feeReserves EXCEPT ![c] = @ + charge]
        /\ poolAmounts' = [poolAmounts EXCEPT ![c] = charged - paid]
        /\ balance' = [balance EXCEPT ![c] = @ - paid]
        /\ tokenBalances' = [tokenBalances EXCEPT ![c] = balance'[c]]
        /\ UNCHANGED prices
    BY <1>1, <1>3, <1>4, <1>5, Zenon DEF Liquidate, envVars
  <1>7. PICK coll \in Nat : coll = positions[k].collateral
    BY <1>2 DEF TypeOK, Position
  <1>8. PICK kept \in Int :
            /\ charged = poolAmounts[c] + kept
            /\ k.isLong => kept = 0 - charge
            /\ ~k.isLong => kept = Tokens(c, coll - m)
    <2>1. CASE k.isLong
      <3>1. charged = poolAmounts[c] - charge
        BY <1>1, <1>4, <1>5, <2>1, Zenon DEF LiquidationPool
      <3>2. poolAmounts[c] \in Nat
        BY <1>2 DEF TypeOK
      <3>3. PICK n \in Int : n = 0 - charge
        OBVIOUS
      <3>4. charged = poolAmounts[c] + n
        BY <3>1, <3>2, <3>3
      <3> QED BY <2>1, <3>3, <3>4
    <2>2. CASE ~k.isLong
      <3>1. PICK rest \in Nat : rest = coll - m
        BY <1>7, <2>2
      <3>2. PICK n \in Nat : n = Tokens(c, rest)
        BY <1>2, TokensSum
      <3>3. c \in Stable
        BY <1>1, <2>2, KeyFields
      <3>4. charged = poolAmounts[c] + n
        <4>1. CASE m < coll
          <5>1. charged = poolAmounts[c] + UsdToTokenMin(FALSE, c, coll - m)
            BY <1>1, <1>5, <1>7, <2>2, <4>1, Zenon DEF LiquidationPool
          <5>2. UsdToTokenMin(FALSE, c, coll - m) = n
            BY <3>1, <3>2, <3>3, StableTokens
          <5> QED BY <5>1, <5>2
        <4>2. CASE ~(m < coll)
          <5>1. charged = poolAmounts[c]
            BY <1>1, <1>5, <1>7, <2>2, <4>2, Zenon DEF LiquidationPool
          <5>2. rest = 0
            BY <3>1, <4>2
          <5>3. n = 0
            BY <1>2, <3>2, <5>2, ConversionType DEF Tokens
          <5>4. poolAmounts[c] \in Nat
            BY <1>2 DEF TypeOK
          <5> QED BY <5>1, <5>3, <5>4
        <4> QED BY <4>1, <4>2
      <3> QED BY <2>2, <3>1, <3>2, <3>4
    <2> QED BY <2>1, <2>2
  <1>9. PICK minus \in Int, pool \in Int : minus = 0 - paid /\ pool = kept - paid
    OBVIOUS
  <1>10. FreeMoves(c, minus, pool, charge)
    <2>1. /\ tokenBalances[c] <= balance[c] /\ tokenBalances[c] \in Nat
          /\ balance[c] \in Nat /\ poolAmounts[c] \in Nat
      BY <1>2 DEF IInv, BalancesRecorded, TypeOK
    <2>2. /\ tokenBalances'[c] = balance[c] - paid
          /\ poolAmounts'[c] = charged - paid
          /\ feeReserves'[c] = feeReserves[c] + charge
      BY <1>2, <1>6 DEF TypeOK
    <2>3. tokenBalances'[c] >= tokenBalances[c] + minus
      BY <1>9, <2>1, <2>2
    <2>4. poolAmounts'[c] = poolAmounts[c] + pool
      BY <1>8, <1>9, <2>1, <2>2
    <2> QED BY <2>2, <2>3, <2>4 DEF FreeMoves
  <1>11. PICK x \in Int, y \in Int : x = Free(c) /\ y = Free(c)'
    BY <1>2, FreeType, LaterFreeType
  <1>12. y >= x + minus - pool - charge
    BY <1>2, <1>10, <1>11, FreeAfterMoves
  <1>13. ASSUME k.isLong PROVE Covered(k, p)
    <2>1. y >= x
      BY <1>8, <1>9, <1>12, <1>13
    <2> QED BY <1>1, <1>11, <1>13, <2>1 DEF Covered
  <1>14. ASSUME ~k.isLong PROVE Covered(k, p)
    <2>1. PICK rest \in Nat : rest = coll - m
      BY <1>7, <1>14
    <2>2. charge = Tokens(c, m)
      BY <1>1, <1>4, <1>14, KeyFields, StableTokens
    <2>3. PICK o \in Nat, n \in Nat :
              o = Tokens(c, coll) /\ n = Tokens(c, p.collateral)
      <3>1. p.collateral \in Nat
        BY DEF Position
      <3> QED BY <1>2, <3>1, TokensSum
    <2>4. n = 0
      <3>1. p.collateral = 0
        BY <1>3 DEF NoPosition
      <3> QED BY <1>2, <2>3, <3>1, ConversionType DEF Tokens
    <2>5. kept = Tokens(c, rest)
      BY <1>8, <1>14, <2>1
    <2>6. coll = rest + m
      BY <2>1
    <2>7. kept + charge <= o
      BY <1>2, <2>2, <2>3, <2>5, <2>6, TokensSum
    <2>8. y + o + 1 >= x + n
      BY <1>9, <1>12, <2>4, <2>7
    <2> QED BY <1>1, <1>7, <1>11, <1>14, <2>3, <2>8 DEF Covered
  <1>15. Covered(k, p)
    BY <1>13, <1>14
  <1>16. OthersFree(c)
    BY <1>2, <1>6, UnitType DEF OthersFree, TypeOK
  <1>17. \A t \in Token \ {k.collateralToken} : Free(t)' >= Free(t)
    BY <1>1, <1>2, <1>16, OthersStayFree
  <1> QED BY <1>2, <1>6, <1>15, <1>17, KeptWithPosition

(* The other steps leave the ledgers, or all but the balance, alone.       *)
LEMMA IdleKeeps ==
  ASSUME IInv, TypeOK',
         UNCHANGED <<tokenBalances, poolAmounts, feeReserves, positions, prices>>
  PROVE  Kept
  <1>1. \A t \in Token : Free(t)' = Free(t) /\ Free(t) \in Int
    BY FreeType DEF Free, IInv
  <1>2. \A t \in Token : Free(t)' >= Free(t)
    <2> SUFFICES ASSUME NEW t \in Token PROVE Free(t)' >= Free(t)
      OBVIOUS
    <2>1. PICK x \in Int : x = Free(t) /\ x = Free(t)'
      BY <1>1
    <2>2. x >= x
      OBVIOUS
    <2> QED BY <2>1, <2>2, Zenon
  <1> QED BY <1>2, KeptWithoutPositions DEF IInv

(* Every action of the Vault keeps the surplus, prices standing still.     *)
LEMMA NextKeeps ==
  ASSUME IInv, IInv', Quoted, [Next]_vars, UNCHANGED prices,
         \A k \in Keys : ~UncappedLiquidation(k)
  PROVE  Kept
  <1>1. TypeOK /\ TypeOK'
    BY DEF IInv
  <1>2. CASE Environment
    <2>1. UNCHANGED <<tokenBalances, poolAmounts, feeReserves, positions>>
      BY <1>2 DEF Environment, SendTokens, ChangePrice, Tick, ledgerVars,
         positionVars
    <2> QED BY <1>1, <2>1, IdleKeeps
  <1>3. CASE Pool
    <2>1. ASSUME NEW t \in Token, UpdateCumulativeFundingRate(t) PROVE Kept
      <3>1. UNCHANGED <<tokenBalances, poolAmounts, feeReserves, positions>>
        BY <2>1 DEF UpdateCumulativeFundingRate, ledgerVars, positionVars
      <3> QED BY <1>1, <3>1, IdleKeeps
    <2> QED BY <1>1, <1>3, <2>1, DepositKeeps, BuyKeeps, SellKeeps, SwapKeeps
            DEF Pool
  <1>4. CASE Leverage
    <2>1. PICK k \in Keys :
              \/ \E s \in Callers, d \in SizeDeltas :
                    \/ IncreasePosition(s, k, d)
                    \/ \E cd \in CollateralDeltas :
                          DecreasePosition(s, k, cd, d)
              \/ LiquidatePosition(k)
      BY <1>4 DEF Leverage
    <2>2. CASE LiquidateInsolvent(k)
      <3>1. PICK m : m = LiquidationOf(k).fees
        OBVIOUS
      <3>2. Liquidate(k, m) /\ Open(k) /\ positions[k].averagePrice > 0
        BY <2>2, <3>1 DEF LiquidateInsolvent
      <3>3. m \in Nat
        <4> DEFINE rate == CumulativeRate(k.collateralToken)
        <4>1. /\ rate \in Nat
              /\ cumulativeFundingRates[k.collateralToken] \in Nat
              /\ cumulativeFundingRates[k.collateralToken] <= rate
          BY <1>1, KeyFields, FundingType DEF TypeOK
        <4>2. positions[k].entryFundingRate <= rate
          <5>1. positions[k].entryFundingRate
                    <= cumulativeFundingRates[k.collateralToken]
            BY DEF IInv, EntryRateBehind
          <5> HIDE DEF rate
          <5> QED BY <1>1, <4>1, <5>1, PositionType
        <4> QED BY <1>1, <3>1, <3>2, <4>1, <4>2, PositionType,
                LiquidationCheckType DEF LiquidationOf
      <3>4. ~k.isLong => m <= positions[k].collateral
        <4>1. positions' = [positions EXCEPT ![k] = NoPosition]
          BY <3>2, Zenon DEF Liquidate
        <4>2. ~Open(k)'
          BY <1>1, <4>1 DEF TypeOK, Open, NoPosition
        <4>3. ~k.isLong => ~(m > positions[k].collateral)
          BY <3>1, <3>2, <4>2 DEF UncappedLiquidation
        <4>4. positions[k].collateral \in Nat
          BY <1>1 DEF TypeOK, Position
        <4> QED BY <3>3, <4>3, <4>4
      <3> QED BY <1>1, <3>2, <3>3, <3>4, LiquidateKeeps
    <2>3. CASE LiquidateOverleveraged(k)
      <3>1. positions[k].size \in Nat
            /\ Decrease(FALSE, k, 0, positions[k].size)
        BY <1>1, <2>3, PositionType DEF LiquidateOverleveraged
      <3> QED BY <1>1, <3>1, DecreaseKeeps
    <2>4. ASSUME NEW s \in Callers, NEW d \in SizeDeltas,
                 IncreasePosition(s, k, d)
          PROVE  Kept
      BY <1>1, <2>4, IncreaseKeeps, InputAssumption
    <2>5. ASSUME NEW s \in Callers, NEW d \in SizeDeltas,
                 NEW cd \in CollateralDeltas, DecreasePosition(s, k, cd, d)
          PROVE  Kept
      <3>1. d \in Nat /\ cd \in Nat
        BY InputAssumption
      <3>2. Decrease(TRUE, k, cd, d)
        BY <2>5 DEF DecreasePosition
      <3> QED BY <1>1, <3>1, <3>2, DecreaseKeeps
    <2> QED BY <2>1, <2>2, <2>3, <2>4, <2>5 DEF LiquidatePosition
  <1>5. CASE Governance
    <2>1. ASSUME NEW t \in Token, WithdrawFees(t) PROVE Kept
      BY <1>1, <2>1, WithdrawKeeps
    <2>2. ASSUME ~ \E t \in Token : WithdrawFees(t)
          PROVE  UNCHANGED <<tokenBalances, poolAmounts, feeReserves, positions>>
      BY <1>5, <2>2 DEF Governance, SetUsdgAmount, SetFees, SetIsSwapEnabled,
         SetIsLeverageEnabled, AddRouter, RemoveRouter, SetApproval,
         ledgerVars, positionVars
    <2> QED BY <1>1, <2>1, <2>2, IdleKeeps
  <1>6. CASE UNCHANGED vars
    BY <1>1, <1>6, IdleKeeps DEF vars, ledgerVars, positionVars
  <1> QED BY <1>2, <1>3, <1>4, <1>5, <1>6 DEF Next

-----------------------------------------------------------------------------
(* The cover of USDG. Values in USDG are rounded down twice, first by the  *)
(* price precision and then by the decimals; the lemmas bound what a       *)
(* redemption or a swap at the worse price can lose to that.               *)

(* A positive factor cancels.                                              *)
LEMMA Cancel ==
  ASSUME NEW a \in Nat, NEW b \in Nat, NEW c \in Positive, a * c <= b * c
  PROVE  a <= b
  BY DEF Positive

(* The least multiple that covers an amount.                               *)
LEMMA RoundedUp ==
  ASSUME NEW a \in Nat, NEW b \in Positive
  PROVE  \E v \in Nat : a <= v * b /\ v * b <= a + b /\ (a % b = 0 => v * b = a)
  <1>1. PICK q \in Nat : q = a \div b
    BY QuotientNat
  <1>2. q * b <= a /\ a < q * b + b /\ a % b = a - q * b
    BY <1>1, DivisionBounds DEF Positive
  <1>3. PICK x \in Nat : x = q * b
    BY ProductNat DEF Positive
  <1>4. CASE x = a
    BY <1>2, <1>3, <1>4 DEF Positive
  <1>5. CASE x # a
    <2>1. (q + 1) * b = x + b
      BY <1>3 DEF Positive
    <2>2. a <= (q + 1) * b /\ (q + 1) * b <= a + b /\ a % b # 0 /\ q + 1 \in Nat
      BY <1>2, <1>3, <1>5, <2>1 DEF Positive
    <2> QED BY <2>2
  <1> QED BY <1>4, <1>5

(* Taking part of an amount away costs no more than that part is worth     *)
(* when it is rounded up.                                                  *)
LEMMA TakenWorth ==
  ASSUME NEW n \in Nat, NEW r \in Nat, NEW m \in Nat, NEW P \in Positive,
         NEW D \in Nat, NEW T \in Positive, NEW v \in Nat, NEW w \in Nat,
         r * m <= v * P, v * D <= w * T
  PROVE  ((((n + r) * m) \div P) * D) \div T <= (((n * m) \div P) * D) \div T + w
  <1>1. PICK x \in Nat, y \in Nat : x = n * m /\ y = r * m
    BY ProductNat
  <1>2. PICK a \in Nat, b \in Nat, c \in Nat :
            a = (x + y) \div P /\ b = x \div P /\ c = (x + v * P) \div P
    BY QuotientNat, ProductNat DEF Positive
  <1>3. (n + r) * m = x + y
    BY <1>1
  <1>4. c = b + v
    BY <1>2 DEF Positive
  <1>5. a <= c
    <2>1. PICK vP \in Nat : vP = v * P
      BY ProductNat DEF Positive
    <2>2. y <= vP
      BY <1>1, <2>1
    <2>3. x + y <= x + vP /\ x + y \in Nat /\ x + vP \in Nat
      BY <2>2
    <2> QED BY <1>2, <2>1, <2>3, QuotientMonotone
  <1>6. a <= b + v
    BY <1>4, <1>5
  <1>7. PICK aD \in Nat, bD \in Nat, vD \in Nat, wT \in Nat :
            aD = a * D /\ bD = b * D /\ vD = v * D /\ wT = w * T
    BY ProductNat DEF Positive
  <1>8. aD <= bD + vD
    <2>1. a * D <= (b + v) * D
      BY <1>6, ProductMonotone
    <2> QED BY <1>7, <2>1
  <1>9. aD <= bD + wT
    BY <1>7, <1>8
  <1>10. aD \div T <= (bD + wT) \div T
    BY <1>9, QuotientMonotone
  <1>11. (bD + wT) \div T = bD \div T + w
    BY <1>7 DEF Positive
  <1>12. PICK f \in Nat, g \in Nat, h \in Nat :
             f = aD \div T /\ g = bD \div T /\ h = (bD + wT) \div T
    BY QuotientNat
  <1>13. f <= g + w
    BY <1>10, <1>11, <1>12
  <1> QED BY <1>1, <1>2, <1>3, <1>7, <1>12, <1>13

(* What is added is worth at least what it is worth on its own.            *)
LEMMA AddedWorth ==
  ASSUME NEW n \in Nat, NEW r \in Nat, NEW m \in Nat, NEW P \in Positive,
         NEW D \in Nat, NEW T \in Positive
  PROVE  (((n * m) \div P) * D) \div T + (((r * m) \div P) * D) \div T
             <= ((((n + r) * m) \div P) * D) \div T
  <1>1. PICK x \in Nat, y \in Nat : x = n * m /\ y = r * m
    BY ProductNat
  <1>2. PICK a \in Nat, b \in Nat, c \in Nat :
            a = (x + y) \div P /\ b = x \div P /\ c = y \div P
    BY QuotientNat
  <1>3. (n + r) * m = x + y
    BY <1>1
  <1>4. b + c <= a
    BY <1>2, QuotientSum
  <1>5. PICK aD \in Nat, bD \in Nat, cD \in Nat :
            aD = a * D /\ bD = b * D /\ cD = c * D
    BY ProductNat
  <1>6. bD + cD <= aD
    <2>1. (b + c) * D <= a * D
      BY <1>4, ProductMonotone
    <2> QED BY <1>5, <2>1
  <1>7. bD \div T + cD \div T <= (bD + cD) \div T
    BY QuotientSum
  <1>8. (bD + cD) \div T <= aD \div T
    BY <1>6, QuotientMonotone
  <1>9. PICK f \in Nat, g \in Nat, h \in Nat, i \in Nat :
            f = aD \div T /\ g = bD \div T /\ h = cD \div T /\ i = (bD + cD) \div T
    <2>1. bD + cD \in Nat
      OBVIOUS
    <2> QED BY <2>1, QuotientNat
  <1>10. g + h <= f
    BY <1>7, <1>8, <1>9
  <1> QED BY <1>1, <1>2, <1>3, <1>5, <1>9, <1>10

(* A redemption r of u USDG at the maximum price M, valued at m.           *)
LEMMA RedemptionWorth ==
  ASSUME NEW u \in Nat, NEW q \in Nat, NEW r \in Nat, NEW m \in Nat, NEW M \in Nat,
         NEW v \in Nat, NEW w \in Nat, NEW P \in Positive, NEW D \in Positive,
         NEW T \in Positive, NEW e \in Nat, NEW d \in Nat,
         m <= M, q * M <= u * P, r * D <= q * T, v * P <= r * m + e * P,
         w * T <= v * D + e * T, D <= (d + 1) * T
  PROVE  w <= u + e * (d + 2)
  <1>1. (v * P) * D <= (u * T + e * D) * P
    <2>1. (q * m) * T <= (u * P) * T
      <3>1. q * m <= u * P
        <4>1. m * q <= M * q
          BY ProductMonotone
        <4> QED BY <4>1 DEF Positive
      <3> QED BY <3>1, ProductMonotone, ProductNat DEF Positive
    <2>2. (r * D) * m <= (q * T) * m
      BY ProductMonotone, ProductNat DEF Positive
    <2>3. (v * P) * D <= (r * m + e * P) * D
      BY ProductMonotone, ProductNat DEF Positive
    <2>4. PICK rmD \in Nat, qmT \in Nat, uPT \in Nat, ePD \in Nat, vPD \in Nat :
              rmD = (r * D) * m /\ qmT = (q * m) * T /\ uPT = (u * P) * T
              /\ ePD = (e * P) * D /\ vPD = (v * P) * D
      BY ProductNat DEF Positive
    <2>5. (q * T) * m = qmT
      BY <2>4 DEF Positive
    <2>6. (r * m + e * P) * D = rmD + ePD
      BY <2>4 DEF Positive
    <2>7. (u * T + e * D) * P = uPT + ePD
      BY <2>4 DEF Positive
    <2>8. vPD <= uPT + ePD
      BY <2>1, <2>2, <2>3, <2>4, <2>5, <2>6
    <2> QED BY <2>4, <2>7, <2>8
  <1>2. PICK vD \in Nat, uT \in Nat, eD \in Nat, eT \in Nat, wT \in Nat :
            vD = v * D /\ uT = u * T /\ eD = e * D /\ eT = e * T /\ wT = w * T
    BY ProductNat DEF Positive
  <1>3. vD <= uT + eD
    <2>1. (v * P) * D = vD * P
      BY <1>2 DEF Positive
    <2>2. vD * P <= (uT + eD) * P
      BY <1>1, <1>2, <2>1
    <2> QED BY <2>2, Cancel
  <1>4. eD <= e * ((d + 1) * T)
    <2>1. D * e <= ((d + 1) * T) * e
      BY ProductMonotone, ProductNat DEF Positive
    <2> QED BY <1>2, <2>1 DEF Positive
  <1>5. e * ((d + 1) * T) + eT = (e * (d + 2)) * T
    BY <1>2 DEF Positive
  <1>6. (u + e * (d + 2)) * T = uT + (e * (d + 2)) * T
    BY <1>2 DEF Positive
  <1>7. PICK z \in Nat, y \in Nat : z = e * ((d + 1) * T) /\ y = (e * (d + 2)) * T
    BY ProductNat DEF Positive
  <1>8. wT <= uT + y
    BY <1>2, <1>3, <1>4, <1>5, <1>7
  <1>9. w * T <= (u + e * (d + 2)) * T
    BY <1>2, <1>6, <1>7, <1>8
  <1> QED BY <1>9, Cancel, ProductNat

(* A swap of a for r: valued at mi and mo, paid at mi and M.               *)
SwapTerms(a, q, r, g, G, mi, mo, M, v, w, P, D, Ti, To, ei, eo, di, do) ==
    /\ mo <= M /\ q * M <= a * mi /\ r * Ti <= q * To
    /\ a * mi <= g * P + ei * P /\ g * D <= G * Ti + ei * Ti
    /\ v * P <= r * mo + eo * P /\ w * To <= v * D + eo * To
    /\ D <= (di + 1) * Ti /\ D <= (do + 1) * To

SwapLoss(w, G, ei, eo, di, do) == w <= G + ei * (di + 2) + eo * (do + 2)

LEMMA SwapWorth ==
  ASSUME NEW a \in Nat, NEW q \in Nat, NEW r \in Nat, NEW g \in Nat, NEW G \in Nat,
         NEW mi \in Nat, NEW mo \in Nat, NEW M \in Nat, NEW v \in Nat, NEW w \in Nat,
         NEW P \in Positive, NEW D \in Positive, NEW Ti \in Positive,
         NEW To \in Positive, NEW ei \in Nat, NEW eo \in Nat, NEW di \in Nat,
         NEW do \in Nat,
         SwapTerms(a, q, r, g, G, mi, mo, M, v, w, P, D, Ti, To, ei, eo, di, do)
  PROVE  SwapLoss(w, G, ei, eo, di, do)
  <1> USE DEF SwapTerms
  <1>1. v * Ti <= (g + ei) * To + eo * Ti
    <2>1. (q * mo) * To <= (a * mi) * To
      <3>1. q * mo <= a * mi
        <4>1. mo * q <= M * q
          BY ProductMonotone
        <4> QED BY <4>1
      <3> QED BY <3>1, ProductMonotone, ProductNat DEF Positive
    <2>2. (r * Ti) * mo <= (q * To) * mo
      BY ProductMonotone, ProductNat DEF Positive
    <2>3. (v * P) * Ti <= (r * mo + eo * P) * Ti
      BY ProductMonotone, ProductNat DEF Positive
    <2>4. (a * mi) * To <= (g * P + ei * P) * To
      BY ProductMonotone, ProductNat DEF Positive
    <2>5. PICK rmT \in Nat, qmT \in Nat, amT \in Nat, ePT \in Nat, vPT \in Nat :
              rmT = (r * Ti) * mo /\ qmT = (q * mo) * To /\ amT = (a * mi) * To
              /\ ePT = (eo * P) * Ti /\ vPT = (v * P) * Ti
      BY ProductNat DEF Positive
    <2>6. (q * To) * mo = qmT
      BY <2>5 DEF Positive
    <2>7. (r * mo + eo * P) * Ti = rmT + ePT
      BY <2>5 DEF Positive
    <2>8. vPT <= amT + ePT
      BY <2>1, <2>2, <2>3, <2>5, <2>6, <2>7
    <2>9. PICK x \in Nat, y \in Nat : x = (g + ei) * To /\ y = eo * Ti
      BY ProductNat DEF Positive
    <2>10. (g * P + ei * P) * To = x * P
      BY <2>9 DEF Positive
    <2>11. ePT = y * P
      BY <2>5, <2>9 DEF Positive
    <2>12. vPT <= x * P + y * P
      <3>1. PICK xP \in Nat, yP \in Nat : xP = x * P /\ yP = y * P
        BY ProductNat DEF Positive
      <3> QED BY <2>4, <2>5, <2>8, <2>10, <2>11, <3>1
    <2>13. vPT = (v * Ti) * P /\ x * P + y * P = (x + y) * P
      BY <2>5 DEF Positive
    <2>14. (v * Ti) * P <= (x + y) * P
      BY <2>12, <2>13
    <2>15. v * Ti \in Nat /\ x + y \in Nat
      BY ProductNat DEF Positive
    <2> QED BY <2>9, <2>14, <2>15, Cancel
  <1>2. (v * Ti) * D <= ((g + ei) * To + eo * Ti) * D
    BY <1>1, ProductMonotone, ProductNat DEF Positive
  <1>3. (w * To) * Ti <= (v * D + eo * To) * Ti
    BY ProductMonotone, ProductNat DEF Positive
  <1>4. (g * D) * To <= (G * Ti + ei * Ti) * To
    BY ProductMonotone, ProductNat DEF Positive
  <1>5. PICK U \in Positive : U = Ti * To
    BY DEF Positive
  <1>6. D * To <= (di + 1) * U /\ D * Ti <= (do + 1) * U
    <2>1. D * To <= ((di + 1) * Ti) * To /\ D * Ti <= ((do + 1) * To) * Ti
      BY ProductMonotone, ProductNat DEF Positive
    <2>2. ((di + 1) * Ti) * To = (di + 1) * U /\ ((do + 1) * To) * Ti = (do + 1) * U
      BY <1>5 DEF Positive
    <2> QED BY <2>1, <2>2
  <1>7. ei * (D * To) <= ei * ((di + 1) * U) /\ eo * (D * Ti) <= eo * ((do + 1) * U)
    <2>1. /\ (D * To) * ei <= ((di + 1) * U) * ei
          /\ (D * Ti) * eo <= ((do + 1) * U) * eo
      BY <1>6, ProductMonotone, ProductNat DEF Positive
    <2> QED BY <2>1 DEF Positive
  <1>8. PICK vTD \in Nat, gDT \in Nat, GU \in Nat, eiU \in Nat, eoU \in Nat,
             eiD \in Nat, eoD \in Nat, wU \in Nat, eid \in Nat, eod \in Nat :
            /\ vTD = (v * Ti) * D /\ gDT = (g * D) * To /\ GU = G * U
            /\ eiU = ei * U /\ eoU = eo * U
            /\ eiD = ei * (D * To) /\ eoD = eo * (D * Ti) /\ wU = w * U
            /\ eid = ei * ((di + 1) * U) /\ eod = eo * ((do + 1) * U)
    BY ProductNat DEF Positive
  <1>9. ((g + ei) * To + eo * Ti) * D = gDT + eiD + eoD
    BY <1>8 DEF Positive
  <1>10. (v * D + eo * To) * Ti = vTD + eoU
    BY <1>5, <1>8 DEF Positive
  <1>11. (G * Ti + ei * Ti) * To = GU + eiU
    BY <1>5, <1>8 DEF Positive
  <1>12. (w * To) * Ti = wU
    BY <1>5, <1>8 DEF Positive
  <1>13. wU <= GU + eiU + eid + eoU + eod
    BY <1>2, <1>3, <1>4, <1>7, <1>8, <1>9, <1>10, <1>11, <1>12
  <1>14. PICK all \in Nat : all = G + ei * (di + 2) + eo * (do + 2)
    BY ProductNat
  <1>15. all * U = GU + eiU + eid + eoU + eod
    BY <1>8, <1>14 DEF Positive
  <1>16. w * U <= all * U
    BY <1>8, <1>13, <1>15
  <1> QED BY <1>14, <1>16, Cancel DEF SwapLoss

(* Multiples leave no remainder.                                           *)
LEMMA NoRemainder ==
  ASSUME NEW r \in Nat, NEW m \in Nat, NEW P \in Positive, m % P = 0
  PROVE  (r * m) % P = 0
  <1>1. PICK q \in Nat : q = m \div P
    BY QuotientNat
  <1>2. m = q * P
    BY <1>1 DEF Positive
  <1>3. PICK x \in Nat : x = r * q
    BY ProductNat
  <1>4. r * m = x * P
    BY <1>2, <1>3 DEF Positive
  <1>5. (x * P) % P = 0
    BY DEF Positive
  <1> QED BY <1>4, <1>5

(* The roundings a token can lose, spelled out.                            *)
LEMMA CoverRoundingParts ==
  ASSUME TypeOK, NEW t \in Token
  PROVE  \E e \in Nat, d \in Nat :
            /\ e <= 1 /\ (e = 0 <=> Exact(t))
            /\ TokenUnit[USDG] <= (d + 1) * TokenUnit[t]
            /\ CoverRounding(t) = e * (d + 2)
  <1>1. PICK D \in Positive, T \in Positive :
            D = TokenUnit[USDG] /\ T = TokenUnit[t]
    BY UnitType
  <1>2. PICK d \in Nat : d = D \div T
    BY <1>1, QuotientNat DEF Positive
  <1>3. D <= (d + 1) * T
    <2>1. D < d * T + T
      BY <1>2, DivisionBounds DEF Positive
    <2>2. d * T + T = (d + 1) * T
      BY DEF Positive
    <2>3. PICK x \in Nat : x = (d + 1) * T
      BY ProductNat DEF Positive
    <2>4. D < x
      BY <2>1, <2>2, <2>3
    <2>5. D <= x
      BY <2>4 DEF Positive
    <2> QED BY <2>3, <2>5
  <1>4. CASE Exact(t)
    <2>1. CoverRounding(t) = 0
      BY <1>4 DEF CoverRounding
    <2>2. 0 * (d + 2) = 0
      OBVIOUS
    <2> WITNESS 0 \in Nat, d \in Nat
    <2> QED BY <1>1, <1>3, <1>4, <2>1, <2>2
  <1>5. CASE ~Exact(t)
    <2>1. CoverRounding(t) = 2 + d
      BY <1>1, <1>2, <1>5 DEF CoverRounding
    <2>2. 1 * (d + 2) = 2 + d
      OBVIOUS
    <2> WITNESS 1 \in Nat, d \in Nat
    <2> QED BY <1>1, <1>3, <1>5, <2>1, <2>2
  <1> QED BY <1>4, <1>5

(* They are an amount.                                                     *)
LEMMA CoverRoundingType ==
  ASSUME TypeOK, NEW t \in Token
  PROVE  CoverRounding(t) \in Nat
  BY CoverRoundingParts, ProductNat

(* What a token amount is worth, rounded down twice.                       *)
LEMMA ValueParts ==
  ASSUME TypeOK, NEW t \in Token
  PROVE  \E m \in Positive, P \in Positive, D \in Positive, T \in Positive :
            /\ m = MinPrice(TRUE, t) /\ P = PricePrecision
            /\ D = TokenUnit[USDG] /\ T = TokenUnit[t]
            /\ \A n \in Nat : UsdgValue(t, n) = (((n * m) \div P) * D) \div T
  <1>1. PICK m \in Positive, P \in Positive, D \in Positive, T \in Positive :
            /\ m = MinPrice(TRUE, t) /\ P = PricePrecision
            /\ D = TokenUnit[USDG] /\ T = TokenUnit[t]
    BY PriceType, UnitType, ParameterAssumption DEF Positive
  <1>2. \A n \in Nat : UsdgValue(t, n) = (((n * m) \div P) * D) \div T
    BY <1>1, Zenon DEF UsdgValue, AdjustForDecimals
  <1> QED BY <1>1, <1>2

(* Tokens added to a pool are worth there what they are worth alone.       *)
LEMMA ValueAdds ==
  ASSUME TypeOK, NEW t \in Token, NEW n \in Nat, NEW r \in Nat
  PROVE  UsdgValue(t, n) + UsdgValue(t, r) <= UsdgValue(t, n + r)
  <1>1. PICK m \in Positive, P \in Positive, D \in Positive, T \in Positive :
            /\ m = MinPrice(TRUE, t) /\ P = PricePrecision
            /\ D = TokenUnit[USDG] /\ T = TokenUnit[t]
            /\ \A x \in Nat : UsdgValue(t, x) = (((x * m) \div P) * D) \div T
    BY ValueParts
  <1>2. m \in Nat /\ D \in Nat /\ n + r \in Nat
    BY DEF Positive
  <1>3. (((n * m) \div P) * D) \div T + (((r * m) \div P) * D) \div T
             <= ((((n + r) * m) \div P) * D) \div T
    BY <1>2, AddedWorth
  <1> QED BY <1>1, <1>2, <1>3

(* The part of a pool's value that goes with r of its tokens, rounded up.  *)
RoundedValue(t, r, e, v, w) ==
    /\ r * MinPrice(TRUE, t) <= v * PricePrecision
    /\ v * PricePrecision <= r * MinPrice(TRUE, t) + e * PricePrecision
    /\ v * TokenUnit[USDG] <= w * TokenUnit[t]
    /\ w * TokenUnit[t] <= v * TokenUnit[USDG] + e * TokenUnit[t]

(* Such a part exists, exact when the token is.                            *)
LEMMA RoundedValueExists ==
  ASSUME TypeOK, NEW t \in Token, NEW r \in Nat, NEW e \in Nat,
         e <= 1, e = 0 <=> Exact(t)
  PROVE  \E v \in Nat, w \in Nat : RoundedValue(t, r, e, v, w)
  <1>1. PICK m \in Positive, P \in Positive, D \in Positive, T \in Positive :
            /\ m = MinPrice(TRUE, t) /\ P = PricePrecision
            /\ D = TokenUnit[USDG] /\ T = TokenUnit[t]
    BY ValueParts
  <1>2. PICK x \in Nat : x = r * m
    BY ProductNat DEF Positive
  <1>3. PICK v \in Nat : x <= v * P /\ v * P <= x + P /\ (x % P = 0 => v * P = x)
    BY RoundedUp
  <1>4. PICK y \in Nat : y = v * D
    BY ProductNat DEF Positive
  <1>5. PICK w \in Nat : y <= w * T /\ w * T <= y + T /\ (y % T = 0 => w * T = y)
    BY RoundedUp
  <1>6. CASE e = 0
    <2>1. m % P = 0 /\ D % T = 0
      BY <1>1, <1>6 DEF Exact
    <2>2. x % P = 0 /\ y % T = 0
      BY <1>2, <1>4, <2>1, NoRemainder DEF Positive
    <2>3. 0 * P = 0 /\ 0 * T = 0
      BY DEF Positive
    <2>4. v * P <= x + 0 * P /\ w * T <= y + 0 * T
      BY <1>3, <1>5, <2>2, <2>3
    <2> QED BY <1>1, <1>2, <1>3, <1>4, <1>5, <1>6, <2>4 DEF RoundedValue
  <1>7. CASE e = 1
    <2>1. 1 * P = P /\ 1 * T = T
      BY DEF Positive
    <2>2. v * P <= x + 1 * P /\ w * T <= y + 1 * T
      BY <1>3, <1>5, <2>1
    <2> QED BY <1>1, <1>2, <1>3, <1>4, <1>5, <1>7, <2>2 DEF RoundedValue
  <1> QED BY <1>6, <1>7

(* A pool loses no more than that part when the tokens leave it.            *)
LEMMA ValueWithout ==
  ASSUME TypeOK, NEW t \in Token, NEW n \in Nat, NEW r \in Nat, NEW e \in Nat,
         NEW v \in Nat, NEW w \in Nat, RoundedValue(t, r, e, v, w)
  PROVE  UsdgValue(t, n + r) <= UsdgValue(t, n) + w
  <1>1. PICK m \in Positive, P \in Positive, D \in Positive, T \in Positive :
            /\ m = MinPrice(TRUE, t) /\ P = PricePrecision
            /\ D = TokenUnit[USDG] /\ T = TokenUnit[t]
            /\ \A x \in Nat : UsdgValue(t, x) = (((x * m) \div P) * D) \div T
    BY ValueParts
  <1>2. m \in Nat /\ D \in Nat /\ n + r \in Nat
    BY DEF Positive
  <1>3. r * m <= v * P /\ v * D <= w * T
    BY <1>1 DEF RoundedValue
  <1>4. ((((n + r) * m) \div P) * D) \div T <= (((n * m) \div P) * D) \div T + w
    BY <1>2, <1>3, TakenWorth
  <1> QED BY <1>1, <1>2, <1>4

(* A redemption takes no more value from a pool than the USDG it is for.   *)
LEMMA RedemptionValue ==
  ASSUME TypeOK, Quoted, NEW t \in Token, NEW n \in Nat, NEW u \in Nat,
         NEW r \in Nat, r = RedemptionAmount(t, u)
  PROVE  UsdgValue(t, n + r) <= UsdgValue(t, n) + u + CoverRounding(t)
  <1>1. PICK m \in Positive, P \in Positive, D \in Positive, T \in Positive :
            /\ m = MinPrice(TRUE, t) /\ P = PricePrecision
            /\ D = TokenUnit[USDG] /\ T = TokenUnit[t]
            /\ \A x \in Nat : UsdgValue(t, x) = (((x * m) \div P) * D) \div T
    BY ValueParts
  <1>2. PICK M \in Positive : M = MaxPrice(TRUE, t)
    BY PriceType
  <1>3. m <= M /\ m \in Nat /\ M \in Nat
    BY <1>1, <1>2, SpreadOrdered DEF Positive
  <1>4. PICK e \in Nat, d \in Nat :
            /\ e <= 1 /\ (e = 0 <=> Exact(t))
            /\ TokenUnit[USDG] <= (d + 1) * TokenUnit[t]
            /\ CoverRounding(t) = e * (d + 2)
    BY CoverRoundingParts
  <1>5. PICK v \in Nat, w \in Nat : RoundedValue(t, r, e, v, w)
    BY <1>4, RoundedValueExists
  <1>6. PICK up \in Nat : up = u * P
    BY ProductNat DEF Positive
  <1>7. PICK q \in Nat : q = up \div M
    BY QuotientNat
  <1>8. PICK qT \in Nat : qT = q * T
    BY ProductNat DEF Positive
  <1>9. r = qT \div D
    BY <1>1, <1>2, <1>6, <1>7, <1>8, Zenon DEF RedemptionAmount, AdjustForDecimals
  <1>10. q * M <= u * P /\ r * D <= q * T
    BY <1>6, <1>7, <1>8, <1>9, DivisionBounds
  <1>11. /\ v * P <= r * m + e * P /\ w * T <= v * D + e * T
         /\ D <= (d + 1) * T
    BY <1>1, <1>4, <1>5 DEF RoundedValue
  <1>12. w <= u + e * (d + 2)
    BY <1>3, <1>10, <1>11, RedemptionWorth
  <1>13. PICK x \in Nat, y \in Nat, z \in Nat :
            x = UsdgValue(t, n + r) /\ y = UsdgValue(t, n) /\ z = CoverRounding(t)
    BY UsdgValueType, CoverRoundingType
  <1>14. x <= y + w
    BY <1>5, <1>13, ValueWithout
  <1>15. w <= u + z
    BY <1>4, <1>12, <1>13
  <1>16. x <= y + u + z
    BY <1>14, <1>15
  <1> QED BY <1>13, <1>16

(* What a swap pays out before fees.                                       *)
SwapAmount(i, o, a) ==
    AdjustForDecimals((a * MinPrice(TRUE, i)) \div MaxPrice(TRUE, o), i, o)

(* It is an amount.                                                        *)
LEMMA SwapAmountType ==
  ASSUME TypeOK, NEW i \in Token, NEW o \in Token, NEW a \in Nat
  PROVE  SwapAmount(i, o, a) \in Nat
  <1>1. PICK m \in Nat, M \in Positive, T \in Nat, U \in Positive :
            /\ m = MinPrice(TRUE, i) /\ M = MaxPrice(TRUE, o)
            /\ T = TokenUnit[o] /\ U = TokenUnit[i]
    BY PriceType, UnitType DEF Positive
  <1>2. (a * m) \div M \in Nat
    BY ProductNat, QuotientNat
  <1>3. (((a * m) \div M) * T) \div U \in Nat
    BY <1>2, ProductNat, QuotientNat
  <1> QED BY <1>1, <1>3 DEF SwapAmount, AdjustForDecimals

(* A swap takes no more value from one pool than it brings to the other.   *)
LEMMA SwapValue ==
  ASSUME TypeOK, Quoted, NEW i \in Token, NEW o \in Token, NEW n \in Nat,
         NEW a \in Nat, NEW r \in Nat, r = SwapAmount(i, o, a)
  PROVE  UsdgValue(o, n + r) <= UsdgValue(o, n) + UsdgValue(i, a)
                                   + CoverRounding(i) + CoverRounding(o)
  <1>1. PICK mo \in Positive, P \in Positive, D \in Positive, To \in Positive :
            /\ mo = MinPrice(TRUE, o) /\ P = PricePrecision
            /\ D = TokenUnit[USDG] /\ To = TokenUnit[o]
            /\ \A x \in Nat : UsdgValue(o, x) = (((x * mo) \div P) * D) \div To
    BY ValueParts
  <1>2. PICK mi \in Positive, Ti \in Positive :
            /\ mi = MinPrice(TRUE, i) /\ Ti = TokenUnit[i]
            /\ \A x \in Nat : UsdgValue(i, x) = (((x * mi) \div P) * D) \div Ti
    <2>1. PICK m \in Positive, T \in Positive :
              m = MinPrice(TRUE, i) /\ T = TokenUnit[i]
      BY PriceType, UnitType
    <2>2. \A x \in Nat : UsdgValue(i, x) = (((x * m) \div P) * D) \div T
      BY <1>1, <2>1, Zenon DEF UsdgValue, AdjustForDecimals
    <2> QED BY <2>1, <2>2
  <1>3. PICK M \in Positive : M = MaxPrice(TRUE, o)
    BY PriceType
  <1>4. mo <= M /\ mo \in Nat /\ M \in Nat /\ mi \in Nat
    BY <1>1, <1>3, SpreadOrdered DEF Positive
  <1>5. PICK ei \in Nat, di \in Nat :
            /\ ei <= 1 /\ (ei = 0 <=> Exact(i))
            /\ TokenUnit[USDG] <= (di + 1) * TokenUnit[i]
            /\ CoverRounding(i) = ei * (di + 2)
    BY CoverRoundingParts
  <1>6. PICK eo \in Nat, do \in Nat :
            /\ eo <= 1 /\ (eo = 0 <=> Exact(o))
            /\ TokenUnit[USDG] <= (do + 1) * TokenUnit[o]
            /\ CoverRounding(o) = eo * (do + 2)
    BY CoverRoundingParts
  <1>7. PICK v \in Nat, w \in Nat : RoundedValue(o, r, eo, v, w)
    BY <1>6, RoundedValueExists
  <1>8. PICK am \in Nat : am = a * mi
    BY <1>4, ProductNat
  <1>9. PICK q \in Nat, g \in Nat : q = am \div M /\ g = am \div P
    BY QuotientNat
  <1>10. PICK qT \in Nat, gD \in Nat : qT = q * To /\ gD = g * D
    BY ProductNat DEF Positive
  <1>11. PICK G \in Nat : G = gD \div Ti
    BY QuotientNat
  <1>12. r = qT \div Ti /\ G = UsdgValue(i, a)
    <2>1. r = qT \div Ti
      BY <1>1, <1>2, <1>3, <1>8, <1>9, <1>10, Zenon
      DEF SwapAmount, AdjustForDecimals
    <2>2. G = UsdgValue(i, a)
      BY <1>2, <1>8, <1>9, <1>10, <1>11
    <2> QED BY <2>1, <2>2
  <1>13. q * M <= a * mi /\ r * Ti <= q * To
    BY <1>8, <1>9, <1>10, <1>12, DivisionBounds
  <1>14. a * mi <= g * P + ei * P /\ g * D <= G * Ti + ei * Ti
    <2>1. am < g * P + P /\ gD < G * Ti + Ti
      BY <1>9, <1>11, DivisionBounds
    <2>2. PICK gP \in Nat, GT \in Nat : gP = g * P /\ GT = G * Ti
      BY ProductNat DEF Positive
    <2>3. CASE ei = 0
      <3>1. mi % P = 0 /\ D % Ti = 0
        BY <1>1, <1>2, <1>5, <2>3 DEF Exact
      <3>2. D \in Nat
        BY DEF Positive
      <3>3. am % P = 0 /\ gD % Ti = 0
        <4>1. (a * mi) % P = 0
          BY <1>4, <3>1, NoRemainder
        <4>2. (g * D) % Ti = 0
          BY <3>1, <3>2, NoRemainder
        <4> QED BY <1>8, <1>10, <4>1, <4>2
      <3>4. am = gP /\ gD = GT
        BY <1>9, <1>11, <2>2, <3>3 DEF Positive
      <3>5. 0 * P = 0 /\ 0 * Ti = 0
        BY DEF Positive
      <3> QED BY <1>8, <1>10, <2>2, <2>3, <3>4, <3>5
    <2>4. CASE ei = 1
      <3>1. 1 * P = P /\ 1 * Ti = Ti
        BY DEF Positive
      <3>2. am <= gP + P /\ gD <= GT + Ti
        BY <2>1, <2>2 DEF Positive
      <3> QED BY <1>8, <1>10, <2>2, <2>4, <3>1, <3>2
    <2> QED BY <1>5, <2>3, <2>4
  <1>15. /\ v * P <= r * mo + eo * P /\ w * To <= v * D + eo * To
         /\ D <= (di + 1) * Ti /\ D <= (do + 1) * To
    BY <1>1, <1>2, <1>5, <1>6, <1>7 DEF RoundedValue
  <1>16. w <= G + ei * (di + 2) + eo * (do + 2)
    <2>1. SwapTerms(a, q, r, g, G, mi, mo, M, v, w, P, D, Ti, To, ei, eo, di, do)
      BY <1>4, <1>13, <1>14, <1>15, Zenon DEF SwapTerms
    <2>2. mo \in Nat /\ mi \in Nat /\ M \in Nat
      BY <1>4
    <2>3. SwapLoss(w, G, ei, eo, di, do)
      BY <2>1, <2>2, SwapWorth
    <2> QED BY <2>3 DEF SwapLoss
  <1>17. PICK x \in Nat, y \in Nat, zi \in Nat, zo \in Nat :
            /\ x = UsdgValue(o, n + r) /\ y = UsdgValue(o, n)
            /\ zi = CoverRounding(i) /\ zo = CoverRounding(o)
    <2>1. n + r \in Nat
      OBVIOUS
    <2>2. UsdgValue(o, n + r) \in Nat /\ UsdgValue(o, n) \in Nat
      BY <2>1, UsdgValueType
    <2>3. CoverRounding(i) \in Nat /\ CoverRounding(o) \in Nat
      BY CoverRoundingType
    <2> QED BY <2>2, <2>3
  <1>18. x <= y + w
    BY <1>7, <1>17, ValueWithout
  <1>19. w <= G + zi + zo
    BY <1>5, <1>6, <1>16, <1>17
  <1>20. x <= y + G + zi + zo
    BY <1>18, <1>19
  <1> QED BY <1>12, <1>17, <1>20

(* What the tokens of a pool are worth in USDG before a step and, with the *)
(* rounding of a pool that moved, after it.                                *)
Worth(t) == UsdgValue(t, poolAmounts[t])
LaterWorth(t) ==
    UsdgValue(t, poolAmounts'[t])
        + IF poolAmounts'[t] = poolAmounts[t] THEN 0 ELSE CoverRounding(t)
Backed == PoolValue' + MoveRoundings >= PoolValue + (usdgSupply' - usdgSupply)

(* Both are amounts, the same for a pool that did not move.                *)
LEMMA WorthTypes ==
  ASSUME TypeOK, TypeOK', NEW t \in Token
  PROVE  /\ Worth(t) \in Nat /\ LaterWorth(t) \in Nat
         /\ poolAmounts'[t] = poolAmounts[t] => LaterWorth(t) = Worth(t)
  <1>1. PICK n \in Nat : n = poolAmounts'[t]
    BY DEF TypeOK
  <1>2. poolAmounts[t] \in Nat
    BY DEF TypeOK
  <1>3. PICK v \in Nat, w \in Nat, z \in Nat :
            v = Worth(t) /\ w = UsdgValue(t, n) /\ z = CoverRounding(t)
    BY <1>2, UsdgValueType, CoverRoundingType DEF Worth
  <1>4. LaterWorth(t) = w + IF n = poolAmounts[t] THEN 0 ELSE z
    BY <1>1, <1>3, Zenon DEF LaterWorth
  <1>5. n = poolAmounts[t] => w = v
    BY <1>3, Zenon DEF Worth
  <1> QED BY <1>1, <1>3, <1>4, <1>5

(* The pools' value is the sum of the tokens'.                             *)
LEMMA WorthSums ==
  ASSUME TypeOK, TypeOK', UNCHANGED prices
  PROVE  /\ PoolValue = SumFunctionOnSet([t \in Token |-> Worth(t)], Token)
         /\ PoolValue' + MoveRoundings
                = SumFunctionOnSet([t \in Token |-> LaterWorth(t)], Token)
  <1> DEFINE v == [t \in Token |-> UsdgValue(t, poolAmounts'[t])]
             r == [t \in Token |-> IF poolAmounts'[t] = poolAmounts[t] THEN 0
                                   ELSE CoverRounding(t)]
             w == [t \in Token |-> LaterWorth(t)]
  <1>1. IsFiniteSet(Token)
    BY TokenAssumption
  <1>2. PoolValue = SumFunctionOnSet([t \in Token |-> Worth(t)], Token)
    BY DEF PoolValue, SumFunction, Worth
  <1>3. PoolValue' = SumFunctionOnSet(v, Token)
    <2>1. \A t \in Token : UsdgValue(t, poolAmounts[t])'
                               = UsdgValue(t, poolAmounts'[t])
      BY DEF UsdgValue, MinPrice
    <2>2. [t \in Token |-> UsdgValue(t, poolAmounts[t])'] = v
      BY <2>1
    <2> QED BY <2>2 DEF PoolValue, SumFunction
  <1>4. MoveRoundings = SumFunctionOnSet(r, Token)
    BY DEF MoveRoundings, SumFunction
  <1>5. ASSUME NEW t \in Token
        PROVE  v[t] \in Int /\ r[t] \in Int /\ w[t] = v[t] + r[t]
    <2>1. PICK n \in Nat : n = poolAmounts'[t]
      BY DEF TypeOK
    <2>2. UsdgValue(t, n) \in Nat /\ CoverRounding(t) \in Nat
      BY UsdgValueType, CoverRoundingType
    <2> QED BY <2>1, <2>2 DEF LaterWorth
  <1> HIDE DEF v, r, w
  <1>6. SumFunctionOnSet(w, Token)
            = SumFunctionOnSet(v, Token) + SumFunctionOnSet(r, Token)
    BY <1>1, <1>5, SumAdd
  <1> QED BY <1>2, <1>3, <1>4, <1>6 DEF w

(* One pool moves by at least what is minted.                              *)
LEMMA OneCovered ==
  ASSUME TypeOK, TypeOK', UNCHANGED prices, NEW t \in Token, NEW x \in Int,
         \A u \in Token \ {t} : poolAmounts'[u] = poolAmounts[u],
         LaterWorth(t) >= Worth(t) + x, usdgSupply' <= usdgSupply + x
  PROVE  Backed
  <1>1. PICK f : f = [u \in Token |-> Worth(u)]
    OBVIOUS
  <1>2. PICK g : g = [u \in Token |-> LaterWorth(u)]
    OBVIOUS
  <1>3. IsFiniteSet(Token)
    BY TokenAssumption
  <1>4. \A u \in Token : f[u] \in Int /\ g[u] \in Int /\ (u # t => g[u] = f[u])
    BY <1>1, <1>2, WorthTypes
  <1>5. SumFunctionOnSet(g, Token) = SumFunctionOnSet(f, Token) + (g[t] - f[t])
    BY <1>3, <1>4, SumChange
  <1>6. SumFunctionOnSet(f, Token) \in Int
    BY <1>3, <1>4, SumType
  <1>7. PICK s \in Int, y \in Int, z \in Int, m \in Nat, n \in Nat :
            /\ s = SumFunctionOnSet(f, Token) /\ y = f[t] /\ z = g[t]
            /\ m = usdgSupply /\ n = usdgSupply'
    BY <1>4, <1>6 DEF TypeOK
  <1>8. z >= y + x /\ n <= m + x
    BY <1>1, <1>2, <1>7
  <1>9. PoolValue = s /\ PoolValue' + MoveRoundings = s + (z - y)
    BY <1>1, <1>2, <1>5, <1>7, WorthSums
  <1>10. s + (z - y) >= s + (n - m)
    BY <1>8
  <1> QED BY <1>7, <1>9, <1>10, Zenon DEF Backed

(* Two pools move by nothing together.                                     *)
LEMMA TwoCovered ==
  ASSUME TypeOK, TypeOK', UNCHANGED <<prices, usdgSupply>>,
         NEW i \in Token, NEW o \in Token, i # o,
         \A u \in Token \ {i, o} : poolAmounts'[u] = poolAmounts[u],
         LaterWorth(i) + LaterWorth(o) >= Worth(i) + Worth(o)
  PROVE  Backed
  <1>1. PICK f : f = [u \in Token |-> Worth(u)]
    OBVIOUS
  <1>2. PICK g : g = [u \in Token |-> LaterWorth(u)]
    OBVIOUS
  <1>3. IsFiniteSet(Token)
    BY TokenAssumption
  <1>4. PICK h : h = [u \in Token |-> IF u = i THEN g[u] ELSE f[u]]
    OBVIOUS
  <1>5. /\ \A u \in Token : f[u] \in Int /\ h[u] \in Int /\ (u # i => h[u] = f[u])
        /\ \A u \in Token : h[u] \in Int /\ g[u] \in Int /\ (u # o => g[u] = h[u])
    BY <1>1, <1>2, <1>4, WorthTypes
  <1>6. SumFunctionOnSet(h, Token) = SumFunctionOnSet(f, Token) + (h[i] - f[i])
    BY <1>3, <1>5, SumChange
  <1>7. SumFunctionOnSet(g, Token) = SumFunctionOnSet(h, Token) + (g[o] - h[o])
    BY <1>3, <1>5, SumChange
  <1>8. SumFunctionOnSet(f, Token) \in Int
    BY <1>3, <1>5, SumType
  <1>9. h[i] = g[i] /\ h[o] = f[o]
    BY <1>4
  <1>10. PICK s \in Int, vi \in Int, vo \in Int, wi \in Int, wo \in Int, m \in Nat :
            /\ s = SumFunctionOnSet(f, Token) /\ vi = f[i] /\ vo = f[o]
            /\ wi = g[i] /\ wo = g[o] /\ m = usdgSupply
    BY <1>5, <1>8 DEF TypeOK
  <1>11. wi + wo >= vi + vo
    BY <1>1, <1>2, <1>10
  <1>12. PoolValue = s /\ PoolValue' + MoveRoundings = (s + (wi - vi)) + (wo - vo)
    BY <1>1, <1>2, <1>6, <1>7, <1>9, <1>10, WorthSums
  <1>13. (s + (wi - vi)) + (wo - vo) >= s + (m - m)
    BY <1>11
  <1>14. usdgSupply' = m
    BY <1>10
  <1> QED BY <1>10, <1>12, <1>13, <1>14, Zenon DEF Backed

(* A step that moves no pool and no USDG keeps the cover,                  *)
LEMMA StillBacked ==
  ASSUME TypeOK, TypeOK', UNCHANGED <<prices, poolAmounts, usdgSupply>>
  PROVE  Backed
  <1>1. [u \in Token |-> Worth(u)] = [u \in Token |-> LaterWorth(u)]
    BY WorthTypes
  <1>2. PICK s : s = SumFunctionOnSet([u \in Token |-> Worth(u)], Token)
    OBVIOUS
  <1>3. \A u \in Token : Worth(u) \in Int
    BY WorthTypes
  <1>4. PICK f : f = [u \in Token |-> Worth(u)]
    OBVIOUS
  <1>5. SumFunctionOnSet(f, Token) \in Int
    BY <1>3, <1>4, SumType, TokenAssumption
  <1>6. PICK m \in Nat : m = usdgSupply
    BY DEF TypeOK
  <1>7. s \in Int
    BY <1>2, <1>4, <1>5
  <1>8. PoolValue = s /\ PoolValue' + MoveRoundings = s
    BY <1>1, <1>2, WorthSums, Zenon
  <1>9. s >= s + (m - m)
    BY <1>7
  <1>10. usdgSupply' = m
    BY <1>6
  <1> QED BY <1>6, <1>8, <1>9, <1>10, Zenon DEF Backed

(* and so does one whose pool grows by what is minted for, or for nothing. *)
LEMMA GrowthBacked ==
  ASSUME TypeOK, TypeOK', UNCHANGED prices, NEW t \in Token, NEW n \in Nat,
         poolAmounts' = [poolAmounts EXCEPT ![t] = @ + n],
         NEW x \in Nat, x <= UsdgValue(t, n), usdgSupply' = usdgSupply + x
  PROVE  Backed
  <1>1. PICK p \in Nat : p = poolAmounts[t]
    BY DEF TypeOK
  <1>2. PICK q \in Nat : q = p + n
    OBVIOUS
  <1>3. poolAmounts'[t] = q /\ \A u \in Token \ {t} : poolAmounts'[u] = poolAmounts[u]
    BY <1>1, <1>2 DEF TypeOK
  <1>4. PICK v \in Nat, w \in Nat, z \in Nat, g \in Nat :
            /\ v = UsdgValue(t, p) /\ w = UsdgValue(t, q)
            /\ z = CoverRounding(t) /\ g = UsdgValue(t, n)
    BY UsdgValueType, CoverRoundingType
  <1>5. v + g <= w
    BY <1>2, <1>4, ValueAdds
  <1>6. PICK k \in Nat : k = IF q = p THEN 0 ELSE z
    OBVIOUS
  <1>7. Worth(t) = v /\ LaterWorth(t) = w + k
    BY <1>1, <1>3, <1>4, <1>6, Zenon DEF Worth, LaterWorth
  <1>8. w + k >= v + x
    BY <1>4, <1>5
  <1>9. LaterWorth(t) >= Worth(t) + x
    BY <1>7, <1>8
  <1>10. usdgSupply' <= usdgSupply + x
    BY DEF TypeOK
  <1> QED BY <1>3, <1>9, <1>10, OneCovered

(* buyUSDG mints no more than the deposit after fees is worth.             *)
LEMMA BuyBacked ==
  ASSUME IInv, TypeOK', NEW t \in Token, BuyUSDG(t, 0)
  PROVE  Backed
  <1> DEFINE amount == TransferIn(t) + 0
             bps == FeeBasisPoints(t, usdgAmounts[t], usdgSupply,
                        UsdgValue(t, amount), fees.mintBurnFeeBasisPoints,
                        fees.taxBasisPoints, TRUE)
             after == AfterFees(amount, bps)
  <1>1. /\ poolAmounts' = [poolAmounts EXCEPT ![t] = @ + after]
        /\ usdgSupply' = usdgSupply + UsdgValue(t, after)
        /\ UNCHANGED prices /\ bps <= BPS
    BY DEF BuyUSDG, envVars
  <1>2. TypeOK /\ t \in Asset /\ TransferIn(t) \in Nat
    BY UnitType, TransferInType DEF IInv
  <1>3. amount \in Nat
    BY <1>2
  <1> HIDE DEF amount
  <1>4. bps \in Nat
    <2>1. UsdgValue(t, amount) \in Nat
      BY <1>2, <1>3, UsdgValueType
    <2>2. usdgAmounts[t] \in Nat /\ usdgSupply \in Nat
      BY <1>2 DEF TypeOK
    <2> QED BY <1>2, <2>1, <2>2, FeeTypes, FeeBasisPointsType
  <1> HIDE DEF bps
  <1>5. after \in Nat
    <2>1. bps \in 0..BPS
      BY <1>1, <1>4, ParameterAssumption DEF Positive
    <2> QED BY <1>3, <2>1, AfterFeesBound
  <1> HIDE DEF after
  <1>6. PICK x \in Nat : x = UsdgValue(t, after)
    BY <1>2, <1>5, UsdgValueType
  <1>7. x <= x
    OBVIOUS
  <1>8. x <= UsdgValue(t, after) /\ usdgSupply' = usdgSupply + x
    BY <1>1, <1>6, <1>7
  <1> QED BY <1>1, <1>2, <1>5, <1>8, GrowthBacked

(* directPoolDeposit mints nothing.                                        *)
LEMMA DepositBacked ==
  ASSUME IInv, TypeOK', NEW t \in Token, DirectPoolDeposit(t)
  PROVE  Backed
  <1>1. TypeOK /\ t \in Asset
    BY UnitType DEF IInv
  <1>2. PICK n \in Nat : n = TransferIn(t)
    BY <1>1, TransferInType
  <1>3. /\ poolAmounts' = [poolAmounts EXCEPT ![t] = @ + n]
        /\ UNCHANGED <<usdgSupply, prices>>
    BY <1>2 DEF DirectPoolDeposit, debtVars, envVars
  <1>4. 0 <= UsdgValue(t, n)
    BY <1>1, UsdgValueType
  <1>5. usdgSupply' = usdgSupply + 0
    BY <1>1, <1>3 DEF TypeOK
  <1> QED BY <1>1, <1>3, <1>4, <1>5, GrowthBacked

(* sellUSDG takes no more off the pool than the USDG it burns is worth.    *)
LEMMA SellBacked ==
  ASSUME IInv, TypeOK', Quoted, NEW t \in Token, SellUSDG(t, 0, 0)
  PROVE  Backed
  <1>1. TypeOK /\ t \in Asset
    BY UnitType DEF IInv
  <1>2. PICK n \in Nat : n = TransferIn(USDG)
    BY TransferInType, UnitType
  <1>3. PICK u \in Nat : u = TransferIn(USDG) + 0
    BY <1>2
  <1>4. PICK r \in Nat : r = RedemptionAmount(t, u)
    BY <1>1, RedemptionType
  <1>5. /\ poolAmounts' = [poolAmounts EXCEPT ![t] = @ - r] /\ r > 0
        /\ usdgSupply' = usdgSupply + 0 - u /\ UNCHANGED prices
    BY <1>3, <1>4, Zenon DEF SellUSDG, envVars
  <1>6. PICK p \in Nat, q \in Nat :
            p = poolAmounts[t] /\ q = poolAmounts'[t]
    BY <1>1 DEF TypeOK
  <1>7. p = q + r /\ \A v \in Token \ {t} : poolAmounts'[v] = poolAmounts[v]
    <2>1. q = p - r
      BY <1>1, <1>5, <1>6 DEF TypeOK
    <2>2. \A v \in Token \ {t} : poolAmounts'[v] = poolAmounts[v]
      BY <1>1, <1>5 DEF TypeOK
    <2> QED BY <2>1, <2>2
  <1>8. PICK v \in Nat, w \in Nat, z \in Nat :
            /\ v = UsdgValue(t, p) /\ w = UsdgValue(t, q) /\ z = CoverRounding(t)
    BY <1>1, UsdgValueType, CoverRoundingType
  <1>9. v <= w + u + z
    <2>1. UsdgValue(t, q + r) <= UsdgValue(t, q) + u + CoverRounding(t)
      BY <1>1, <1>4, RedemptionValue
    <2> QED BY <1>7, <1>8, <2>1
  <1>10. Worth(t) = v /\ LaterWorth(t) = w + z
    <2>1. q # p
      BY <1>5, <1>7
    <2> QED BY <1>6, <1>8, <2>1, Zenon DEF Worth, LaterWorth
  <1>11. PICK x \in Int : x = 0 - u
    OBVIOUS
  <1>12. w + z >= v + x
    BY <1>9, <1>11
  <1>13. LaterWorth(t) >= Worth(t) + x
    BY <1>10, <1>12
  <1>14. usdgSupply' <= usdgSupply + x
    BY <1>1, <1>5, <1>11 DEF TypeOK
  <1> QED BY <1>1, <1>5, <1>7, <1>13, <1>14, OneCovered

(* swap takes no more off one pool than it adds to the other.              *)
LEMMA SwapBacked ==
  ASSUME IInv, TypeOK', Quoted, NEW i \in Token, NEW o \in Token, Swap(i, o)
  PROVE  Backed
  <1>1. TypeOK /\ i \in Asset
    BY UnitType DEF IInv
  <1>2. PICK a \in Nat : a = TransferIn(i)
    BY <1>1, TransferInType
  <1>3. PICK r \in Nat : r = SwapAmount(i, o, a)
    BY <1>1, SwapAmountType
  <1>4. /\ poolAmounts' = [poolAmounts EXCEPT ![i] = @ + a, ![o] = @ - r]
        /\ i # o /\ a > 0 /\ UNCHANGED <<prices, usdgSupply>>
    BY <1>2, <1>3, Zenon DEF Swap, SwapAmount, envVars
  <1>5. PICK p \in Nat, q \in Nat, m \in Nat, n \in Nat :
            /\ p = poolAmounts[i] /\ q = poolAmounts'[i]
            /\ m = poolAmounts[o] /\ n = poolAmounts'[o]
    BY <1>1 DEF TypeOK
  <1>6. /\ q = p + a /\ m = n + r
        /\ \A v \in Token \ {i, o} : poolAmounts'[v] = poolAmounts[v]
    <2>1. q = p + a /\ n = m - r
      BY <1>1, <1>4, <1>5 DEF TypeOK
    <2>2. \A v \in Token \ {i, o} : poolAmounts'[v] = poolAmounts[v]
      BY <1>1, <1>4 DEF TypeOK
    <2> QED BY <2>1, <2>2
  <1>7. PICK vi \in Nat, wi \in Nat, gi \in Nat, zi \in Nat :
            /\ vi = UsdgValue(i, p) /\ wi = UsdgValue(i, q)
            /\ gi = UsdgValue(i, a) /\ zi = CoverRounding(i)
    BY <1>1, UsdgValueType, CoverRoundingType
  <1>8. PICK vo \in Nat, wo \in Nat, zo \in Nat :
            /\ vo = UsdgValue(o, m) /\ wo = UsdgValue(o, n)
            /\ zo = CoverRounding(o)
    BY <1>1, UsdgValueType, CoverRoundingType
  <1>9. vi + gi <= wi
    <2>1. UsdgValue(i, p) + UsdgValue(i, a) <= UsdgValue(i, p + a)
      BY <1>1, ValueAdds
    <2> QED BY <1>6, <1>7, <2>1
  <1>10. vo <= wo + gi + zi + zo
    <2>1. UsdgValue(o, n + r) <= UsdgValue(o, n) + UsdgValue(i, a)
                                     + CoverRounding(i) + CoverRounding(o)
      BY <1>1, <1>3, SwapValue
    <2> QED BY <1>6, <1>7, <1>8, <2>1
  <1>11. Worth(i) = vi /\ LaterWorth(i) = wi + zi
    <2>1. q # p
      BY <1>4, <1>6
    <2> QED BY <1>5, <1>7, <2>1, Zenon DEF Worth, LaterWorth
  <1>12. PICK k \in Nat : k = IF n = m THEN 0 ELSE zo
    OBVIOUS
  <1>13. Worth(o) = vo /\ LaterWorth(o) = wo + k
    BY <1>5, <1>8, <1>12, Zenon DEF Worth, LaterWorth
  <1>14. (wi + zi) + (wo + k) >= vi + vo
    <2>1. CASE n = m
      <3>1. wo = vo /\ k = 0
        BY <1>8, <1>12, <2>1
      <3> QED BY <1>9, <3>1
    <2>2. CASE n # m
      <3>1. k = zo
        BY <1>12, <2>2
      <3> QED BY <1>9, <1>10, <3>1
    <2> QED BY <2>1, <2>2
  <1>15. LaterWorth(i) + LaterWorth(o) >= Worth(i) + Worth(o)
    BY <1>11, <1>13, <1>14
  <1> QED BY <1>1, <1>4, <1>6, <1>15, TwoCovered

(* A deposit that only pays the margin fee adds to the pool of a long what *)
(* the fee does not take.                                                  *)
LEMMA IncreaseBacked ==
  ASSUME IInv, TypeOK', Quoted, NEW s, NEW k \in Keys, NEW d \in Nat,
         IncreasePosition(s, k, d), UNCHANGED positions
  PROVE  Backed
  <1>1. PICK c : c = k.collateralToken
    OBVIOUS
  <1>2. /\ TypeOK /\ EntryRateBehind /\ c \in Token /\ c \in Asset
    BY <1>1, KeyFields, UnitType DEF IInv
  <1>3. PICK amount \in Nat, fee \in Nat :
            amount = TransferIn(c) /\ fee = MarginFee(k, d)
    BY <1>2, TransferInType, MarginFeeType
  <1>4. PICK usd \in Nat, charge \in Nat :
            usd = TokenToUsdMin(TRUE, c, amount) /\ charge = Tokens(c, fee)
    BY <1>2, ConversionType, TokensSum
  <1>5. /\ positions' = [positions EXCEPT ![k] = Increased(k, d)]
        /\ poolAmounts' = [poolAmounts EXCEPT
               ![c] = IF k.isLong THEN poolAmounts[c] + amount - charge
                      ELSE poolAmounts[c]]
        /\ UNCHANGED <<prices, usdgSupply>>
    BY <1>1, <1>3, <1>4, Zenon DEF IncreasePosition, Tokens, envVars, debtVars
  <1>6. PICK coll \in Nat : coll = positions[k].collateral
    BY <1>2 DEF TypeOK, Position
  <1>7. Increased(k, d).collateral = coll + usd - fee
    BY <1>1, <1>3, <1>4, <1>6, Zenon DEF Increased
  <1>8. Increased(k, d) = positions[k]
    BY <1>2, <1>5 DEF TypeOK
  <1>9. usd = fee
    BY <1>6, <1>7, <1>8
  <1>10. charge <= amount
    BY <1>2, <1>4, <1>9, DepositWorth
  <1>11. PICK n \in Nat : n = IF k.isLong THEN amount - charge ELSE 0
    <2>1. PICK m \in Nat : m = amount - charge
      BY <1>10
    <2>2. CASE k.isLong
      BY <2>1, <2>2
    <2>3. CASE ~k.isLong
      BY <2>3
    <2> QED BY <2>2, <2>3
  <1>12. poolAmounts' = [poolAmounts EXCEPT ![c] = @ + n]
    <2>1. PICK p \in Nat : p = poolAmounts[c]
      BY <1>2 DEF TypeOK
    <2>2. (IF k.isLong THEN p + amount - charge ELSE p) = p + n
      BY <1>11
    <2> QED BY <1>5, <2>1, <2>2
  <1>13. 0 <= UsdgValue(c, n)
    BY <1>2, UsdgValueType
  <1>14. usdgSupply' = usdgSupply + 0
    BY <1>2, <1>5 DEF TypeOK
  <1> QED BY <1>2, <1>5, <1>12, <1>13, <1>14, GrowthBacked

(* A call that closes nothing, withdraws nothing and has no fee to charge  *)
(* takes nothing off the pool.                                             *)
LEMMA DecreaseBacked ==
  ASSUME IInv, TypeOK', NEW k \in Keys, NEW amm \in BOOLEAN,
         NEW cd \in Nat, NEW d \in Nat, Decrease(amm, k, cd, d),
         UNCHANGED positions
  PROVE  Backed
  <1>1. PICK c, r : c = k.collateralToken /\ r = Reduction(amm, k, cd, d)
    OBVIOUS
  <1>2. /\ TypeOK /\ EntryRateBehind /\ c \in Token
    BY <1>1, KeyFields DEF IInv
  <1>3. /\ Open(k) /\ d <= positions[k].size /\ positions[k].averagePrice > 0
        /\ r.left >= 0
        /\ positions' = [positions EXCEPT ![k] = Decreased(amm, k, cd, d)]
        /\ poolAmounts' = [poolAmounts EXCEPT
                               ![c] = poolAmounts[c] + r.poolIn - r.poolOut]
        /\ UNCHANGED <<prices, usdgSupply>>
    BY <1>1, Zenon DEF Decrease, Open, envVars, debtVars
  <1>4. PICK size \in Nat, coll \in Nat :
            size = positions[k].size /\ coll = positions[k].collateral
    BY <1>2, PositionType
  <1>5. Decreased(amm, k, cd, d) = positions[k] /\ size > 0
    BY <1>2, <1>3, <1>4 DEF TypeOK, Open
  <1>6. size # d /\ size - d = size /\ r.collateral = coll
    <2>1. positions[k] # NoPosition
      BY <1>4, <1>5 DEF NoPosition
    <2>2. size # d
      BY <1>4, <1>5, <2>1 DEF Decreased
    <2>3. Decreased(amm, k, cd, d).size = size - d
          /\ Decreased(amm, k, cd, d).collateral = r.collateral
      BY <1>1, <1>2, <1>4, <2>2, PositionType DEF Decreased, Position
    <2> QED BY <1>4, <1>5, <2>2, <2>3
  <1>7. d = 0
    BY <1>4, <1>6
  <1>8. PICK fee \in Nat : fee = MarginFee(k, 0)
    BY <1>2, MarginFeeType
  <1>9. PICK delta \in Nat : delta = Delta(amm, k, positions[k])
    BY <1>2, <1>3, PositionType, DeltaType
  <1>10. (d * delta) \div size = 0
    BY <1>5, <1>7
  <1>11. r.profit = 0 /\ r.loss = 0 /\ r.left = coll - cd
    <2>1. PICK pnl \in Nat : pnl = (d * delta) \div size /\ pnl = 0
      BY <1>10
    <2>2. r.profit = IF HasProfit(amm, k, positions[k]) THEN pnl ELSE 0
      BY <1>1, <1>4, <1>9, <2>1, Zenon DEF Reduction
    <2>3. r.loss = pnl - r.profit
      BY <1>1, <1>4, <1>9, <2>1, Zenon DEF Reduction
    <2>4. r.left = coll - r.loss - cd
      BY <1>1, <1>4, <1>9, <2>1, Zenon DEF Reduction
    <2> QED BY <2>1, <2>2, <2>3, <2>4
  <1>12. PICK profit \in Nat, loss \in Nat, left \in Int :
             /\ profit = r.profit /\ loss = r.loss /\ left = r.left
             /\ profit = 0 /\ loss = 0 /\ left = coll - cd
    BY <1>11
  <1>13. PICK out \in Nat : out = profit + cd + 0
    BY <1>12
  <1>14. r.usdOut = out
    <2>1. r.usdOut = r.profit + cd + (IF positions[k].size = d THEN r.left ELSE 0)
      BY <1>1, Zenon DEF Reduction
    <2> QED BY <1>4, <1>6, <1>12, <1>13, <2>1
  <1>15. r.collateral = left - (IF out <= fee THEN fee ELSE 0)
    <2>1. r.collateral = (IF positions[k].size = d THEN 0 ELSE r.left)
                             - (IF r.usdOut <= r.fee THEN r.fee ELSE 0)
      BY <1>1, Zenon DEF Reduction
    <2>2. r.fee = fee
      BY <1>1, <1>7, <1>8, Zenon DEF Reduction
    <2> QED BY <1>4, <1>6, <1>12, <1>14, <2>1, <2>2
  <1>16. cd = 0 /\ fee = 0 /\ out = 0
    BY <1>6, <1>12, <1>13, <1>15
  <1>17. r.poolIn = 0 /\ r.poolOut = 0
    <2>1. UsdToTokenMin(amm, c, 0) = 0
      BY <1>2, ConversionType
    <2>2. r.poolIn = IF k.isLong THEN 0 ELSE UsdToTokenMin(amm, c, r.loss)
      BY <1>1, Zenon DEF Reduction
    <2>3. r.poolOut = IF ~k.isLong THEN UsdToTokenMin(amm, c, r.profit)
                      ELSE UsdToTokenMin(amm, c, r.usdOut) +
                           (IF r.usdOut <= r.fee THEN UsdToTokenMin(amm, c, r.fee)
                                                 ELSE 0)
      BY <1>1, Zenon DEF Reduction
    <2>4. r.fee = 0 /\ r.usdOut = 0 /\ r.profit = 0 /\ r.loss = 0
      <3>1. r.fee = fee
        BY <1>1, <1>7, <1>8, Zenon DEF Reduction
      <3> QED BY <1>11, <1>14, <1>16, <3>1
    <2> QED BY <2>1, <2>2, <2>3, <2>4
  <1>18. UNCHANGED poolAmounts
    BY <1>2, <1>3, <1>17 DEF TypeOK
  <1> QED BY <1>2, <1>3, <1>18, StillBacked

(* A liquidation always closes a position.                                 *)
LEMMA LiquidateMovesPosition ==
  ASSUME TypeOK, NEW k \in Keys, Open(k), NEW m, Liquidate(k, m)
  PROVE  positions' # positions
  <1>1. positions' = [positions EXCEPT ![k] = NoPosition]
    BY Zenon DEF Liquidate
  <1>2. positions'[k].size = 0
    BY <1>1 DEF TypeOK, NoPosition
  <1>3. positions[k].size \in Nat /\ positions[k].size > 0
    BY DEF TypeOK, Open, Position
  <1> QED BY <1>2, <1>3

(* At unchanged prices and positions every action keeps the cover.         *)
LEMMA NextBacked ==
  ASSUME IInv, IInv', Quoted, [Next]_vars, UNCHANGED <<prices, positions>>
  PROVE  Backed
  <1>1. TypeOK /\ TypeOK'
    BY DEF IInv
  <1>2. CASE Environment
    <2>1. UNCHANGED <<poolAmounts, usdgSupply>>
      BY <1>2 DEF Environment, SendTokens, ChangePrice, Tick, ledgerVars,
         debtVars
    <2> QED BY <1>1, <2>1, StillBacked
  <1>3. CASE Pool
    <2>1. ASSUME NEW t \in Token, UpdateCumulativeFundingRate(t) PROVE Backed
      <3>1. UNCHANGED <<poolAmounts, usdgSupply>>
        BY <2>1 DEF UpdateCumulativeFundingRate, ledgerVars, debtVars
      <3> QED BY <1>1, <3>1, StillBacked
    <2> QED BY <1>1, <1>3, <2>1, DepositBacked, BuyBacked, SellBacked,
            SwapBacked DEF Pool
  <1>4. CASE Leverage
    <2>1. PICK k \in Keys :
              \/ \E s \in Callers, d \in SizeDeltas :
                    \/ IncreasePosition(s, k, d)
                    \/ \E cd \in CollateralDeltas :
                          DecreasePosition(s, k, cd, d)
              \/ LiquidatePosition(k)
      BY <1>4 DEF Leverage
    <2>2. CASE LiquidateInsolvent(k)
      BY <1>1, <2>2, LiquidateMovesPosition DEF LiquidateInsolvent
    <2>3. CASE LiquidateOverleveraged(k)
      <3>1. positions[k].size \in Nat
            /\ Decrease(FALSE, k, 0, positions[k].size)
        BY <1>1, <2>3, PositionType DEF LiquidateOverleveraged
      <3> QED BY <1>1, <3>1, DecreaseBacked
    <2>4. ASSUME NEW s \in Callers, NEW d \in SizeDeltas,
                 IncreasePosition(s, k, d)
          PROVE  Backed
      BY <1>1, <2>4, IncreaseBacked, InputAssumption
    <2>5. ASSUME NEW s \in Callers, NEW d \in SizeDeltas,
                 NEW cd \in CollateralDeltas, DecreasePosition(s, k, cd, d)
          PROVE  Backed
      <3>1. d \in Nat /\ cd \in Nat
        BY InputAssumption
      <3>2. Decrease(TRUE, k, cd, d)
        BY <2>5 DEF DecreasePosition
      <3> QED BY <1>1, <3>1, <3>2, DecreaseBacked
    <2> QED BY <2>1, <2>2, <2>3, <2>4, <2>5 DEF LiquidatePosition
  <1>5. CASE Governance
    <2>1. UNCHANGED <<poolAmounts, usdgSupply>>
      BY <1>5 DEF Governance, WithdrawFees, SetUsdgAmount, SetFees,
         SetIsSwapEnabled, SetIsLeverageEnabled, AddRouter, RemoveRouter,
         SetApproval, ledgerVars, debtVars
    <2> QED BY <1>1, <2>1, StillBacked
  <1>6. CASE UNCHANGED vars
    BY <1>1, <1>6, StillBacked DEF vars, ledgerVars, debtVars
  <1> QED BY <1>2, <1>3, <1>4, <1>5, <1>6 DEF Next

-----------------------------------------------------------------------------
(* The invariant holds in every behaviour of the Vault.                    *)
THEOREM Invariance == Spec => []IInv
  BY InitIInv, NextIInv, PTL DEF Spec

(* Type correctness: no ledger of the Vault ever goes below zero, although *)
(* most of them are lowered by amounts the code does not compare first.    *)
THEOREM TypeCorrect == Spec => []TypeOK
  <1>1. IInv => TypeOK
    BY DEF IInv
  <1> QED
    BY <1>1, Invariance, PTL

(* No call can take tokens out of a pool that open positions have          *)
(* reserved (_decreasePoolAmount, _increaseReservedAmount).                *)
THEOREM ReservesAreInPool == Spec => []ReservedWithinPool
  <1>1. IInv => ReservedWithinPool
    BY DEF IInv
  <1> QED
    BY <1>1, Invariance, PTL

(* getFundingFee never underflows, whatever calls accrue funding between   *)
(* the opening and the closing of a position.                              *)
THEOREM FundingFeesComputable == Spec => []EntryRateBehind
  <1>1. IInv => EntryRateBehind
    BY DEF IInv
  <1> QED
    BY <1>1, Invariance, PTL

(* Every open position is fully collateralised in notional terms and can   *)
(* be priced; every closed one is wiped.                                   *)
THEOREM PositionsWellFormed == Spec => []PositionShape
  <1>1. IInv => PositionShape
    BY DEF IInv
  <1> QED
    BY <1>1, Invariance, PTL

(* For every price path, fee setting and interleaving of calls the Vault   *)
(* holds the pool and the fees of every volatile token.                    *)
THEOREM VolatileSolvency == Spec => []VolatileSolvent
  <1>1. IInv => VolatileSolvent
    BY DEF IInv
  <1> QED
    BY <1>1, Invariance, PTL

(* The books are kept in every behaviour of the Vault.                     *)
THEOREM BooksKept == Spec => [](IInv /\ Books)
  <1>1. Init => IInv /\ Books
    BY InitIInv, InitBooks
  <1>2. IInv /\ Books /\ [Next]_vars => (IInv /\ Books)'
    BY NextIInv, NextBooks
  <1> QED BY <1>1, <1>2, PTL DEF Spec

(* A reserve can always be given back: "Vault: insufficient reserve" never *)
(* fails a close, a partial one included.                                  *)
THEOREM ReservesAddUp == Spec => []ReservesMatchPositions
  <1>1. IInv /\ Books => ReservesMatchPositions
    BY DEF Books
  <1> QED BY <1>1, BooksKept, PTL

(* guaranteedUsd is the debt of the longs, fees and losses included.       *)
THEOREM GuaranteesAddUp == Spec => []GuaranteedMatchesLongs
  <1>1. IInv /\ Books => GuaranteedMatchesLongs
    BY DEF Books
  <1> QED BY <1>1, BooksKept, PTL

(* The saturating subtraction of _decreaseGlobalShortSize never saturates. *)
THEOREM ShortSizesAddUp == Spec => []ShortSizesMatchPositions
  <1>1. IInv /\ Books => ShortSizesMatchPositions
    BY DEF Books
  <1> QED BY <1>1, BooksKept, PTL

(* Unless governance sets a debt by hand (setUsdgAmount), what the Vault   *)
(* holds against USDG per token always covers the supply, however sales    *)
(* floor the debt of one token at zero (_decreaseUsdgAmount).              *)
THEOREM DebtsCoverSupply ==
  ASSUME UsdgSettings = {}
  PROVE  Spec => []DebtCoversSupply
  <1>1. Init => IInv /\ DebtCoversSupply
    BY InitIInv, InitDebts
  <1>2. IInv /\ DebtCoversSupply /\ [Next]_vars
            => (IInv /\ DebtCoversSupply)'
    BY NextIInv, NextDebts
  <1> QED BY <1>1, <1>2, PTL DEF Spec

(* No trade, deposit, swap or liquidation makes somebody's position        *)
(* liquidatable: while prices, time and fees stand still, a position that  *)
(* is safe from liquidatePosition stays safe, whoever calls what.          *)
THEOREM NoTradeEndangers == Spec => TradesNeverEndanger
  <1>1. Init => IInv /\ Quoted
    BY InitIInv, InitQuoted
  <1>2. IInv /\ Quoted /\ [Next]_vars => (IInv /\ Quoted)'
    BY NextIInv, NextQuoted
  <1>3. IInv /\ Quoted /\ (IInv /\ Quoted)' /\ [Next]_vars
            => [SameMarket => \A k \in Keys : Safe(k) => Safe(k)']_vars
    BY NextSafe
  <1> QED BY <1>1, <1>2, <1>3, PTL DEF Spec, TradesNeverEndanger

(* Nothing is booked twice: while prices stand still no call books more to *)
(* the pool, the fees or the collateral of a short than came in, or pays   *)
(* out more than it takes off them, beyond the rounding of a short's       *)
(* collateral to one token unit.                                           *)
THEOREM NothingBookedTwice == Spec => SurplusKept
  <1>1. Init => IInv /\ Quoted
    BY InitIInv, InitQuoted
  <1>2. IInv /\ Quoted /\ [Next]_vars => (IInv /\ Quoted)'
    BY NextIInv, NextQuoted
  <1>3. IInv /\ Quoted /\ (IInv /\ Quoted)' /\ [Next]_vars
            => [UNCHANGED prices /\ (\A k \in Keys : ~UncappedLiquidation(k))
                  => \A t \in Token :
                        Surplus(t)' + CollateralRounding(t) >= Surplus(t)]_vars
    BY NextKeeps DEF Kept
  <1> QED BY <1>1, <1>2, <1>3, PTL DEF Spec, SurplusKept

(* USDG stays covered: while prices and positions stand still, no minting, *)
(* redemption, swap, deposit or fee withdrawal raises the supply by more   *)
(* than the pools' value, but for the roundings of the pools that moved;   *)
(* there are none where PricePrecision divides the token's price and the   *)
(* token's unit that of USDG.                                              *)
THEOREM CoverNeverLost == Spec => UsdgCoverKept
  <1>1. Init => IInv /\ Quoted
    BY InitIInv, InitQuoted
  <1>2. IInv /\ Quoted /\ [Next]_vars => (IInv /\ Quoted)'
    BY NextIInv, NextQuoted
  <1>3. IInv /\ Quoted /\ (IInv /\ Quoted)' /\ [Next]_vars
            => [UNCHANGED <<prices, positions>>
                  => PoolValue' + MoveRoundings
                         >= PoolValue + (usdgSupply' - usdgSupply)]_vars
    BY NextBacked DEF Backed
  <1> QED BY <1>1, <1>2, <1>3, PTL DEF Spec, UsdgCoverKept
=============================================================================
