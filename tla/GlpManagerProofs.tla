--------------------------- MODULE GlpManagerProofs ---------------------------
(***************************************************************************)
(* What is proved of GlpManager for every value of its constants: the      *)
(* Vault keeps its invariant and its sums when GlpManager and              *)
(* ShortsTracker drive it, the ledgers of the two keep their types, and    *)
(* the arithmetic of shares never dilutes the holders.                     *)
(***************************************************************************)
EXTENDS GlpManager, VaultProofs

-----------------------------------------------------------------------------
(* The arithmetic of shares.                                               *)

(* The shares minted for `usdg` leave every other share with at least the  *)
(* value it had, at the AUM they are priced at and at any lower one        *)
(* (GlpManager._addLiquidity).                                             *)
THEOREM MintingDoesNotDilute ==
  ASSUME glpSupply \in Nat, AumInUsdg(TRUE) \in Nat,
         NEW aum \in Nat, aum <= AumInUsdg(TRUE), NEW usdg \in Nat
  PROVE  /\ MintAmount(usdg) \in Nat
         /\ (aum + usdg) * glpSupply >= aum * (glpSupply + MintAmount(usdg))
  <1> DEFINE S == glpSupply
             F == AumInUsdg(TRUE)
             q == (usdg * S) \div F
  <1>1. CASE F = 0
    <2>1. aum = 0 /\ MintAmount(usdg) = usdg
      <3>1. AumInUsdg(TRUE) = 0
        BY <1>1
      <3>2. MintAmount(usdg) = usdg
        BY <3>1, Zenon DEF MintAmount
      <3>3. F \in Nat /\ aum <= F
        OBVIOUS
      <3> HIDE DEF F
      <3>4. aum = 0
        BY <1>1, <3>3
      <3> QED
        BY <3>2, <3>4
    <2> DEFINE value == (aum + usdg) * glpSupply
               shares == glpSupply + usdg
    <2>2. value \in Nat /\ shares \in Nat /\ aum * shares = 0
      <3>1. aum + usdg \in Nat /\ shares \in Nat
        OBVIOUS
      <3>2. value \in Nat
        BY <3>1, ProductNat
      <3> HIDE DEF shares
      <3>3. aum * shares = 0
        BY <2>1, <3>1
      <3> QED
        BY <3>1, <3>2, <3>3
    <2>3. glpSupply + MintAmount(usdg) = shares
      BY <2>1
    <2> HIDE DEF value, shares
    <2>4. value >= aum * shares
      BY <2>2
    <2> QED
      BY <2>1, <2>3, <2>4 DEF value
  <1>2. CASE F # 0
    <2>1. F \in Positive /\ usdg * S \in Nat
      BY <1>2, ProductNat DEF Positive
    <2>2. q \in Nat /\ q * F <= usdg * S
      BY <2>1, QuotientNat, DivisionBounds
    <2>3. MintAmount(usdg) = q
      BY <1>2 DEF MintAmount
    <2> HIDE DEF S, F, q
    <2>4. aum * q <= q * F
      <3>1. F \in Int /\ aum \in Int /\ aum <= F
        <4>1. F \in Int
          BY <2>1 DEF Positive
        <4>2. aum <= F
          BY DEF F
        <4> QED
          BY <4>1, <4>2
      <3>2. aum * q <= F * q
        BY <2>2, <3>1, ProductMonotone
      <3> QED
        BY <2>1, <2>2, <3>2 DEF Positive
    <2>5. aum * q <= usdg * S
      BY <2>1, <2>2, <2>4, ProductNat DEF Positive
    <2>6. S \in Nat
      BY DEF S
    <2>7. /\ (aum + usdg) * S = aum * S + usdg * S
          /\ aum * (S + q) = aum * S + aum * q
      BY <2>2, <2>6
    <2>8. aum * S \in Nat /\ aum * q \in Nat /\ usdg * S \in Nat
      BY <2>2, <2>6, ProductNat
    <2>9. (aum + usdg) * S >= aum * (S + q)
      BY <2>5, <2>7, <2>8
    <2> QED
      BY <2>2, <2>3, <2>9 DEF S
  <1> QED
    BY <1>1, <1>2

(* The USDG paid for shares leaves every other share with at least the     *)
(* value it had, at the AUM it is taken from and at any higher one         *)
(* (GlpManager._removeLiquidity).                                          *)
THEOREM RedeemingDoesNotDilute ==
  ASSUME glpSupply \in Positive, AumInUsdg(FALSE) \in Nat,
         NEW aum \in Nat, AumInUsdg(FALSE) <= aum,
         NEW amount \in Nat, amount <= glpSupply
  PROVE  /\ ShareOfAum(amount) \in Nat
         /\ (aum - ShareOfAum(amount)) * glpSupply
                >= aum * (glpSupply - amount)
  <1> DEFINE S == glpSupply
             F == AumInUsdg(FALSE)
             q == (amount * F) \div S
  <1>1. amount * F \in Nat /\ S \in Nat
    BY ProductNat DEF Positive
  <1>2. q \in Nat /\ q * S <= amount * F
    BY <1>1, QuotientNat, DivisionBounds
  <1>3. ShareOfAum(amount) = q
    BY DEF ShareOfAum
  <1>4. F \in Nat /\ F <= aum
    OBVIOUS
  <1> HIDE DEF S, F, q
  <1>5. amount * F <= amount * aum
    <2>1. F * amount <= aum * amount
      BY <1>4, ProductMonotone
    <2> QED
      BY <1>4, <2>1
  <1>6. /\ (aum - q) * S = aum * S - q * S
        /\ aum * (S - amount) = aum * S - amount * aum
    BY <1>1, <1>2
  <1>7. q * S \in Nat /\ amount * aum \in Nat /\ aum * S \in Nat
    BY <1>1, <1>2, ProductNat
  <1>8. (aum - q) * S >= aum * (S - amount)
    BY <1>1, <1>2, <1>5, <1>6, <1>7
  <1> QED
    BY <1>2, <1>3, <1>8 DEF S

-----------------------------------------------------------------------------
(* Types of the tracker.                                                   *)

(* A short's pnl is a number, whatever the prices.                         *)
LEMMA ShortPnlType ==
  ASSUME NEW size \in Nat, NEW average \in Positive, NEW price \in Nat
  PROVE  ShortPnl(size, average, price) \in Int
  <1>1. Distance(average, price) \in Nat
    BY DEF Distance, Positive
  <1>2. (size * Distance(average, price)) \div average \in Nat
    BY <1>1, ProductNat, QuotientNat
  <1> QED
    BY <1>2 DEF ShortPnl

(* What a decrease realises is a number.                                   *)
LEMMA RealisedPnlType ==
  ASSUME IInv, NEW k \in Keys, Open(k), NEW d \in Nat
  PROVE  RealisedPnl(k, d) \in Int
  <1>1. positions[k] \in Position /\ positions[k].averagePrice > 0
        /\ positions[k].size \in Positive
    BY PositionType DEF IInv, PositionShape, Open, Positive
  <1>2. Delta(TRUE, k, positions[k]) \in Nat
    BY <1>1, DeltaType DEF IInv
  <1> DEFINE pnl == (d * Delta(TRUE, k, positions[k])) \div positions[k].size
  <1>3. pnl \in Int /\ - pnl \in Int
    <2>1. pnl \in Nat
      BY <1>1, <1>2, ProductNat, QuotientNat
    <2> HIDE DEF pnl
    <2> QED
      BY <2>1
  <1>4. RealisedPnl(k, d) = pnl \/ RealisedPnl(k, d) = - pnl
    BY DEF RealisedPnl
  <1> HIDE DEF pnl
  <1> QED
    BY <1>3, <1>4, Zenon

(* An update of the tracker writes a price.                                *)
LEMMA UpdateTracker ==
  ASSUME TypeOK, TrackerOK, NEW k \in Keys, NEW price \in Positive,
         NEW nextSize \in Int, NEW realised \in Int,
         UpdateGlobalShortData(k, price, nextSize, realised)
  PROVE  TrackerOK'
  <1> DEFINE t == k.indexToken
             average == trackedAveragePrices[t]
             size == globalShortSizes[t]
             divisor == nextSize + realised - ShortPnl(size, average, price)
  <1>1. /\ t \in Volatile /\ average \in Nat /\ size \in Nat
        /\ price \in Nat /\ nextSize \in Nat
    BY KeyFields DEF TypeOK, TrackerOK, UpdateGlobalShortData, Positive
  <1>2. ASSUME nextSize # 0, average # 0
        PROVE  (price * nextSize) \div divisor \in Nat
    <2>1. average \in Positive
      BY <1>1, <1>2 DEF Positive
    <2>2. ShortPnl(size, average, price) \in Int
      BY <1>1, <2>1, ShortPnlType
    <2>3. nextSize + realised > ShortPnl(size, average, price)
      BY <1>1, <1>2 DEF UpdateGlobalShortData, TrackedAverageComputable
    <2>4. divisor \in Positive
      BY <1>1, <2>2, <2>3 DEF Positive
    <2> QED
      BY <1>1, <2>4, ProductNat, QuotientNat
  <1>3. NextTrackedAverage(k, price, nextSize, realised) \in Nat
    BY <1>1, <1>2 DEF NextTrackedAverage
  <1> QED
    BY <1>1, <1>3 DEF UpdateGlobalShortData, TrackerOK

(* What a position manager tells the tracker before a trade keeps it so.   *)
LEMMA TrackTrade ==
  ASSUME IInv, TrackerOK, NEW k \in Keys, NEW d \in Nat,
         TrackIncrease(k, d) \/ (Open(k) /\ TrackDecrease(k, d))
  PROVE  TrackerOK'
  <1>1. TypeOK
    BY DEF IInv
  <1>2. /\ globalShortSizes[k.indexToken] \in Nat
        /\ MarkPrice(TRUE, k) \in Positive /\ EntryPrice(k) \in Positive
    BY <1>1, KeyFields, MarkPriceType DEF TypeOK
  <1>3. CASE ~Tracks(k, d)
    BY <1>3 DEF TrackIncrease, TrackDecrease, trackerVars, TrackerOK
  <1>4. CASE Tracks(k, d) /\ TrackIncrease(k, d)
    <2>1. UpdateGlobalShortData(k, EntryPrice(k),
              globalShortSizes[k.indexToken] + d, 0)
      BY <1>4 DEF TrackIncrease
    <2>2. globalShortSizes[k.indexToken] + d \in Int
      BY <1>2
    <2> QED
      BY <1>1, <1>2, <2>1, <2>2, UpdateTracker
  <1>5. CASE Tracks(k, d) /\ Open(k) /\ TrackDecrease(k, d)
    <2>1. UpdateGlobalShortData(k, MarkPrice(TRUE, k),
              globalShortSizes[k.indexToken] - d, RealisedPnl(k, d))
      BY <1>5 DEF TrackDecrease
    <2>2. globalShortSizes[k.indexToken] - d \in Int
      BY <1>2
    <2>3. RealisedPnl(k, d) \in Int
      BY <1>5, RealisedPnlType
    <2> QED
      BY <1>1, <1>2, <2>1, <2>2, <2>3, UpdateTracker
  <1> QED
    BY <1>3, <1>4, <1>5

-----------------------------------------------------------------------------
(* The composition.                                                        *)

(* The Vault's invariant together with the types of tracker and manager.   *)
GlpIInv == IInv /\ GlpTypeOK

(* GlpManager's own ledgers and settings, the part of GlpTypeOK that is    *)
(* neither the Vault's nor the tracker's.                                  *)
ManagerOK ==
    /\ glpBalances \in [Providers -> Nat] /\ glpSupply \in Nat
    /\ lastAddedAt \in [Providers -> Nat] /\ managerUsdg \in Nat
    /\ cooldownDuration \in 0..MaxCooldown
    /\ shortsTrackerAveragePriceWeight \in Nat
    /\ aumAddition \in Nat /\ aumDeduction \in Nat
    /\ inPrivateMode \in BOOLEAN /\ calls \in Nat

(* The invariant, part by part.                                            *)
LEMMA GlpParts ==
  /\ GlpIInv <=> (IInv /\ TrackerOK /\ ManagerOK)
  /\ GlpIInv' <=> (IInv' /\ TrackerOK' /\ ManagerOK')
  BY DEF GlpIInv, GlpTypeOK, ManagerOK, IInv

(* A step that leaves the Vault alone keeps its invariant.                 *)
LEMMA VaultUnchanged == ASSUME IInv, UNCHANGED vars PROVE IInv'
  BY DEF IInv, vars, ledgerVars, debtVars, fundingVars, positionVars,
     configVars, envVars, TypeOK, BalancesRecorded, EntryRateBehind,
     PositionShape, Open, ReservedWithinPool, VolatileSolvent

(* A step that leaves the manager alone keeps its types.                   *)
LEMMA ManagerUnchanged ==
  ASSUME ManagerOK, UNCHANGED <<shareVars, managerVars, calls>> PROVE ManagerOK'
  BY DEF ManagerOK, shareVars, managerVars, adjustmentVars

(* The weighted average is an amount wherever getAum accepts the weight.   *)
LEMMA AverageOfShortsType ==
  ASSUME TypeOK, TrackerOK, ManagerOK, AumDefined, NEW t \in Volatile,
         globalShortSizes[t] > 0
  PROVE  AveragePriceOfShorts(t) \in Nat
  <1> DEFINE w == shortsTrackerAveragePriceWeight
             a == globalShortAveragePrices[t]
             b == trackedAveragePrices[t]
             mixed == (a * (BPS - w) + b * w) \div BPS
  <1>1. a \in Nat /\ b \in Nat /\ w \in Nat /\ BPS \in Positive
    BY ParameterAssumption DEF TypeOK, TrackerOK, ManagerOK
  <1>2. isGlobalShortDataReady => w <= BPS
    BY DEF AumDefined
  <1>3. isGlobalShortDataReady => mixed \in Nat
    <2> HIDE DEF w, a, b
    <2>1. BPS - w \in Nat \/ ~isGlobalShortDataReady
      BY <1>1, <1>2 DEF Positive
    <2>2. a * (BPS - w) \in Nat \/ ~isGlobalShortDataReady
      BY <1>1, <2>1, ProductNat
    <2>3. b * w \in Nat
      BY <1>1, ProductNat
    <2> QED
      BY <1>1, <2>2, <2>3, QuotientNat
  <1>4. AveragePriceOfShorts(t) = a \/ AveragePriceOfShorts(t) = b
        \/ (isGlobalShortDataReady /\ AveragePriceOfShorts(t) = mixed)
    BY DEF AveragePriceOfShorts
  <1> HIDE DEF mixed
  <1> QED
    BY <1>1, <1>3, <1>4

(* Whatever the tracked average is, a divisor that getAum gets to is not   *)
(* zero, and its signed and unsigned parts give a number for each token.   *)
LEMMA TokenAumType ==
  ASSUME GlpIInv, AumDefined, NEW maximise \in BOOLEAN, NEW t \in Token
  PROVE  TokenAum(maximise, t) \in Int
  <1> DEFINE price == AumPrice(maximise, t)
  <1>1. /\ IInv /\ TypeOK /\ TrackerOK /\ ManagerOK
        /\ TokenUnit[t] \in Positive
    BY GlpParts, UnitType DEF IInv
  <1>2. price \in Positive /\ price \in Nat
    BY <1>1, PriceType DEF AumPrice, Positive
  <1>3. /\ poolAmounts[t] \in Nat /\ reservedAmounts[t] \in Nat
        /\ guaranteedUsd[t] \in Nat
    BY <1>1 DEF TypeOK
  <1> HIDE DEF price
  <1>4. CASE t \in Stable
    <2>1. (poolAmounts[t] * price) \div TokenUnit[t] \in Nat
      BY <1>1, <1>2, <1>3, ProductNat, QuotientNat
    <2> QED
      BY <1>4, <2>1 DEF TokenAum, price
  <1>5. CASE t \notin Stable
    <2>1. t \in Volatile
      BY <1>5 DEF Token
    <2>2. poolAmounts[t] - reservedAmounts[t] \in Nat
      BY <1>3, <2>1 DEF AumDefined
    <2> DEFINE free == ((poolAmounts[t] - reservedAmounts[t]) * price)
                           \div TokenUnit[t]
    <2>3. free \in Nat
      BY <1>1, <1>2, <2>2, ProductNat, QuotientNat
    <2>4. ShortsPnl(t, price) \in Int
      <3>1. globalShortSizes[t] \in Nat
        BY <1>1, <2>1 DEF TypeOK
      <3>2. CASE globalShortSizes[t] = 0
        BY <3>2 DEF ShortsPnl
      <3>3. CASE globalShortSizes[t] # 0
        <4>1. AveragePriceOfShorts(t) > 0
          BY <2>1, <3>1, <3>3 DEF AumDefined
        <4>2. AveragePriceOfShorts(t) \in Nat
          BY <1>1, <2>1, <3>1, <3>3, AverageOfShortsType
        <4>3. AveragePriceOfShorts(t) \in Positive
          BY <4>1, <4>2 DEF Positive
        <4> QED
          BY <1>2, <3>1, <3>3, <4>3, ShortPnlType DEF ShortsPnl
      <3> QED
        BY <3>2, <3>3
    <2>5. TokenAum(maximise, t) = guaranteedUsd[t] + free - ShortsPnl(t, price)
      BY <1>5 DEF TokenAum, price
    <2> HIDE DEF free
    <2> QED
      BY <1>3, <2>3, <2>4, <2>5
  <1> QED
    BY <1>4, <1>5

(* The AUM is an amount, in USD and in USDG.                               *)
LEMMA AumType ==
  ASSUME GlpIInv, AumDefined, NEW maximise \in BOOLEAN
  PROVE  AumInUsdg(maximise) \in Nat
  <1> DEFINE part == [t \in Token |-> TokenAum(maximise, t)]
             total == SumFunction(part)
             gross == aumAddition + total
  <1>1. DOMAIN part = Token /\ \A t \in DOMAIN part : part[t] \in Int
    BY TokenAumType
  <1>2. total \in Int
    <2>1. IsFiniteSet(DOMAIN part)
      BY <1>1, TokenAssumption
    <2> HIDE DEF part
    <2>2. SumFunctionOnSet(part, DOMAIN part) \in Int
      BY <1>1, <2>1, SumType
    <2> QED
      BY <2>2 DEF SumFunction
  <1>3. aumAddition \in Nat /\ aumDeduction \in Nat
    BY GlpParts DEF ManagerOK
  <1>4. Aum(maximise) = LessDown(IF gross < 0 THEN 0 ELSE gross, aumDeduction)
    BY DEF Aum
  <1> HIDE DEF total
  <1>5. Aum(maximise) \in Nat
    BY <1>2, <1>3, <1>4 DEF LessDown
  <1>6. TokenUnit[USDG] \in Positive /\ PricePrecision \in Positive
    BY UnitType, ParameterAssumption
  <1>7. Aum(maximise) * TokenUnit[USDG] \in Nat
    BY <1>5, <1>6, ProductNat DEF Positive
  <1> QED
    BY <1>6, <1>7, QuotientNat DEF AumInUsdg

(* What is minted for a deposit and paid for shares are amounts.           *)
LEMMA MintAmountType ==
  ASSUME GlpIInv, AumDefined, NEW usdg \in Nat PROVE MintAmount(usdg) \in Nat
  <1> DEFINE aum == AumInUsdg(TRUE)
  <1>1. aum \in Nat /\ glpSupply \in Nat
    BY AumType, GlpParts DEF ManagerOK
  <1>2. MintAmount(usdg)
            = IF aum = 0 THEN usdg ELSE (usdg * glpSupply) \div aum
    BY DEF MintAmount
  <1> HIDE DEF aum
  <1>3. aum # 0 => (usdg * glpSupply) \div aum \in Nat
    BY <1>1, ProductNat, QuotientNat DEF Positive
  <1> QED
    BY <1>2, <1>3

LEMMA ShareOfAumType ==
  ASSUME GlpIInv, AumDefined, NEW n \in Nat, glpSupply # 0
  PROVE  ShareOfAum(n) \in Nat
  <1> DEFINE aum == AumInUsdg(FALSE)
  <1>1. aum \in Nat /\ glpSupply \in Positive
    BY AumType, GlpParts DEF ManagerOK, Positive
  <1>2. ShareOfAum(n) = (n * aum) \div glpSupply
    BY DEF ShareOfAum
  <1> HIDE DEF aum
  <1> QED
    BY <1>1, <1>2, ProductNat, QuotientNat

(* GlpManager.addLiquidity                                                 *)
LEMMA AddLiquidityInv ==
  ASSUME GlpIInv, NEW caller, NEW account \in Providers, NEW t \in Token,
         NEW n \in Nat, AddLiquidity(caller, account, t, n)
  PROVE  GlpIInv'
  <1> USE GlpParts DEF AddLiquidity, CountCall
  <1>1. IInv' /\ usdgSupply <= usdgSupply'
    BY BuyUSDGIInv
  <1>2. TrackerOK'
    BY DEF TrackerOK, trackerVars
  <1> DEFINE usdg == usdgSupply' - usdgSupply
             minted == MintAmount(usdg)
  <1>3. usdg \in Nat /\ minted \in Nat /\ now \in Nat
    <2>1. usdg \in Nat /\ now \in Nat /\ AumDefined
      BY <1>1 DEF IInv, TypeOK
    <2> QED
      BY <2>1, MintAmountType
  <1>4. /\ glpBalances' = [glpBalances EXCEPT ![account] = @ + minted]
        /\ glpSupply' = glpSupply + minted
        /\ lastAddedAt' = [lastAddedAt EXCEPT ![account] = now]
        /\ managerUsdg' = managerUsdg + usdg
        /\ calls' = calls + 1 /\ UNCHANGED managerVars
    OBVIOUS
  <1>5. ManagerOK'
    <2> HIDE DEF AddLiquidity, CountCall, usdg, minted
    <2>1. ManagerOK
      OBVIOUS
    <2>2. /\ glpBalances' \in [Providers -> Nat] /\ glpSupply' \in Nat
          /\ lastAddedAt' \in [Providers -> Nat] /\ managerUsdg' \in Nat
          /\ calls' \in Nat
      BY <1>3, <1>4, <2>1 DEF ManagerOK
    <2> QED
      BY <1>4, <2>1, <2>2 DEF ManagerOK, managerVars, adjustmentVars
  <1> QED
    BY <1>1, <1>2, <1>5

(* Shares are redeemed out of a supply that is not zero.                   *)
LEMMA RedeemedType ==
  ASSUME GlpIInv, NEW caller, NEW account \in Providers, NEW t \in Token,
         NEW n \in Nat, RemoveLiquidity(caller, account, t, n)
  PROVE  ShareOfAum(n) \in Nat
  <1>1. AumDefined /\ n > 0 /\ n <= glpSupply /\ glpSupply \in Nat
    BY GlpParts DEF RemoveLiquidity, ManagerOK
  <1>2. glpSupply # 0
    BY <1>1
  <1> QED
    BY <1>1, <1>2, ShareOfAumType

(* GlpManager.removeLiquidity                                              *)
LEMMA RemoveLiquidityInv ==
  ASSUME GlpIInv, NEW caller, NEW account \in Providers, NEW t \in Token,
         NEW n \in Nat, RemoveLiquidity(caller, account, t, n)
  PROVE  GlpIInv'
  <1> DEFINE usdg == ShareOfAum(n)
  <1> USE GlpParts DEF RemoveLiquidity
  <1>1. usdg \in Nat /\ managerUsdg \in Nat
    BY RedeemedType DEF ManagerOK
  <1>2. MissingUsdg(usdg) \in Nat /\ usdg <= managerUsdg + MissingUsdg(usdg)
    <2> HIDE DEF usdg
    <2> QED
      BY <1>1 DEF MissingUsdg, LessDown
  <1>3. IInv'
    BY <1>1, <1>2, SellUSDGIInv
  <1>4. TrackerOK'
    BY DEF TrackerOK, trackerVars
  <1>5. managerUsdg' \in Nat
    BY <1>1, <1>2
  <1>6. ManagerOK'
    BY <1>5 DEF ManagerOK, managerVars, adjustmentVars
  <1> QED
    BY <1>3, <1>4, <1>6

(* The setters of the manager.                                             *)
LEMMA ManagerGovernanceInv ==
  ASSUME GlpIInv, ManagerGovernance PROVE GlpIInv'
  <1>1. UNCHANGED vars /\ UNCHANGED trackerVars
    BY DEF ManagerGovernance, SetShortsTrackerAveragePriceWeight,
       SetCooldownDuration, SetAumAdjustment, SetInPrivateMode
  <1>2. IInv' /\ TrackerOK'
    BY <1>1, GlpParts, VaultUnchanged DEF TrackerOK, trackerVars
  <1>3. ManagerOK'
    <2> USE GlpParts, GlpAssumption DEF ManagerOK, shareVars, adjustmentVars,
            CountCall
    <2>1. ASSUME NEW w \in WeightSettings,
                 SetShortsTrackerAveragePriceWeight(w)
          PROVE  ManagerOK'
      BY <2>1 DEF SetShortsTrackerAveragePriceWeight
    <2>2. ASSUME NEW d \in CooldownSettings, SetCooldownDuration(d)
          PROVE  ManagerOK'
      BY <2>2 DEF SetCooldownDuration
    <2>3. ASSUME NEW s \in AumSettings, SetAumAdjustment(s[1], s[2])
          PROVE  ManagerOK'
      BY <2>3 DEF SetAumAdjustment
    <2>4. ASSUME NEW b \in PrivateSettings, SetInPrivateMode(b)
          PROVE  ManagerOK'
      BY <2>4 DEF SetInPrivateMode
    <2> HIDE DEF ManagerOK
    <2> QED
      BY <2>1, <2>2, <2>3, <2>4 DEF ManagerGovernance
  <1> QED
    BY <1>2, <1>3, GlpParts

(* Trades that the position managers make.                                 *)
LEMMA TrackedTradesInv ==
  ASSUME IInv, TrackerOK, TrackedTrades PROVE IInv' /\ TrackerOK'
  <1>1. ASSUME NEW k \in Keys, NEW d \in SizeDeltas, TrackedIncrease(k, d)
        PROVE  IInv' /\ TrackerOK'
    <2>1. /\ d \in Nat /\ TrackIncrease(k, d)
          /\ IncreasePosition(Router, k, d)
      BY <1>1, InputAssumption DEF TrackedIncrease
    <2> QED
      BY <2>1, TrackTrade, IncreasePositionIInv
  <1>2. ASSUME NEW k \in Keys, NEW d \in SizeDeltas,
               NEW cd \in CollateralDeltas, TrackedDecrease(k, cd, d)
        PROVE  IInv' /\ TrackerOK'
    <2>1. /\ d \in Nat /\ cd \in Nat /\ Open(k) /\ TrackDecrease(k, d)
          /\ Decrease(TRUE, k, cd, d)
      BY <1>2, InputAssumption DEF TrackedDecrease, DecreasePosition
    <2> QED
      BY <2>1, TrackTrade, DecreaseIInv
  <1>3. ASSUME NEW k \in Keys, TrackedLiquidation(k)
        PROVE  IInv' /\ TrackerOK'
    <2>1. /\ Open(k) /\ TrackDecrease(k, positions[k].size)
          /\ LiquidatePosition(k)
      BY <1>3 DEF TrackedLiquidation
    <2>2. positions[k].size \in Nat
      BY PositionType DEF IInv
    <2> QED
      BY <2>1, <2>2, TrackTrade, LiquidatePositionIInv
  <1> QED
    BY <1>1, <1>2, <1>3 DEF TrackedTrades

(* Trades that bypass them.                                                *)
LEMMA DirectTradesInv ==
  ASSUME IInv, TrackerOK, DirectTrades PROVE IInv' /\ TrackerOK'
  <1>1. ASSUME NEW k \in Keys, NEW d \in DirectDeltas, DirectDecrease(k, d)
        PROVE  IInv' /\ TrackerOK'
    <2>1. d \in Nat /\ 0 \in Nat /\ Decrease(TRUE, k, 0, d)
      BY <1>1, ShortsTrackerAssumption DEF DirectDecrease, DecreasePosition
    <2>2. IInv'
      BY <2>1, DecreaseIInv
    <2> QED
      BY <1>1, <2>2 DEF DirectDecrease, TrackerOK, trackerVars
  <1>2. ASSUME NEW k \in Keys, DirectLiquidation(k)
        PROVE  IInv' /\ TrackerOK'
    <2>1. IInv'
      BY <1>2, LiquidatePositionIInv DEF DirectLiquidation
    <2> QED
      BY <1>2, <2>1 DEF DirectLiquidation, TrackerOK, trackerVars
  <1> QED
    BY <1>1, <1>2 DEF DirectTrades

(* setInitData and the switch of the tracker.                              *)
LEMMA TrackerGovernanceInv ==
  ASSUME IInv, TrackerOK, TrackerGovernance PROVE IInv' /\ TrackerOK'
  <1>1. UNCHANGED vars
    BY DEF TrackerGovernance, SetInitData, SetIsGlobalShortDataReady
  <1>2. TrackerOK'
    BY ShortsTrackerAssumption DEF TrackerGovernance, SetInitData,
       SetIsGlobalShortDataReady, TrackerOK
  <1> QED
    BY <1>1, <1>2, VaultUnchanged

(* What goes on in the Vault besides.                                      *)
LEMMA VaultStepIInv == ASSUME IInv, VaultStep PROVE IInv'
  <1>1. CASE Governance
    BY <1>1, GovernanceIInv
  <1>2. ASSUME NEW t \in Token, NEW u \in Token, Swap(t, u) PROVE IInv'
    BY <1>2, SwapIInv
  <1>3. ASSUME NEW t \in Token,
               UpdateCumulativeFundingRate(t) \/ DirectPoolDeposit(t)
        PROVE  IInv'
    BY <1>3, UpdateFundingIInv, DirectPoolDepositIInv
  <1>4. CASE Environment
    BY <1>4, EnvironmentIInv
  <1> QED
    BY <1>1, <1>2, <1>3, <1>4 DEF VaultStep

(* Nothing the composition starts with or does breaks the invariant.       *)
LEMMA GlpInitInv == GlpInit => GlpIInv
  <1> SUFFICES ASSUME GlpInit PROVE GlpIInv
    OBVIOUS
  <1>1. IInv
    BY InitIInv DEF GlpInit
  <1>2. TrackerOK
    BY ShortsTrackerAssumption DEF GlpInit, TrackerInit, TrackerOK
  <1>3. ManagerOK
    <2>1. 0 \in 0..MaxCooldown /\ InitWeight \in Nat
      BY GlpAssumption
    <2>2. inPrivateMode \in BOOLEAN
      BY DEF GlpInit
    <2> QED
      BY <2>1, <2>2, Zenon DEF GlpInit, ManagerOK
  <1> QED
    BY <1>1, <1>2, <1>3, GlpParts

LEMMA GlpNextInv == GlpIInv /\ [GlpNext]_glpVars => GlpIInv'
  <1> SUFFICES ASSUME GlpIInv, [GlpNext]_glpVars PROVE GlpIInv'
    OBVIOUS
  <1> USE GlpParts
  <1>1. CASE Liquidity
    <2>1. ASSUME NEW account \in Providers, NEW caller, NEW t \in Token,
                 NEW n \in LiquidityAmounts[t],
                 AddLiquidity(caller, account, t, n)
          PROVE  GlpIInv'
      BY <2>1, AddLiquidityInv, GlpAssumption
    <2>2. ASSUME NEW account \in Providers, NEW caller, NEW t \in Token,
                 NEW n \in GlpAmounts,
                 RemoveLiquidity(caller, account, t, n)
          PROVE  GlpIInv'
      BY <2>2, RemoveLiquidityInv, GlpAssumption
    <2> QED
      BY <1>1, <2>1, <2>2 DEF Liquidity
  <1>2. CASE ManagerGovernance
    BY <1>2, ManagerGovernanceInv
  <1>3. CASE TrackedTrades /\ UNCHANGED <<shareVars, managerVars, calls>>
    BY <1>3, TrackedTradesInv, ManagerUnchanged
  <1>4. CASE DirectTrades /\ UNCHANGED <<shareVars, managerVars, calls>>
    BY <1>4, DirectTradesInv, ManagerUnchanged
  <1>5. CASE TrackerGovernance /\ UNCHANGED <<shareVars, managerVars, calls>>
    BY <1>5, TrackerGovernanceInv, ManagerUnchanged
  <1>6. CASE VaultStep /\ UNCHANGED <<trackerVars, shareVars, managerVars, calls>>
    <2>1. IInv' /\ ManagerOK'
      BY <1>6, VaultStepIInv, ManagerUnchanged
    <2>2. TrackerOK'
      BY <1>6 DEF TrackerOK, trackerVars
    <2> QED
      BY <2>1, <2>2
  <1>7. CASE UNCHANGED glpVars
    <2>1. IInv' /\ ManagerOK'
      BY <1>7, VaultUnchanged, ManagerUnchanged DEF glpVars
    <2>2. TrackerOK'
      BY <1>7 DEF glpVars, TrackerOK, trackerVars
    <2> QED
      BY <2>1, <2>2
  <1> QED
    BY <1>1, <1>2, <1>3, <1>4, <1>5, <1>6, <1>7 DEF GlpNext

-----------------------------------------------------------------------------
(* The books of the Vault when the manager and the tracker drive it.       *)

(* Trades keep the totals equal to the sums over the positions, whether    *)
(* they go through the tracker or not.                                     *)
LEMMA TradesKeepBooks ==
  ASSUME IInv, Books, TrackedTrades \/ DirectTrades
  PROVE  Books'
  <1>1. PICK k \in Keys :
            \/ \E d \in Nat : IncreasePosition(Router, k, d)
            \/ \E d \in Nat, cd \in Nat : Decrease(TRUE, k, cd, d)
            \/ LiquidatePosition(k)
    BY InputAssumption, ShortsTrackerAssumption
    DEF TrackedTrades, TrackedIncrease, TrackedDecrease, TrackedLiquidation,
        DirectTrades, DirectDecrease, DirectLiquidation, DecreasePosition
  <1> QED BY <1>1, IncreaseBooks, DecreaseBooks, LiquidatePositionBooks

(* Liquidity, settings and transfers leave the positions alone.            *)
LEMMA OtherGlpStepsKeepPositions ==
  Liquidity \/ ManagerGovernance \/ TrackerGovernance \/ VaultStep
      => UNCHANGED positionVars
  <1>1. Liquidity => UNCHANGED positionVars
    BY OtherStepsKeepPositions DEF Liquidity, AddLiquidity, RemoveLiquidity
  <1>2. ManagerGovernance \/ TrackerGovernance => UNCHANGED positionVars
    BY DEF ManagerGovernance, SetShortsTrackerAveragePriceWeight,
           SetCooldownDuration, SetAumAdjustment, SetInPrivateMode,
           TrackerGovernance, SetInitData, SetIsGlobalShortDataReady, vars
  <1>3. VaultStep => UNCHANGED positionVars
    BY OtherStepsKeepPositions DEF VaultStep
  <1> QED BY <1>1, <1>2, <1>3

(* The Vault's books are kept by every action of the composition.          *)
LEMMA GlpNextBooks ==
  ASSUME GlpIInv, Books, [GlpNext]_glpVars PROVE Books'
  <1>1. CASE UNCHANGED positionVars
    BY <1>1, BooksUntouched
  <1>2. CASE Liquidity \/ ManagerGovernance \/ TrackerGovernance \/ VaultStep
    BY <1>1, <1>2, OtherGlpStepsKeepPositions
  <1>3. CASE TrackedTrades \/ DirectTrades
    BY <1>3, TradesKeepBooks DEF GlpIInv
  <1>4. CASE UNCHANGED glpVars
    BY <1>1, <1>4 DEF glpVars, vars
  <1> QED BY <1>2, <1>3, <1>4 DEF GlpNext

-----------------------------------------------------------------------------
(* The debt of the tokens when the manager mints and burns USDG.           *)

(* Whatever USDG exists is the manager's, or was sent to the Vault and is  *)
(* burned by the next sale.                                                *)
UsdgInManager == /\ tokenBalances[USDG] = 0
                 /\ usdgSupply <= managerUsdg + balance[USDG]

(* Buying liquidity mints to the manager.                                  *)
LEMMA AddLiquidityDebts ==
  ASSUME GlpIInv, UsdgInManager, DebtCoversSupply, NEW caller,
         NEW account \in Providers, NEW t \in Token, NEW n \in Nat,
         AddLiquidity(caller, account, t, n)
  PROVE  UsdgInManager' /\ DebtCoversSupply'
  <1>1. BuyUSDG(t, n) /\ IInv /\ ManagerOK
    BY GlpParts DEF AddLiquidity
  <1>2. DebtCoversSupply'
    BY <1>1, BuyDebts
  <1>3. /\ managerUsdg' = managerUsdg + (usdgSupply' - usdgSupply)
        /\ balance' = [balance EXCEPT ![t] = @ + n]
        /\ tokenBalances' = [tokenBalances EXCEPT ![t] = balance'[t]]
    BY DEF AddLiquidity, BuyUSDG
  <1>4. /\ balance \in [Asset -> Nat] /\ tokenBalances \in [Asset -> Nat]
        /\ usdgSupply \in Nat /\ usdgSupply' \in Nat /\ managerUsdg \in Nat
    BY <1>1, BuyUSDGIInv DEF IInv, TypeOK, ManagerOK
  <1>5. balance'[USDG] = balance[USDG] /\ tokenBalances'[USDG] = 0
        /\ balance[USDG] \in Nat
    BY <1>3, <1>4, UnitType DEF UsdgInManager
  <1> QED BY <1>2, <1>3, <1>4, <1>5 DEF UsdgInManager

(* Redeeming liquidity mints only when the manager spends all it holds;    *)
(* then no USDG is left.                                                   *)
LEMMA RemoveLiquidityDebts ==
  ASSUME GlpIInv, UsdgInManager, DebtCoversSupply, NEW caller,
         NEW account \in Providers, NEW t \in Token, NEW n \in Nat,
         RemoveLiquidity(caller, account, t, n)
  PROVE  UsdgInManager' /\ DebtCoversSupply'
  <1> DEFINE usdg == ShareOfAum(n)
             fresh == MissingUsdg(usdg)
             amount == TransferIn(USDG) + usdg
  <1>1. IInv /\ ManagerOK /\ SellUSDG(t, fresh, usdg) /\ usdg \in Nat
    BY GlpParts, RedeemedType DEF RemoveLiquidity
  <1>2. /\ managerUsdg' = managerUsdg + fresh - usdg
        /\ usdgSupply' = usdgSupply + fresh - amount
        /\ balance' = [balance EXCEPT ![USDG] = @ + usdg - amount,
                                      ![t] = balance'[t]]
        /\ tokenBalances' = [tokenBalances EXCEPT ![USDG] = balance'[USDG],
                                                  ![t] = balance'[t]]
    <2>1. PICK out : balance' = [balance EXCEPT
                         ![USDG] = @ + usdg - amount, ![t] = @ - out]
      BY <1>1 DEF SellUSDG
    <2>2. balance'[t] = balance[t] - out
      BY <1>1, <2>1, UnitType DEF IInv, TypeOK
    <2>3. balance' = [balance EXCEPT ![USDG] = @ + usdg - amount,
                                    ![t] = balance'[t]]
      BY <1>1, <2>1, <2>2, UnitType DEF IInv, TypeOK
    <2> QED BY <1>1, <2>3 DEF SellUSDG, RemoveLiquidity
  <1>3. managerUsdg \in Nat
    BY <1>1 DEF ManagerOK
  <1> HIDE DEF usdg
  <1>4. fresh \in Nat /\ (fresh = 0 \/ managerUsdg + fresh = usdg)
    BY <1>1, <1>3 DEF MissingUsdg, LessDown
  <1> HIDE DEF fresh
  <1>5. IInv'
    BY <1>1, <1>4, SellUSDGIInv
  <1>6. /\ balance \in [Asset -> Nat] /\ balance' \in [Asset -> Nat]
        /\ tokenBalances \in [Asset -> Nat]
        /\ usdgSupply \in Nat /\ usdgSupply' \in Nat
    BY <1>1, <1>5 DEF IInv, TypeOK
  <1>7. balance[USDG] \in Nat /\ amount = balance[USDG] + usdg
    BY <1>1, <1>6, UnitType DEF TransferIn, UsdgInManager
  <1> HIDE DEF amount
  <1>8. balance'[USDG] = 0 /\ tokenBalances'[USDG] = 0
    <2>1. balance'[USDG] = balance[USDG] + usdg - amount
      BY <1>2, <1>6, UnitType
    <2>2. balance'[USDG] = 0
      BY <1>1, <1>7, <2>1
    <2>3. tokenBalances'[USDG] = balance'[USDG]
      BY <1>2, <1>6, UnitType
    <2> QED BY <2>2, <2>3
  <1>9. UsdgInManager'
    BY <1>1, <1>2, <1>3, <1>4, <1>6, <1>7, <1>8 DEF UsdgInManager
  <1>10. fresh = 0 \/ usdgSupply' = 0
    <2>1. SUFFICES ASSUME managerUsdg + fresh = usdg PROVE usdgSupply' = 0
      BY <1>4
    <2>2. usdgSupply' = usdgSupply + fresh - (balance[USDG] + usdg)
      BY <1>2, <1>7
    <2>3. usdgSupply <= managerUsdg + balance[USDG]
      BY DEF UsdgInManager
    <2>4. usdg \in Nat /\ usdgSupply \in Nat /\ usdgSupply' \in Nat
          /\ balance[USDG] \in Nat
      BY <1>1, <1>6, <1>7
    <2> QED BY <1>3, <1>4, <2>1, <2>2, <2>3, <2>4
  <1> QED BY <1>1, <1>4, <1>9, <1>10, SellDebts

(* The Vault's own steps send USDG to it at most.                          *)
LEMMA VaultStepDebts ==
  ASSUME UsdgSettings = {}, GlpIInv, UsdgInManager, DebtCoversSupply,
         VaultStep, UNCHANGED managerUsdg
  PROVE  UsdgInManager' /\ DebtCoversSupply'
  <1>1. IInv /\ managerUsdg \in Nat
    BY GlpParts DEF ManagerOK
  <1>2. /\ balance \in [Asset -> Nat] /\ tokenBalances \in [Asset -> Nat]
        /\ usdgSupply \in Nat /\ balance[USDG] \in Nat
    BY <1>1, UnitType DEF IInv, TypeOK
  <1> DEFINE Quiet == /\ tokenBalances'[USDG] = 0
                      /\ balance'[USDG] \in Nat
                      /\ balance[USDG] <= balance'[USDG]
                      /\ UNCHANGED usdgSupply
  <1>3. Quiet => UsdgInManager'
    BY <1>1, <1>2 DEF UsdgInManager
  <1>4. CASE Environment
    <2>1. Quiet
      <3>1. CASE \E a \in Asset : \E n \in SendAmounts[a] : SendTokens(a, n)
        <4>1. PICK a \in Asset : \E n \in SendAmounts[a] : SendTokens(a, n)
          BY <3>1
        <4>2. PICK n \in SendAmounts[a] : SendTokens(a, n)
          BY <4>1
        <4>3. n \in Nat
          BY InputAssumption
        <4> QED BY <1>2, <4>2, <4>3 DEF SendTokens, UsdgInManager, debtVars
      <3>2. CASE UNCHANGED <<ledgerVars, debtVars>>
        BY <1>2, <3>2 DEF ledgerVars, debtVars, UsdgInManager
      <3> QED BY <1>4, <3>1, <3>2 DEF Environment, ChangePrice, Tick
    <2> QED BY <1>3, <1>4, <2>1, OtherStepsKeepDebts, DebtsUntouched
  <1>5. CASE Governance
    <2>1. Quiet
      <3>1. CASE \E t \in Token : WithdrawFees(t)
        BY <1>2, <3>1, UnitType DEF WithdrawFees, UsdgInManager, debtVars
      <3>2. CASE UNCHANGED <<ledgerVars, debtVars>>
        BY <1>2, <3>2 DEF ledgerVars, debtVars, UsdgInManager
      <3> QED BY <1>5, <3>1, <3>2
          DEF Governance, SetFees, SetIsSwapEnabled, SetIsLeverageEnabled,
              AddRouter, RemoveRouter, SetApproval
    <2> QED BY <1>3, <1>5, <2>1, OtherStepsKeepDebts, DebtsUntouched
  <1>6. ASSUME NEW t \in Token,
               UpdateCumulativeFundingRate(t) \/ DirectPoolDeposit(t)
        PROVE  UsdgInManager' /\ DebtCoversSupply'
    <2>1. Quiet
      BY <1>2, <1>6, UnitType
      DEF UpdateCumulativeFundingRate, DirectPoolDeposit, UsdgInManager,
          ledgerVars, debtVars
    <2> QED BY <1>3, <1>6, <2>1, OtherStepsKeepDebts, DebtsUntouched
  <1>7. ASSUME NEW t \in Token, NEW u \in Token, Swap(t, u)
        PROVE  UsdgInManager' /\ DebtCoversSupply'
    <2>1. Quiet
      <3>1. \E paid, n :
              /\ balance' = [balance EXCEPT ![u] = @ - paid]
              /\ tokenBalances' = [tokenBalances EXCEPT
                                      ![t] = balance[t], ![u] = n]
              /\ usdgSupply' = usdgSupply
        BY <1>7 DEF Swap
      <3> QED BY <1>2, <3>1, UnitType DEF UsdgInManager
    <2> QED BY <1>1, <1>3, <1>7, <2>1, SwapDebts
  <1> QED BY <1>4, <1>5, <1>6, <1>7 DEF VaultStep

(* Positions are paid in and out in whitelisted tokens.                    *)
LEMMA TradesKeepUsdg ==
  ASSUME TypeOK, NEW k \in Keys,
         \/ \E s, d : IncreasePosition(s, k, d)
         \/ \E s, d, cd : DecreasePosition(s, k, cd, d)
         \/ LiquidatePosition(k)
  PROVE  /\ tokenBalances'[USDG] = tokenBalances[USDG]
         /\ balance'[USDG] = balance[USDG]
  <1> DEFINE c == k.collateralToken
  <1>1. \/ \E paid : balance' = [balance EXCEPT ![c] = @ - paid]
        \/ balance' = balance
    BY DEF IncreasePosition, DecreasePosition, Decrease, LiquidatePosition,
           LiquidateInsolvent, LiquidateOverleveraged, Liquidate
  <1>2. \/ \E n : tokenBalances' = [tokenBalances EXCEPT ![c] = n]
        \/ tokenBalances' = tokenBalances
    BY DEF IncreasePosition, DecreasePosition, Decrease, LiquidatePosition,
           LiquidateInsolvent, LiquidateOverleveraged, Liquidate
  <1>3. c # USDG
    BY KeyFields, UnitType
  <1>4. balance \in [Asset -> Nat] /\ tokenBalances \in [Asset -> Nat]
    BY DEF TypeOK
  <1> HIDE DEF c
  <1> QED BY <1>1, <1>2, <1>3, <1>4, UnitType

(* Every action of the composition keeps the debt above the supply.        *)
LEMMA GlpNextDebts ==
  ASSUME UsdgSettings = {}, GlpIInv, UsdgInManager, DebtCoversSupply,
         [GlpNext]_glpVars
  PROVE  UsdgInManager' /\ DebtCoversSupply'
  <1>1. ASSUME UNCHANGED <<debtVars, managerUsdg>>,
               tokenBalances'[USDG] = tokenBalances[USDG],
               balance'[USDG] = balance[USDG]
        PROVE  UsdgInManager' /\ DebtCoversSupply'
    BY <1>1, DebtsUntouched DEF UsdgInManager, debtVars
  <1>2. CASE Liquidity
    BY <1>2, AddLiquidityDebts, RemoveLiquidityDebts, GlpAssumption
    DEF Liquidity
  <1>3. CASE ManagerGovernance
    BY <1>1, <1>3
    DEF ManagerGovernance, SetShortsTrackerAveragePriceWeight,
        SetCooldownDuration, SetAumAdjustment, SetInPrivateMode, vars,
        ledgerVars, shareVars
  <1>4. CASE /\ TrackedTrades \/ DirectTrades
             /\ UNCHANGED <<shareVars, managerVars, calls>>
    <2>1. PICK k \in Keys :
              \/ \E d : IncreasePosition(Router, k, d)
              \/ \E s, d, cd : DecreasePosition(s, k, cd, d)
              \/ LiquidatePosition(k)
      BY <1>4
      DEF TrackedTrades, TrackedIncrease, TrackedDecrease, TrackedLiquidation,
          DirectTrades, DirectDecrease, DirectLiquidation
    <2>2. UNCHANGED debtVars
      BY <2>1, OtherStepsKeepDebts
    <2>3. /\ tokenBalances'[USDG] = tokenBalances[USDG]
          /\ balance'[USDG] = balance[USDG]
      BY <2>1, TradesKeepUsdg, GlpParts DEF IInv
    <2> QED BY <1>1, <1>4, <2>2, <2>3 DEF shareVars
  <1>5. CASE TrackerGovernance /\ UNCHANGED <<shareVars, managerVars, calls>>
    BY <1>1, <1>5
    DEF TrackerGovernance, SetInitData, SetIsGlobalShortDataReady, vars,
        ledgerVars, shareVars
  <1>6. CASE VaultStep /\ UNCHANGED <<trackerVars, shareVars, managerVars, calls>>
    BY <1>6, VaultStepDebts DEF shareVars
  <1>7. CASE UNCHANGED glpVars
    BY <1>1, <1>7 DEF glpVars, vars, ledgerVars, shareVars
  <1> QED BY <1>2, <1>3, <1>4, <1>5, <1>6, <1>7 DEF GlpNext

-----------------------------------------------------------------------------
(* The Vault's inductive invariant holds although GlpManager and           *)
(* ShortsTracker drive it in ways its own specification does not.          *)
THEOREM GlpInvariance == GlpSpec => []GlpIInv
  BY GlpInitInv, GlpNextInv, PTL DEF GlpSpec

(* Type correctness of the composition: no ledger of the Vault, of the     *)
(* tracker or of the manager ever goes below zero.                         *)
THEOREM GlpTypeCorrect == GlpSpec => []GlpTypeOK
  <1>1. GlpIInv => GlpTypeOK
    BY DEF GlpIInv
  <1> QED
    BY <1>1, GlpInvariance, PTL

(* Providers cannot withdraw what open positions have reserved             *)
(* (GlpManager._removeLiquidity, Vault._decreasePoolAmount).               *)
THEOREM ProvidersLeaveReserves == GlpSpec => []ReservedWithinPool
  <1>1. GlpIInv => ReservedWithinPool
    BY DEF GlpIInv, IInv
  <1> QED
    BY <1>1, GlpInvariance, PTL

(* After every history of providers and traders the Vault holds the pool   *)
(* and the fees of every volatile token (Vault.poolAmounts, feeReserves).  *)
THEOREM ProvidersAreBacked == GlpSpec => []VolatileSolvent
  <1>1. GlpIInv => VolatileSolvent
    BY DEF GlpIInv, IInv
  <1> QED
    BY <1>1, GlpInvariance, PTL

(* The totals the AUM are computed from are the sums over the open         *)
(* positions in every history of providers, traders and liquidators        *)
(* (Vault.reservedAmounts, guaranteedUsd, globalShortSizes).               *)
THEOREM GlpBooksKept == GlpSpec => [](GlpIInv /\ Books)
  <1>1. GlpInit => GlpIInv /\ Books
    BY GlpInitInv, InitBooks DEF GlpInit
  <1>2. GlpIInv /\ Books /\ [GlpNext]_glpVars => (GlpIInv /\ Books)'
    BY GlpNextInv, GlpNextBooks
  <1> QED BY <1>1, <1>2, PTL DEF GlpSpec

(* Trades that bypass the tracker leave the Vault's own short sizes right: *)
(* the size the tracker reads is always the sum over the shorts            *)
(* (ShortsTracker.updateGlobalShortData, Vault.globalShortSizes).          *)
THEOREM GlpShortSizesAddUp == GlpSpec => []ShortSizesMatchPositions
  <1>1. GlpIInv /\ Books => ShortSizesMatchPositions
    BY DEF Books
  <1> QED BY <1>1, GlpBooksKept, PTL

(* The manager may mint USDG of its own in removeLiquidity when the AUM    *)
(* have outgrown what it holds. Even so the debts the Vault records per    *)
(* token cover the supply, unless governance sets one by hand.             *)
THEOREM GlpDebtsCoverSupply ==
  ASSUME UsdgSettings = {}
  PROVE  GlpSpec => []DebtCoversSupply
  <1> DEFINE Debts == GlpIInv /\ UsdgInManager /\ DebtCoversSupply
  <1>1. GlpInit => Debts
    <2>1. GlpInit => UsdgInManager
      BY ParameterAssumption DEF GlpInit, Init, UsdgInManager
    <2> QED BY <2>1, GlpInitInv, InitDebts DEF GlpInit
  <1>2. Debts /\ [GlpNext]_glpVars => Debts'
    BY GlpNextInv, GlpNextDebts
  <1>3. Debts => DebtCoversSupply
    OBVIOUS
  <1> QED BY <1>1, <1>2, <1>3, PTL DEF GlpSpec
=============================================================================
