----------------------------- MODULE ShortsTracker -----------------------------
(***************************************************************************)
(* contracts/core/ShortsTracker.sol on top of the Vault. The Vault's own   *)
(* globalShortAveragePrices only follow increases; the tracker keeps a     *)
(* second average per index token that follows decreases and liquidations  *)
(* as well, so that size and average give what all open shorts have won.   *)
(*                                                                         *)
(* The position managers call updateGlobalShortData strictly before the    *)
(* Vault changes the position, in the same transaction, and have leverage  *)
(* enabled around the Vault's call (Timelock.enableLeverage). An increase  *)
(* is therefore always tracked, while an account may call decreasePosition *)
(* and a liquidator liquidatePosition on the Vault itself.                 *)
(***************************************************************************)
EXTENDS Vault

CONSTANTS
    InitReady,          \* the tracker was made ready before any trade
    InitAverages,       \* what setInitData may be called with
    ReadySettings,      \* inputs of setIsGlobalShortDataReady
    DirectDeltas,       \* size deltas of decreases that bypass the managers
    InPrivateLiquidationMode \* only the managers may liquidate

ASSUME ShortsTrackerAssumption ==
    /\ InitReady \in BOOLEAN
    /\ InitAverages \subseteq [Volatile -> Nat]
    /\ ReadySettings \subseteq BOOLEAN
    /\ DirectDeltas \subseteq Nat /\ InPrivateLiquidationMode \in BOOLEAN

VARIABLES
    trackedAveragePrices,   \* ShortsTracker.globalShortAveragePrices
    isGlobalShortDataReady

trackerVars == <<trackedAveragePrices, isGlobalShortDataReady>>

TrackerOK ==
    /\ trackedAveragePrices \in [Volatile -> Nat]
    /\ isGlobalShortDataReady \in BOOLEAN

TrackerInit ==
    /\ trackedAveragePrices = [t \in Volatile |-> 0]
    /\ isGlobalShortDataReady = InitReady

-----------------------------------------------------------------------------
(* Profit (positive) or loss (negative) of `size` shorted at `average`.    *)
ShortPnl(size, average, price) ==
    LET delta == (size * Distance(average, price)) \div average
    IN  IF average > price THEN delta ELSE - delta

(* getRealisedPnl: the part of the position's pnl, as the Vault counts it, *)
(* that closing sizeDelta of it realises.                                  *)
RealisedPnl(k, sizeDelta) ==
    LET p == positions[k]
        pnl == (sizeDelta * Delta(TRUE, k, p)) \div p.size
    IN  IF HasProfit(TRUE, k, p) THEN pnl ELSE - pnl

(* Faulty: closing one short resets the average of all of them.            *)
ResetAverage(k, price, nextSize, realised) ==
    LET average == trackedAveragePrices[k.indexToken]
        size == globalShortSizes[k.indexToken]
    IN  IF nextSize < size THEN 0
        ELSE IF average = 0 THEN price
        ELSE (price * nextSize)
                 \div (nextSize + realised - ShortPnl(size, average, price))

(* getNextGlobalShortData: the average at which nextSize has the pnl that  *)
(* is left once `realised` of it has been paid.                            *)
NextTrackedAverage(k, price, nextSize, realised) ==
    LET average == trackedAveragePrices[k.indexToken]
        size == globalShortSizes[k.indexToken]
    IN  IF nextSize = 0 THEN 0
        ELSE IF average = 0 THEN price
        ELSE (price * nextSize)
                 \div (nextSize + realised - ShortPnl(size, average, price))

(* The divisions and subtractions above do not revert.                     *)
TrackedAverageComputable(k, price, nextSize, realised) ==
    LET average == trackedAveragePrices[k.indexToken]
        size == globalShortSizes[k.indexToken]
    IN  nextSize > 0 /\ average > 0
            => nextSize + realised > ShortPnl(size, average, price)

UpdateGlobalShortData(k, price, nextSize, realised) ==
    /\ nextSize >= 0
    /\ TrackedAverageComputable(k, price, nextSize, realised)
    /\ trackedAveragePrices' = [trackedAveragePrices EXCEPT ![k.indexToken] =
           NextTrackedAverage(k, price, nextSize, realised)]
    /\ UNCHANGED isGlobalShortDataReady

(* Longs, calls that leave the size alone, and a tracker that is not ready *)
(* are none of its business.                                               *)
Tracks(k, sizeDelta) == ~k.isLong /\ sizeDelta > 0 /\ isGlobalShortDataReady

TrackIncrease(k, sizeDelta) ==
    IF Tracks(k, sizeDelta)
    THEN UpdateGlobalShortData(k, EntryPrice(k),
             globalShortSizes[k.indexToken] + sizeDelta, 0)
    ELSE UNCHANGED trackerVars

(* Faulty: the loss or profit that was paid is still in the average.       *)
TrackDecreaseUnrealised(k, sizeDelta) ==
    IF Tracks(k, sizeDelta)
    THEN UpdateGlobalShortData(k, MarkPrice(TRUE, k),
             globalShortSizes[k.indexToken] - sizeDelta, 0)
    ELSE UNCHANGED trackerVars

TrackDecrease(k, sizeDelta) ==
    IF Tracks(k, sizeDelta)
    THEN UpdateGlobalShortData(k, MarkPrice(TRUE, k),
             globalShortSizes[k.indexToken] - sizeDelta,
             RealisedPnl(k, sizeDelta))
    ELSE UNCHANGED trackerVars

-----------------------------------------------------------------------------
(* Trades of the position managers, and what bypasses them.                *)

TrackedIncrease(k, sizeDelta) ==
    /\ TrackIncrease(k, sizeDelta)
    /\ IncreasePosition(Router, k, sizeDelta)

TrackedDecrease(k, collateralDelta, sizeDelta) ==
    /\ Open(k) /\ TrackDecrease(k, sizeDelta)
    /\ DecreasePosition(Router, k, collateralDelta, sizeDelta)

TrackedLiquidation(k) ==
    /\ Open(k) /\ TrackDecrease(k, positions[k].size)
    /\ LiquidatePosition(k)

DirectDecrease(k, sizeDelta) ==
    /\ DecreasePosition(k.account, k, 0, sizeDelta)
    /\ UNCHANGED trackerVars

DirectLiquidation(k) ==
    /\ ~InPrivateLiquidationMode
    /\ LiquidatePosition(k)
    /\ UNCHANGED trackerVars

SetInitData(averages) ==
    /\ ~isGlobalShortDataReady
    /\ trackedAveragePrices' = averages
    /\ isGlobalShortDataReady' = TRUE
    /\ UNCHANGED vars

SetIsGlobalShortDataReady(value) ==
    /\ isGlobalShortDataReady' = value
    /\ UNCHANGED <<trackedAveragePrices, vars>>

TrackedTrades ==
    \E k \in Keys :
        \/ \E d \in SizeDeltas :
               \/ TrackedIncrease(k, d)
               \/ \E cd \in CollateralDeltas : TrackedDecrease(k, cd, d)
        \/ TrackedLiquidation(k)

DirectTrades ==
    \E k \in Keys : \/ \E d \in DirectDeltas : DirectDecrease(k, d)
                    \/ DirectLiquidation(k)

TrackerGovernance ==
    \/ \E averages \in InitAverages : SetInitData(averages)
    \/ \E value \in ReadySettings : SetIsGlobalShortDataReady(value)
=============================================================================
