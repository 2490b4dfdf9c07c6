------------------------------ MODULE GlpManager ------------------------------
(***************************************************************************)
(* contracts/core/GlpManager.sol: shares (GLP) of everything the Vault     *)
(* holds for its liquidity providers. The assets under management (AUM)    *)
(* are the pools and what the open positions have lost or won; a provider  *)
(* who adds a token has it turned into USDG by the Vault, which the        *)
(* manager keeps, and gets shares in proportion to the AUM; removing       *)
(* shares sells USDG to the Vault again.                                   *)
(*                                                                         *)
(* The Vault is in manager mode: only this contract buys and sells USDG.   *)
(* Positions are traded as in ShortsTracker.                               *)
(***************************************************************************)
EXTENDS ShortsTracker

CONSTANTS
    Providers,          \* accounts that hold GLP
    GlpHandlers,        \* isHandler: routers that act for providers
    InitWeight,         \* shortsTrackerAveragePriceWeight
    LiquidityAmounts,   \* inputs, per token
    GlpAmounts, WeightSettings, CooldownSettings, PrivateSettings,
    AumSettings,        \* pairs <<aumAddition, aumDeduction>>
    MaxCooldown,        \* MAX_COOLDOWN_DURATION
    MaxCalls            \* a bound only model checking needs

ASSUME GlpAssumption ==
    /\ LiquidityAmounts \in [Token -> SUBSET Nat]
    /\ GlpAmounts \subseteq Nat /\ WeightSettings \subseteq Nat
    /\ CooldownSettings \subseteq Nat /\ PrivateSettings \subseteq BOOLEAN
    /\ AumSettings \subseteq Nat \X Nat
    /\ InitWeight \in Nat /\ MaxCooldown \in Nat
    /\ MaxCalls \in Nat

VARIABLES
    glpBalances, glpSupply,     \* the GLP token
    lastAddedAt, cooldownDuration,
    shortsTrackerAveragePriceWeight,
    aumAddition, aumDeduction, inPrivateMode,
    managerUsdg,                \* USDG balance of the manager
    calls                       \* deposits and settings so far, to bound them

shareVars == <<glpBalances, glpSupply, lastAddedAt, managerUsdg>>
adjustmentVars == <<aumAddition, aumDeduction>>
managerVars == <<cooldownDuration, shortsTrackerAveragePriceWeight,
                 adjustmentVars, inPrivateMode>>
glpVars == <<vars, trackerVars, shareVars, managerVars, calls>>

(* Types, the Vault's ledgers included: nothing goes below zero.           *)
GlpTypeOK ==
    /\ TypeOK /\ TrackerOK
    /\ glpBalances \in [Providers -> Nat] /\ glpSupply \in Nat
    /\ lastAddedAt \in [Providers -> Nat] /\ managerUsdg \in Nat
    /\ cooldownDuration \in 0..MaxCooldown
    /\ shortsTrackerAveragePriceWeight \in Nat
    /\ aumAddition \in Nat /\ aumDeduction \in Nat
    /\ inPrivateMode \in BOOLEAN /\ calls \in Nat

GlpInit ==
    /\ Init /\ TrackerInit
    /\ glpBalances = [a \in Providers |-> 0] /\ glpSupply = 0
    /\ lastAddedAt = [a \in Providers |-> 0] /\ managerUsdg = 0
    /\ cooldownDuration = 0
    /\ shortsTrackerAveragePriceWeight = InitWeight
    /\ aumAddition = 0 /\ aumDeduction = 0 /\ inPrivateMode = FALSE
    /\ calls = 0

-----------------------------------------------------------------------------
(* getAum and what it is made of.                                          *)

(* getGlobalShortAveragePrice                                              *)
AveragePriceOfShorts(t) ==
    LET weight == shortsTrackerAveragePriceWeight
    IN  IF ~isGlobalShortDataReady \/ weight = 0
        THEN globalShortAveragePrices[t]
        ELSE IF weight = BPS THEN trackedAveragePrices[t]
        ELSE (globalShortAveragePrices[t] * (BPS - weight)
                  + trackedAveragePrices[t] * weight) \div BPS

(* What the traders have won (positive) or lost on all shorts of a token.  *)
ShortsPnl(t, price) ==
    IF globalShortSizes[t] = 0 THEN 0
    ELSE ShortPnl(globalShortSizes[t], AveragePriceOfShorts(t), price)

AumPrice(maximise, t) ==
    IF maximise THEN MaxPrice(TRUE, t) ELSE MinPrice(TRUE, t)

(* What a token adds to the AUM, its shorts' profits taken off.            *)
TokenAum(maximise, t) ==
    LET price == AumPrice(maximise, t)
    IN  IF t \in Stable THEN (poolAmounts[t] * price) \div TokenUnit[t]
        ELSE guaranteedUsd[t]
             + ((poolAmounts[t] - reservedAmounts[t]) * price)
                   \div TokenUnit[t]
             - ShortsPnl(t, price)

LessDown(a, b) == IF b > a THEN 0 ELSE a - b

Aum(maximise) ==
    LET gross == aumAddition + SumFunction([t \in Token |-> TokenAum(maximise, t)])
    IN  LessDown(IF gross < 0 THEN 0 ELSE gross, aumDeduction)

AumInUsdg(maximise) ==
    (Aum(maximise) * TokenUnit[USDG]) \div PricePrecision

(* None of the divisions and subtractions of getAum reverts.               *)
AumDefined ==
    \A t \in Volatile :
        /\ reservedAmounts[t] <= poolAmounts[t]
        /\ globalShortSizes[t] > 0 =>
              /\ isGlobalShortDataReady
                     => shortsTrackerAveragePriceWeight <= BPS
              /\ AveragePriceOfShorts(t) > 0

-----------------------------------------------------------------------------
(* Liquidity.                                                              *)

CountCall == calls < MaxCalls /\ calls' = calls + 1

(* A handler may act for anyone, others only for themselves and only while *)
(* the manager is not in private mode.                                     *)
MayManage(caller, account) ==
    caller \in GlpHandlers \/ (caller = account /\ ~inPrivateMode)

(* Faulty: the new shares are priced at the lower AUM.                     *)
CheapMintAmount(usdg) ==
    IF AumInUsdg(FALSE) = 0 THEN usdg
    ELSE (usdg * glpSupply) \div AumInUsdg(FALSE)

MintAmount(usdg) ==
    IF AumInUsdg(TRUE) = 0 THEN usdg
    ELSE (usdg * glpSupply) \div AumInUsdg(TRUE)

(* The token goes to the Vault and is sold for USDG in one transaction;    *)
(* the AUM is read before.                                                 *)
AddLiquidity(caller, account, t, amount) ==
    LET usdg == usdgSupply' - usdgSupply IN
    /\ MayManage(caller, account) /\ amount > 0
    /\ CountCall /\ AumDefined
    /\ BuyUSDG(t, amount)
    /\ glpBalances' = [glpBalances EXCEPT ![account] = @ + MintAmount(usdg)]
    /\ glpSupply' = glpSupply + MintAmount(usdg)
    /\ lastAddedAt' = [lastAddedAt EXCEPT ![account] = now]
    /\ managerUsdg' = managerUsdg + usdg
    /\ UNCHANGED <<trackerVars, managerVars>>

(* Faulty: shares are paid at the higher AUM.                              *)
DearShareOfAum(amount) == (amount * AumInUsdg(TRUE)) \div glpSupply

ShareOfAum(amount) == (amount * AumInUsdg(FALSE)) \div glpSupply

(* USDG the manager mints when the AUM have outgrown the USDG it holds.    *)
MissingUsdg(usdg) == LessDown(usdg, managerUsdg)

RemoveLiquidity(caller, account, t, amount) ==
    LET usdg == ShareOfAum(amount) IN
    /\ MayManage(caller, account) /\ amount > 0
    /\ lastAddedAt[account] + cooldownDuration <= now
    /\ AumDefined
    /\ amount <= glpBalances[account] /\ amount <= glpSupply
    /\ SellUSDG(t, MissingUsdg(usdg), usdg)
    /\ glpBalances' = [glpBalances EXCEPT ![account] = @ - amount]
    /\ glpSupply' = glpSupply - amount
    /\ managerUsdg' = managerUsdg + MissingUsdg(usdg) - usdg
    /\ UNCHANGED <<lastAddedAt, calls, trackerVars, managerVars>>

-----------------------------------------------------------------------------
(* Governance of the manager.                                              *)

(* The requirement looks at the weight that is replaced.                   *)
SetShortsTrackerAveragePriceWeight(weight) ==
    /\ shortsTrackerAveragePriceWeight <= BPS
    /\ shortsTrackerAveragePriceWeight' = weight
    /\ CountCall
    /\ UNCHANGED <<vars, trackerVars, shareVars, cooldownDuration,
                   adjustmentVars, inPrivateMode>>

SetCooldownDuration(duration) ==
    /\ duration <= MaxCooldown
    /\ cooldownDuration' = duration
    /\ CountCall
    /\ UNCHANGED <<vars, trackerVars, shareVars, adjustmentVars,
                   shortsTrackerAveragePriceWeight, inPrivateMode>>

SetAumAdjustment(addition, deduction) ==
    /\ aumAddition' = addition /\ aumDeduction' = deduction
    /\ CountCall
    /\ UNCHANGED <<vars, trackerVars, shareVars, cooldownDuration,
                   shortsTrackerAveragePriceWeight, inPrivateMode>>

SetInPrivateMode(private) ==
    /\ inPrivateMode' = private
    /\ CountCall
    /\ UNCHANGED <<vars, trackerVars, shareVars, cooldownDuration,
                   adjustmentVars, shortsTrackerAveragePriceWeight>>

-----------------------------------------------------------------------------
Liquidity ==
    \E account \in Providers : \E caller \in GlpHandlers \cup {account} :
        \E t \in Token :
            \/ \E n \in LiquidityAmounts[t] : AddLiquidity(caller, account, t, n)
            \/ \E n \in GlpAmounts : RemoveLiquidity(caller, account, t, n)

ManagerGovernance ==
    \/ \E w \in WeightSettings : SetShortsTrackerAveragePriceWeight(w)
    \/ \E d \in CooldownSettings : SetCooldownDuration(d)
    \/ \E s \in AumSettings : SetAumAdjustment(s[1], s[2])
    \/ \E b \in PrivateSettings : SetInPrivateMode(b)

(* What goes on in the Vault without the manager or the tracker.           *)
VaultStep ==
    \/ Environment
    \/ Governance
    \/ \E t \in Token : \/ UpdateCumulativeFundingRate(t)
                        \/ DirectPoolDeposit(t)
                        \/ \E u \in Token : Swap(t, u)

GlpNext ==
    \/ Liquidity
    \/ ManagerGovernance
    \/ TrackedTrades /\ UNCHANGED <<shareVars, managerVars, calls>>
    \/ DirectTrades /\ UNCHANGED <<shareVars, managerVars, calls>>
    \/ TrackerGovernance /\ UNCHANGED <<shareVars, managerVars, calls>>
    \/ VaultStep /\ UNCHANGED <<trackerVars, shareVars, managerVars, calls>>

GlpSpec == GlpInit /\ [][GlpNext]_glpVars

-----------------------------------------------------------------------------
(* Properties.                                                             *)

(* Whoever adds, removes, swaps or donates liquidity at unchanged prices   *)
(* and positions: the value of the other shares does not fall, whichever   *)
(* side of the spread it is measured at.                                   *)
SameBooks ==
    UNCHANGED <<prices, positions, trackerVars, adjustmentVars,
                shortsTrackerAveragePriceWeight>>
GlpNotDiluted ==
    [][SameBooks => \A maximise \in BOOLEAN :
          AumInUsdg(maximise)' * glpSupply >= AumInUsdg(maximise) * glpSupply'
    ]_glpVars

(* A tracker that was told the averages when it was made ready keeps one   *)
(* for every token that is shorted, however the shorts were closed: no     *)
(* call that needs the AUM fails.                                          *)
AumComputable == AumDefined

(* Prices without a spread, at which the AUM should not depend on who      *)
(* holds which position.                                                   *)
NoSpread == \A t \in Token : MinPrice(TRUE, t) = MaxPrice(TRUE, t)

(* Opening, increasing or closing a short moves money between the trader   *)
(* and the pool, but does not change what the two are worth: with the      *)
(* tracked average a trade at unchanged prices never lowers the AUM by     *)
(* more than the averages are rounded. Three do: a liquidation, whose      *)
(* losses may exceed the collateral, a trade that bypasses the tracker,    *)
(* and the close of the last short, when the roundings of all trades       *)
(* before come due.                                                        *)
AumRounding(k) ==
    LET t == k.indexToken
        average == trackedAveragePrices[t]
    IN  3 + (IF average = 0 THEN 0
             ELSE (globalShortSizes[t] * MarkPrice(TRUE, k))
                      \div (average * average))
TrackedAum ==
    /\ isGlobalShortDataReady /\ shortsTrackerAveragePriceWeight = BPS
TradesLeaveAum ==
    [][NoSpread /\ TrackedAum /\ SameMarket =>
         \A k \in Keys :
            /\ ~k.isLong /\ positions'[k] # positions[k]
            /\ Open(k) => LiquidationOf(k).state # 1
            /\ trackedAveragePrices' # trackedAveragePrices
            /\ globalShortSizes'[k.indexToken] > 0
            => Aum(TRUE)' + AumRounding(k)' + AverageRounding(k) >= Aum(TRUE)
    ]_glpVars

(* "GlpManager: invalid weight" (GlpManager.sol:80): the weight of the     *)
(* tracked average is at most BASIS_POINTS_DIVISOR.                        *)
WeightValid == shortsTrackerAveragePriceWeight <= BPS
=============================================================================
