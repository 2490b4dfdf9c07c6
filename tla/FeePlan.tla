-------------------------------- MODULE FeePlan --------------------------------
(***************************************************************************)
(* The arithmetic of the weekly fee distribution: when a plan may be made  *)
(* and used, and how the fees of a week are split. The first half is       *)
(* scripts/fees/createFeePlan.js, the second scripts/core/                 *)
(* createFeeReference.js, the program it replaced.                         *)
(*                                                                         *)
(* Times are counted in periods of six hours, the delay the scripts allow; *)
(* amounts of USD and of tokens have one scale, so that USD divided by a   *)
(* price is an amount.                                                     *)
(***************************************************************************)
EXTENDS Integers, FiniteSets, FiniteSetsExt

(* Time. Day 0 is a Thursday, so six days into a week it is Wednesday.     *)
Day == 4
Week == 7 * Day
AllowedDelay == 1

RefTime(now) == (now \div Week) * Week + 6 * Day
InTime(ref, now, skipValidations) ==
    /\ skipValidations \/ ref <= now
    /\ ref >= now - AllowedDelay

(* The last Wednesday, 0:00 UTC, and the week of fees that ended with it.  *)
RecentWednesday(now) ==
    LET today == now \div Day
    IN  (today - ((today + 1) % 7)) * Day
FeePeriod(now) == (RecentWednesday(now) - Week)..(RecentWednesday(now) - 1)
ReferralPeriod(ref) == (ref - Week)..(ref - 1)

(* The fees of a period, from one record of statistics per day.            *)
FeesV1(stats, period) ==
    SumFunction([s \in {day \in stats : day.id \in period} |->
                     s.marginAndLiquidation + s.swap + s.mint + s.burn])
FeesV2(stats, period) ==
    SumFunction([s \in {day \in stats : day.id \in period} |->
                     s.borrowing + s.position + s.swapReceiver + s.swapPool])

-----------------------------------------------------------------------------
(* Keepers whose gas token balance is under target are topped up to it.    *)
(* Mutant: the whole target is sent.                                       *)
TopUpInFull(balance, target) == IF balance < target THEN target ELSE 0
TopUp(balance, target) == IF balance < target THEN target - balance ELSE 0
KeeperCosts(balance, target) ==
    SumFunction([k \in DOMAIN target |-> TopUp(balance[k], target[k])])

(* How the native tokens of one network are split. v has the amount at     *)
(* hand (total), the week's fees of both versions, the costs and the price *)
(* read for the plan, and the settings minGlp (percent) and multiplier.    *)
V2Fees(v) == (v.feesV2 * 10) \div 100
V2Part(v) == (v.total * V2Fees(v)) \div (v.feesV1 + V2Fees(v))
Treasury(v) == (((V2Part(v) * 88) \div 100) * v.multiplier) \div 10000
Chainlink(v) == (V2Part(v) * 12) \div 100
Referral(v) == v.referralUsd \div v.price
Glp(v) ==
    v.total - (Treasury(v) + Chainlink(v)) - v.keeperCosts - Referral(v)

(* Mutant: the keepers' gas is not set aside.                              *)
NativePlanBeforeCosts(v) ==
    [treasury |-> Treasury(v), chainlink |-> Chainlink(v), keepers |-> 0,
     referral |-> Referral(v), glp |-> Glp(v) + v.keeperCosts]
NativePlan(v) ==
    [treasury |-> Treasury(v), chainlink |-> Chainlink(v),
     keepers |-> v.keeperCosts, referral |-> Referral(v), glp |-> Glp(v)]

Spent(p) == p.treasury + p.chainlink + p.keepers + p.referral + p.glp

(* saveFeePlan throws on a division by zero, when liquidity providers get  *)
(* too little, and when the parts are more than there is.                  *)
NativePlannable(v) ==
    /\ v.feesV1 + V2Fees(v) # 0
    /\ v.total # V2Part(v)
    /\ (Glp(v) * 100) \div (v.total - V2Part(v)) >= v.minGlp
    /\ v.total >= Spent(NativePlan(v))

(* GMX bought back on both networks is shared by the GMX staked on them.   *)
(* g has the amounts at hand, the staked supplies and the multiplier.      *)
AvaxShare(g) ==
    ((g.arbGmx + g.avaxGmx) * g.avaxStaked) \div (g.arbStaked + g.avaxStaked)
AvaxGmxRewards(g) == (AvaxShare(g) * g.gmxMultiplier) \div 100
ArbGmxRewards(g) ==
    ((g.arbGmx + g.avaxGmx - AvaxShare(g)) * g.gmxMultiplier) \div 100

GmxPlannable(g) ==
    /\ g.arbStaked + g.avaxStaked # 0
    /\ g.arbGmx + g.avaxGmx >= ArbGmxRewards(g) + AvaxGmxRewards(g)

(* What has to be bridged from Arbitrum (or to it, when negative).         *)
(* Mutant: the other network's difference.                                 *)
DeltaRewardAvax(g) == g.avaxGmx - AvaxGmxRewards(g)
DeltaRewardArb(g) == g.arbGmx - ArbGmxRewards(g)

-----------------------------------------------------------------------------
(* createFeeReference. r has, per network n, the fees of both versions, the *)
(* referral rewards, keeper costs (in tokens), price and staked GMX.       *)

(* The USD value of what the Vault owes in fees, token by token.           *)
FeesUsd(fees, price) ==
    MapThenSumSet(LAMBDA t : fees[t] * price[t], DOMAIN fees)

(* The claimable fees of the markets of version 2. A market with the same  *)
(* token on both sides is counted once; stable tokens missing in the price *)
(* feed have a fixed price, and a token without any price is an error.     *)
PriceOf(t, feed, stable) == IF t \in DOMAIN feed THEN feed[t] ELSE stable[t]
MarketUsd(m, feed, stable) ==
    m.longFee * PriceOf(m.long, feed, stable)
        + (IF m.long = m.short THEN 0
           ELSE m.shortFee * PriceOf(m.short, feed, stable))
Priced(m, feed, stable) ==
    \/ m.longFee = 0 /\ m.shortFee = 0
    \/ {m.long, m.short} \subseteq DOMAIN feed \cup DOMAIN stable
FeesUsdV2(markets, feed, stable) ==
    MapThenSumSet(LAMBDA m : MarketUsd(m, feed, stable),
                  {m \in markets : m.longFee # 0 \/ m.shortFee # 0})

KeeperUsd(r, n) == r[n].keeperCosts * r[n].price
ForStakers(r, n) == r[n].feesUsd - r[n].referralUsd - KeeperUsd(r, n)
GlpUsd(r, n) == (ForStakers(r, n) * 70) \div 100
TreasuryUsd(r, n) == (r[n].feesUsdV2 * 88) \div 370
ChainlinkUsd(r, n) == (r[n].feesUsdV2 * 12) \div 370

Over(r, part(_)) == MapThenSumSet(part, DOMAIN r)
ForGmx(r) ==
    Over(r, LAMBDA n : ForStakers(r, n)) - Over(r, LAMBDA n : GlpUsd(r, n))
        + (Over(r, LAMBDA n : r[n].feesUsdV2)
           - Over(r, LAMBDA n : TreasuryUsd(r, n))
           - Over(r, LAMBDA n : ChainlinkUsd(r, n)))
GmxUsd(r, n) == (ForGmx(r) * r[n].staked) \div Over(r, LAMBDA m : r[m].staked)

Reference(r, n) ==
    [treasury |-> TreasuryUsd(r, n) \div r[n].price,
     chainlink |-> ChainlinkUsd(r, n) \div r[n].price,
     gmx |-> GmxUsd(r, n) \div r[n].price,
     glp |-> GlpUsd(r, n) \div r[n].price,
     referral |-> r[n].referralUsd \div r[n].price]

(* What is kept on Avalanche; the rest is swapped for USDC and bridged.    *)
RequiredBalance(r, n) ==
    (GlpUsd(r, n) + GmxUsd(r, n) + r[n].referralUsd + KeeperUsd(r, n)
        + TreasuryUsd(r, n) + ChainlinkUsd(r, n)) \div r[n].price

(* processFees sends out this share of the GMX and GLP fees (97 %).        *)
Distributed(amount, basisPoints) == (amount * basisPoints) \div 10000
=============================================================================
