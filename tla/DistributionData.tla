--------------------------- MODULE DistributionData ---------------------------
(***************************************************************************)
(* The referral rewards of a week on one network: how                      *)
(* scripts/referrals/distributionData.js turns the statistics of the       *)
(* subgraph into the file from which the fee scripts plan and send         *)
(* rewards, and how the two readers of that file add it up.                *)
(*                                                                         *)
(* d has the daily rows of affiliates and of traders, the tiers, the limit *)
(* of esGMX rewards in USD and the thresholds under which a reward is not  *)
(* paid.                                                                   *)
(***************************************************************************)
EXTENDS Integers, FiniteSets, FiniteSetsExt

BonusTier == 2
Digits == 30                    \* USD_DECIMALS, used to scale a quotient
PageLimit == 60000              \* rows the six pages of a query can hold
TierLimit == 1000               \* affiliates the tier query can return

Affiliates(d) == {row.affiliate : row \in d.affiliateStats}
Traders(d) == {row.referral : row \in d.referralStats}
Tier(d, a) == IF a \in DOMAIN d.tiers THEN d.tiers[a] ELSE 0

RowsOf(d, a) == {row \in d.affiliateStats : row.affiliate = a}
RebateUsd(d, a) == SumFunction([row \in RowsOf(d, a) |-> row.total - row.discount])
DiscountUsd(d, t) ==
    SumFunction([row \in {r \in d.referralStats : r.referral = t} |-> row.discount])

AllDiscounts(d) ==
    SumFunction([t \in Traders(d) |-> DiscountUsd(d, t)])
HasShare(d, t) ==
    (DiscountUsd(d, t) * d.shareDivisor) \div AllDiscounts(d) # 0

(* Affiliates of the bonus tier earn esGMX worth a fifth of all rebates.   *)
Bonus(d) == {a \in Affiliates(d) : Tier(d, a) = BonusTier}
FullEsGmxUsd(d, a) ==
    SumFunction([row \in RowsOf(d, a) |-> row.total + row.v2]) \div 5
EsGmxTotal(d) == SumFunction([a \in Bonus(d) |-> FullEsGmxUsd(d, a)])
OverLimit(d) == EsGmxTotal(d) > d.esGmxLimit

(* Above the limit all are reduced by one ratio, kept in thirtieths.       *)
(* Mutant: the quotient is scaled after it has been rounded.               *)
DenominatorRounded(d) == (EsGmxTotal(d) \div d.esGmxLimit) * Digits
Denominator(d) == (EsGmxTotal(d) * Digits) \div d.esGmxLimit
EsGmxUsd(d, a) ==
    IF a \notin Bonus(d) THEN 0
    ELSE IF OverLimit(d) THEN (FullEsGmxUsd(d, a) * Digits) \div Denominator(d)
    ELSE FullEsGmxUsd(d, a)

(* Without rebates nothing is written: the file of an earlier week stays.  *)
NoRebates(d) ==
    SumFunction([row \in d.affiliateStats |-> row.total - row.discount]) = 0

(* The reduction reads the esGMX of every affiliate, and an affiliate of   *)
(* another tier has none; a share of no discounts is a division by zero.   *)
SaveThrows(d) ==
    \/ Cardinality(DOMAIN d.tiers) = TierLimit
    \/ Cardinality(d.affiliateStats) = PageLimit
    \/ Cardinality(d.referralStats) = PageLimit
    \/ /\ ~NoRebates(d)
       /\ \/ OverLimit(d) /\ Affiliates(d) # Bonus(d)
          \/ d.referralStats # {} /\ AllDiscounts(d) = 0

(* What is written: rewards that are worth sending, per account.           *)
File(d) ==
    [affiliates |->
        [a \in {b \in Affiliates(d) :
                    \/ RebateUsd(d, b) >= d.threshold
                    \/ EsGmxUsd(d, b) >= d.esGmxThreshold}
            |-> [rebateUsd |-> RebateUsd(d, a), esGmxUsd |-> EsGmxUsd(d, a)]],
     referrals |->
        [t \in {u \in Traders(d) : /\ HasShare(d, u)
                                   /\ DiscountUsd(d, u) >= d.threshold}
            |-> DiscountUsd(d, t)],
     bonus |-> Bonus(d)]

Saved(file, d) == IF NoRebates(d) THEN file ELSE File(d)

-----------------------------------------------------------------------------
(* getReferralRewardsInfo: what a plan sets aside, the rewards of the zero *)
(* address included.                                                       *)
PlannedUsd(file) ==
    SumFunction([a \in DOMAIN file.affiliates |-> file.affiliates[a].rebateUsd])
        + SumFunction(file.referrals)

(* sendReferralRewards: the amounts it sends, which leave that address out.*)
AffiliateAmount(file, a, price) == file.affiliates[a].rebateUsd \div price
DiscountAmount(file, t, price) == file.referrals[t] \div price
EsGmxAmount(file, a, price) == file.affiliates[a].esGmxUsd \div price

NativeTotal(file, zero, price) ==
    SumFunction([a \in DOMAIN file.affiliates \ {zero} |->
                     AffiliateAmount(file, a, price)])
        + SumFunction([t \in DOMAIN file.referrals \ {zero} |->
                           DiscountAmount(file, t, price)])
EsGmxReceivers(file, zero) ==
    (DOMAIN file.affiliates \cap file.bonus) \ {zero}
EsGmxTotalAmount(file, zero, price) ==
    SumFunction([a \in EsGmxReceivers(file, zero) |-> EsGmxAmount(file, a, price)])
=============================================================================
