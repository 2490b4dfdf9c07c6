--------------------------- MODULE FeeScriptsProofs ---------------------------
(***************************************************************************)
(* What is proved of the programs that send out the fees of a week.        *)
(*                                                                         *)
(* The amounts of a plan: for all fees, prices and settings that pass the  *)
(* checks of createFeePlan, its parts are what there is. The files: the    *)
(* reduction of esGMX keeps to the limit for any number of affiliates.     *)
(*                                                                         *)
(* The sending: credit is given only for what was sent, and no keeper gets *)
(* more gas than its target, for any number of keepers and recipients, any *)
(* balances and any number of crashes. The invariant speaks about the list *)
(* of transactions still to be sent. Credit never comes first, but right   *)
(* behind a payment of as much to the same account; what is at the head of *)
(* the list is backed by the ledger, because the payment was the           *)
(* transaction before. A keeper is in the list at most once, with no more  *)
(* than it lacks, and nothing else in the list moves gas.                  *)
(*                                                                         *)
(* What a plan promises stays covered. What the fee keeper, the handler    *)
(* and the payees hold of native tokens is as much after a transaction as  *)
(* before, when the gas that keepers lack is counted against it: only what *)
(* keepers burn is lost. The handler has nothing left once its claims are  *)
(* sent, so that what a plan counted there is with the fee keeper from the *)
(* second step on.                                                         *)
(*                                                                         *)
(* A step that checks first has enough. Its list is orderly: nothing is    *)
(* taken before it is looked for, and nothing is needed before it comes    *)
(* in. So it is enough to compare what the whole list takes with what      *)
(* there is, and that goes on to hold for what is left of the list. The    *)
(* payments check nothing. Those of distributeFees are covered by what the *)
(* fee keeper holds until then, in which his own gas is neither more nor   *)
(* less than at first; those of processFees by what its rewards left.      *)
(***************************************************************************)
EXTENDS FeeScripts, LedgerSums, TLAPS

(* Part of an amount.                                                      *)
LEMMA Division ==
    ASSUME NEW a \in Nat, NEW c \in Nat, c > 0
    PROVE  a \div c \in Nat /\ (a \div c) * c <= a
  BY SMT

LEMMA AtMost ==
    ASSUME NEW q \in Nat, NEW a \in Nat, NEW c \in Nat, c > 0, q * c <= a * c
    PROVE  q <= a
  BY SMT

LEMMA Monotone ==
    ASSUME NEW a \in Nat, NEW b \in Nat, NEW c \in Nat, b <= c
    PROVE  a * b <= a * c
  BY SMT

LEMMA Share ==
    ASSUME NEW a \in Nat, NEW b \in Nat, NEW c \in Nat, c > 0, b <= c
    PROVE  (a * b) \div c \in 0 .. a
<1> DEFINE q == (a * b) \div c
<1>1. a * b \in Nat /\ q \in Nat /\ q * c <= a * b
  BY Division
<1>2. a * b <= a * c
  BY Monotone
<1>. HIDE DEF q
<1>3. q * c <= a * c
  <2>1. a * c \in Nat /\ q * c \in Nat
    BY <1>1
  <2>. QED  BY <1>1, <1>2, <2>1
<1>4. q <= a
  BY <1>1, <1>3, AtMost
<1>5. q \in 0 .. a
  BY <1>1, <1>4
<1>. QED  BY <1>5 DEF q

-----------------------------------------------------------------------------
(* What the plan for the native tokens of a network is made from.          *)
NativeInputs ==
    [total : Nat, feesV1 : Nat, feesV2 : Nat, keeperCosts : Nat, referralUsd : Nat,
     price : Nat \ {0}, minGlp : Nat, multiplier : Nat]

LEMMA NativeTypes ==
    ASSUME NEW v \in NativeInputs
    PROVE  /\ v.total \in Nat /\ v.feesV1 \in Nat /\ v.feesV2 \in Nat
           /\ v.keeperCosts \in Nat /\ v.referralUsd \in Nat
           /\ v.price \in Nat /\ v.price > 0 /\ v.minGlp \in Nat
           /\ v.multiplier \in Nat
  BY DEF NativeInputs

LEMMA V2Shares ==
    ASSUME NEW v \in NativeInputs, v.multiplier <= 10000, v.feesV1 + V2Fees(v) # 0
    PROVE  /\ V2Fees(v) \in Nat /\ V2Part(v) \in 0 .. v.total
           /\ Treasury(v) \in Nat /\ Chainlink(v) \in Nat
           /\ Treasury(v) + Chainlink(v) <= V2Part(v)
<1>0. /\ v.total \in Nat /\ v.feesV1 \in Nat /\ v.feesV2 \in Nat
      /\ v.multiplier \in Nat /\ v.multiplier <= 10000
  BY NativeTypes
<1>1. V2Fees(v) \in Nat
  <2>1. v.feesV2 * 10 \in Nat
    BY <1>0
  <2>. QED  BY <2>1, Division DEF V2Fees
<1>2. V2Part(v) \in 0 .. v.total
  <2>1. v.feesV1 + V2Fees(v) \in Nat /\ v.feesV1 + V2Fees(v) > 0
        /\ V2Fees(v) <= v.feesV1 + V2Fees(v)
    BY <1>0, <1>1
  <2>. QED  BY <1>0, <1>1, <2>1, Share DEF V2Part
<1> DEFINE most == (V2Part(v) * 88) \div 100
<1>3. V2Part(v) \in Nat
  BY <1>0, <1>2
<1>4. most \in Nat /\ Chainlink(v) \in Nat /\ most + Chainlink(v) <= V2Part(v)
  BY <1>3 DEF Chainlink
<1>5. Treasury(v) \in 0 .. most
  <2>. HIDE DEF most
  <2>1. (most * v.multiplier) \div 10000 \in 0 .. most
    BY <1>0, <1>4, Share
  <2>. QED  BY <2>1 DEF Treasury, most
<1>. HIDE DEF most
<1>. QED  BY <1>1, <1>2, <1>3, <1>4, <1>5

(* A plan that leaves liquidity providers their minimum (createFeePlan.js, *)
(* line 287) gives nobody a negative amount, and all together exactly what *)
(* there is: the check against the total (line 414) refuses no plan that   *)
(* gets that far, so that the minimum is all that keeps a plan from        *)
(* spending too much.                                                      *)
THEOREM PlanSpendsAll ==
    ASSUME NEW v \in NativeInputs, v.multiplier <= 10000,
           v.feesV1 + V2Fees(v) # 0, v.total # V2Part(v),
           (Glp(v) * 100) \div (v.total - V2Part(v)) >= v.minGlp
    PROVE  /\ NativePlannable(v)
           /\ Spent(NativePlan(v)) = v.total
           /\ Treasury(v) >= 0 /\ Chainlink(v) >= 0 /\ Referral(v) >= 0 /\ Glp(v) >= 0
<1>0. /\ v.total \in Nat /\ v.keeperCosts \in Nat /\ v.referralUsd \in Nat
      /\ v.price \in Nat /\ v.price > 0 /\ v.minGlp \in Nat
  BY NativeTypes
<1>1. /\ V2Part(v) \in 0 .. v.total
      /\ Treasury(v) \in Nat /\ Chainlink(v) \in Nat
  BY V2Shares
<1>2. Referral(v) \in Nat
  BY <1>0, Division DEF Referral
<1>3. Glp(v) \in Int
  BY <1>0, <1>1, <1>2 DEF Glp
<1>4. Spent(NativePlan(v)) = v.total
  BY <1>0, <1>1, <1>2 DEF Spent, NativePlan, Glp
<1>5. Glp(v) >= 0
  <2>1. (Glp(v) * 100) \div (v.total - V2Part(v)) >= 0 /\ v.total - V2Part(v) > 0
    BY <1>0, <1>1, <1>3
  <2>2. ASSUME NEW a \in Int, NEW d \in Int, d > 0, a \div d >= 0 PROVE a >= 0
    BY <2>2, SMT
  <2>. QED  BY <1>0, <1>1, <1>3, <2>1, <2>2
<1>6. NativePlannable(v)
  BY <1>0, <1>4 DEF NativePlannable
<1>. QED  BY <1>1, <1>2, <1>4, <1>5, <1>6

(* The parts of any plan that saveFeePlan accepts are amounts.             *)
LEMMA PlannableTyped ==
    ASSUME NEW v \in NativeInputs, NativePlannable(v)
    PROVE  /\ Treasury(v) \in Nat /\ Chainlink(v) \in Nat /\ Glp(v) \in Nat
           /\ Referral(v) \in Nat
<1>0. /\ v.total \in Nat /\ v.feesV1 \in Nat /\ v.feesV2 \in Nat
      /\ v.keeperCosts \in Nat /\ v.referralUsd \in Nat /\ v.minGlp \in Nat
      /\ v.price \in Nat /\ v.price > 0 /\ v.multiplier \in Nat
  BY NativeTypes
<1>1. V2Fees(v) \in Nat
  BY <1>0 DEF V2Fees
<1>2. V2Part(v) \in 0 .. v.total
  <2>1. v.feesV1 + V2Fees(v) \in Nat /\ v.feesV1 + V2Fees(v) > 0
        /\ V2Fees(v) <= v.feesV1 + V2Fees(v)
    BY <1>0, <1>1 DEF NativePlannable
  <2>. QED  BY <1>0, <1>1, <2>1, Share DEF V2Part
<1>3. Treasury(v) \in Nat /\ Chainlink(v) \in Nat
  <2>1. (V2Part(v) * 88) \div 100 \in Nat /\ Chainlink(v) \in Nat
    BY <1>0, <1>2 DEF Chainlink
  <2>2. ((V2Part(v) * 88) \div 100) * v.multiplier \in Nat
    BY <1>0, <2>1
  <2>. QED  BY <2>1, <2>2, Division DEF Treasury
<1>4. Referral(v) \in Nat
  BY <1>0, Division DEF Referral
<1>5. Glp(v) \in Int
  BY <1>0, <1>3, <1>4 DEF Glp
<1>6. Glp(v) >= 0
  <2>1. (Glp(v) * 100) \div (v.total - V2Part(v)) >= 0 /\ v.total - V2Part(v) > 0
    <3>1. (Glp(v) * 100) \div (v.total - V2Part(v)) >= v.minGlp
          /\ v.total # V2Part(v)
      BY DEF NativePlannable
    <3>2. (Glp(v) * 100) \div (v.total - V2Part(v)) \in Int
      BY <1>0, <1>2, <1>5, <3>1
    <3>. QED  BY <1>0, <1>2, <3>1, <3>2
  <2>2. ASSUME NEW a \in Int, NEW d \in Int, d > 0, (a * 100) \div d >= 0 PROVE a >= 0
    BY <2>2, SMT
  <2>. QED  BY <1>0, <1>2, <1>5, <2>1, <2>2
<1>. QED  BY <1>3, <1>4, <1>5, <1>6

-----------------------------------------------------------------------------
(* GMX that was bought back is enough for the rewards of both networks,    *)
(* and so is what each of them has once the difference is bridged.         *)
GmxInputs ==
    [arbGmx : Nat, avaxGmx : Nat, arbStaked : Nat, avaxStaked : Nat,
     gmxMultiplier : 0 .. 100]

THEOREM BridgingSuffices ==
    ASSUME NEW g \in GmxInputs, g.arbStaked + g.avaxStaked # 0
    PROVE  /\ GmxPlannable(g)
           /\ ArbGmxRewards(g) \in Nat /\ AvaxGmxRewards(g) \in Nat
           /\ g.arbGmx - DeltaRewardArb(g) = ArbGmxRewards(g)
           /\ g.avaxGmx + DeltaRewardArb(g) >= AvaxGmxRewards(g)
<1>1. /\ g.arbGmx \in Nat /\ g.avaxGmx \in Nat
      /\ g.arbStaked \in Nat /\ g.avaxStaked \in Nat
      /\ g.gmxMultiplier \in Nat /\ g.gmxMultiplier <= 100
  BY DEF GmxInputs
<1> DEFINE all == g.arbGmx + g.avaxGmx
<1>2. all \in Nat
  BY <1>1
<1>3. AvaxShare(g) \in 0 .. all
  <2>1. g.arbStaked + g.avaxStaked \in Nat /\ g.arbStaked + g.avaxStaked > 0
        /\ g.avaxStaked <= g.arbStaked + g.avaxStaked
    BY <1>1
  <2>. HIDE DEF all
  <2>2. (all * g.avaxStaked) \div (g.arbStaked + g.avaxStaked) \in 0 .. all
    BY <1>1, <1>2, <2>1, Share
  <2>. QED  BY <2>2 DEF AvaxShare, all
<1>4. AvaxShare(g) \in Nat /\ all - AvaxShare(g) \in Nat
  <2>. HIDE DEF all
  <2>. QED  BY <1>2, <1>3
<1>5. AvaxGmxRewards(g) \in 0 .. AvaxShare(g)
  BY <1>1, <1>4, Share DEF AvaxGmxRewards
<1>6. ArbGmxRewards(g) \in 0 .. (all - AvaxShare(g))
  BY <1>1, <1>4, Share DEF ArbGmxRewards
<1>. QED  BY <1>1, <1>4, <1>5, <1>6 DEF GmxPlannable, DeltaRewardArb

-----------------------------------------------------------------------------
(* The rows of one account.                                                *)
LEMMA FullTyped ==
    ASSUME NEW data \in DataChoices, NEW n \in Networks, NEW a
    PROVE  FullEsGmxUsd(data[n], a) \in Nat /\ RebateUsd(data[n], a) \in Nat
<1> DEFINE d == data[n]
           R == RowsOf(d, a)
           f == [row \in R |-> row.total + row.v2]
           g == [row \in R |-> row.total - row.discount]
<1>1. IsFiniteSet(R)
  BY DataAssumption, FS_Subset DEF RowsOf
<1>2. \A row \in R : row.total \in Nat /\ row.v2 \in Nat /\ row.discount \in 0..row.total
  BY DataAssumption DEF RowsOf
<1>3. \A row \in R : f[row] \in Nat /\ g[row] \in Nat
  BY <1>2
<1>. HIDE DEF f, g, R
<1>4. SumFunctionOnSet(f, R) \in Nat /\ SumFunctionOnSet(g, R) \in Nat
  BY <1>1, <1>3, SumType
<1>5. SumFunction(f) \in Nat /\ SumFunction(g) \in Nat
  BY <1>4 DEF SumFunction, f, g
<1>. QED  BY <1>5, Division DEF f, g, R, FullEsGmxUsd, RebateUsd, d

LEMMA DiscountTyped ==
    ASSUME NEW data \in DataChoices, NEW n \in Networks, NEW t
    PROVE  DiscountUsd(data[n], t) \in Nat
<1> DEFINE R == {r \in data[n].referralStats : r.referral = t}
           f == [row \in R |-> row.discount]
<1>1. IsFiniteSet(R)
  BY DataAssumption, FS_Subset
<1>2. \A row \in R : f[row] \in Nat
  BY DataAssumption
<1>. HIDE DEF f, R
<1>3. SumFunctionOnSet(f, R) \in Nat
  BY <1>1, <1>2, SumType
<1>4. SumFunction(f) \in Nat
  BY <1>3 DEF SumFunction, f
<1>. QED  BY <1>4 DEF f, R, DiscountUsd

LEMMA AccountsFinite ==
    ASSUME NEW data \in DataChoices, NEW n \in Networks
    PROVE  /\ IsFiniteSet(Affiliates(data[n])) /\ IsFiniteSet(Bonus(data[n]))
           /\ IsFiniteSet(Traders(data[n]))
           /\ Affiliates(data[n]) \cup Traders(data[n]) \subseteq Recipients \cup {Zero}
<1>1. IsFiniteSet(Affiliates(data[n])) /\ IsFiniteSet(Traders(data[n]))
  <2> DEFINE f == [row \in data[n].affiliateStats |-> row.affiliate]
             g == [row \in data[n].referralStats |-> row.referral]
  <2>1. /\ f \in Surjection(data[n].affiliateStats, Affiliates(data[n]))
        /\ g \in Surjection(data[n].referralStats, Traders(data[n]))
    BY DEF Surjection, Affiliates, Traders
  <2>. HIDE DEF f, g
  <2>2. IsFiniteSet(data[n].affiliateStats) /\ IsFiniteSet(data[n].referralStats)
    BY DataAssumption
  <2>3. IsFiniteSet(Affiliates(data[n]))
    BY <2>1, <2>2, FS_Surjection
  <2>4. IsFiniteSet(Traders(data[n]))
    BY <2>1, <2>2, FS_Surjection
  <2>. QED  BY <2>3, <2>4
<1>2. Bonus(data[n]) \subseteq Affiliates(data[n])
  BY DEF Bonus
<1>3. Affiliates(data[n]) \cup Traders(data[n]) \subseteq Recipients \cup {Zero}
  BY DataAssumption DEF Affiliates, Traders
<1>. QED  BY <1>1, <1>2, <1>3, FS_Subset

LEMMA EsGmxTyped ==
    ASSUME NEW data \in DataChoices, NEW n \in Networks
    PROVE  /\ EsGmxTotal(data[n]) \in Nat
           /\ OverLimit(data[n]) => /\ Denominator(data[n]) \in Nat
                                    /\ Denominator(data[n]) >= Digits
           /\ \A a : EsGmxUsd(data[n], a) \in Nat
<1> DEFINE d == data[n]
           f == [a \in Bonus(d) |-> FullEsGmxUsd(d, a)]
<1>1. \A a \in Bonus(d) : f[a] \in Nat
  BY FullTyped
<1>2. SumFunctionOnSet(f, Bonus(d)) \in Nat
  <2>. HIDE DEF f
  <2>. QED  BY <1>1, AccountsFinite, SumType
<1>3. EsGmxTotal(d) \in Nat
  BY <1>2 DEF SumFunction, EsGmxTotal
<1>4. d.esGmxLimit \in Nat /\ d.esGmxLimit > 0
  BY DataAssumption
<1>5. ASSUME OverLimit(d) PROVE Denominator(d) \in Nat /\ Denominator(d) >= Digits
  <2>1. ASSUME NEW t \in Nat, NEW l \in Nat, l > 0, t > l
        PROVE  (t * 30) \div l \in Nat /\ (t * 30) \div l >= 30
    <3>1. PICK q : q = (t * 30) \div l
      OBVIOUS
    <3>2. q \in Int /\ t * 30 < l * (q + 1) /\ q >= 0
      BY <2>1, <3>1, SMT
    <3>3. CASE q <= 29
      <4>1. l * (q + 1) <= l * 30
        BY <2>1, <3>2, <3>3, SMT
      <4>. QED  BY <2>1, <3>2, <4>1
    <3>. QED  BY <3>1, <3>2, <3>3
  <2>. QED  BY <1>3, <1>4, <1>5, <2>1 DEF OverLimit, Denominator, Digits
<1>6. ASSUME NEW a PROVE EsGmxUsd(d, a) \in Nat
  <2>1. FullEsGmxUsd(d, a) \in Nat
    BY FullTyped
  <2>2. CASE a \in Bonus(d) /\ OverLimit(d)
    <3>1. /\ Denominator(d) \in Nat /\ Denominator(d) > 0
          /\ FullEsGmxUsd(d, a) * Digits \in Nat
      BY <1>5, <2>1, <2>2 DEF Digits
    <3>2. (FullEsGmxUsd(d, a) * Digits) \div Denominator(d) \in Nat
      BY <3>1, Division
    <3>. QED  BY <2>2, <3>2 DEF EsGmxUsd
  <2>. QED  BY <2>1, <2>2 DEF EsGmxUsd
<1>. QED  BY <1>3, <1>5, <1>6

LEMMA Reduced ==
    ASSUME NEW x \in Nat, NEW t \in Nat, NEW l \in Nat, l > 0, NEW c \in Nat, c >= 30,
           c = (t * 30) \div l, x * c <= t * 30
    PROVE  x * 29 <= l * 30
<1>1. t * 30 < l * (c + 1)
  BY SMT
<1>2. PICK xc \in Nat, lc \in Nat : xc = x * c /\ lc = l * c
  OBVIOUS
<1>3. l * (c + 1) = lc + l
  BY <1>2
<1>4. xc < lc + l
  BY <1>1, <1>2, <1>3
<1>5. lc >= l * 30
  BY <1>2
<1>6. SUFFICES ASSUME x * 29 > l * 30 PROVE FALSE
  OBVIOUS
<1>7. xc * 29 >= lc * 30
  <2>1. (x * 29) * c >= (l * 30) * c
    BY <1>6
  <2>2. (x * 29) * c = xc * 29 /\ (l * 30) * c = lc * 30
    BY <1>2
  <2>. QED  BY <2>1, <2>2
<1>. QED  BY <1>4, <1>5, <1>7

LEMMA FileWithinLimit ==
    ASSUME NEW data \in DataChoices, NEW n \in Networks, NEW F,
           F = DOMAIN File(data[n]).affiliates
    PROVE  SumFunction([a \in F |-> File(data[n]).affiliates[a].esGmxUsd])
               * (Digits - 1) <= data[n].esGmxLimit * Digits
<1> DEFINE d == data[n]
           A == Affiliates(d)
           B == Bonus(d)
           e == [a \in F |-> File(d).affiliates[a].esGmxUsd]
           h == [a \in A |-> EsGmxUsd(d, a)]
           f == [a \in B |-> FullEsGmxUsd(d, a)]
           S == SumFunctionOnSet(h, B)
<1>1. IsFiniteSet(A) /\ IsFiniteSet(B) /\ B \subseteq A
  BY AccountsFinite DEF Bonus
<1>2. F \subseteq A /\ \A a \in F : e[a] = h[a]
  BY DEF File
<1>3. \A a \in A : h[a] \in Nat
  BY EsGmxTyped
<1>4. \A a \in A \ B : h[a] = 0
  BY DEF EsGmxUsd
<1>5. \A a \in B : f[a] \in Nat
  BY FullTyped
<1>6. SumFunction(e) = SumFunctionOnSet(e, F) /\ SumFunctionOnSet(f, B) = EsGmxTotal(d)
  BY DEF SumFunction, EsGmxTotal
<1>7. d.esGmxLimit \in Nat /\ d.esGmxLimit > 0
  BY DataAssumption
<1>8. /\ OverLimit(d) => \A a \in B :
            h[a] = (f[a] * Digits) \div Denominator(d)
      /\ ~OverLimit(d) => \A a \in B : h[a] = f[a]
  BY <1>1 DEF EsGmxUsd
<1>. HIDE DEF e, h, f, A, B
<1>9. SumFunctionOnSet(e, F) <= S /\ S \in Nat
  <2>1. IsFiniteSet(F)
    BY <1>1, <1>2, FS_Subset
  <2>2. SumFunctionOnSet(e, F) = SumFunctionOnSet(h, F)
    BY <1>2, <1>3, <2>1, SumEqual
  <2>3. /\ SumFunctionOnSet(h, A)
               = SumFunctionOnSet(h, F) + SumFunctionOnSet(h, A \ F)
        /\ SumFunctionOnSet(h, A) = SumFunctionOnSet(h, A \cap B)
    BY <1>1, <1>2, <1>3, <1>4, SumSplit, SumRestrict
  <2>4. SumFunctionOnSet(h, A \ F) \in Nat /\ SumFunctionOnSet(h, F) \in Nat
    <3>1. IsFiniteSet(A \ F) /\ \A a \in A \ F : h[a] \in Nat
      BY <1>1, <1>3, FS_Subset
    <3>2. \A a \in F : h[a] \in Nat
      BY <1>2, <1>3
    <3>3. SumFunctionOnSet(h, A \ F) \in Nat
      BY <3>1, SumType
    <3>4. SumFunctionOnSet(h, F) \in Nat
      BY <2>1, <3>2, SumType
    <3>. QED  BY <3>3, <3>4
  <2>5. A \cap B = B
    BY <1>1
  <2>6. S = SumFunctionOnSet(h, A)
    BY <2>3, <2>5
  <2> DEFINE p == SumFunctionOnSet(h, F)
             q == SumFunctionOnSet(h, A \ F)
  <2>7. p \in Nat /\ q \in Nat /\ S = p + q
    BY <2>3, <2>4, <2>6
  <2>. HIDE DEF S, p, q
  <2>8. p <= S /\ S \in Nat
    BY <2>7
  <2>. QED  BY <2>2, <2>8 DEF p
<1>10. S * 29 <= d.esGmxLimit * 30
  <2>1. \A a \in B : h[a] \in Nat
    BY <1>1, <1>3
  <2>2. CASE ~OverLimit(d)
    <3>1. S = EsGmxTotal(d)
      BY <1>1, <1>5, <1>6, <1>8, <2>2, SumEqual
    <3>2. EsGmxTotal(d) <= d.esGmxLimit
      BY <2>2, <1>7, EsGmxTyped DEF OverLimit
    <3>. HIDE DEF S
    <3>. QED  BY <1>7, <1>9, <3>1, <3>2
  <2>3. CASE OverLimit(d)
    <3> DEFINE c == Denominator(d)
               k == [a \in B |-> h[a] * c]
               m == [a \in B |-> f[a] * 30]
    <3>1. c \in Nat /\ c >= 30 /\ c = (EsGmxTotal(d) * 30) \div d.esGmxLimit
      BY <2>3, EsGmxTyped DEF Denominator, Digits
    <3>2. EsGmxTotal(d) \in Nat
      BY EsGmxTyped
    <3>3. \A a \in B : k[a] \in Int /\ m[a] \in Int /\ k[a] <= m[a]
      <4>1. ASSUME NEW a \in B PROVE h[a] * c \in Nat /\ f[a] * 30 \in Nat
                                     /\ h[a] * c <= f[a] * 30
        <5>1. h[a] = (f[a] * 30) \div c
          BY <1>8, <2>3 DEF Digits
        <5>2. f[a] * 30 \in Nat /\ c > 0
          BY <1>5, <3>1
        <5>. HIDE DEF c
        <5>. QED  BY <2>1, <3>1, <5>1, <5>2, Division
      <4>. QED  BY <4>1
    <3>4. /\ \A a \in B : h[a] \in Int /\ k[a] = h[a] * c
          /\ \A a \in B : f[a] \in Int /\ m[a] = f[a] * 30
      BY <1>5, <2>1
    <3>. HIDE DEF c, k, m
    <3>5. SumFunctionOnSet(k, B) <= SumFunctionOnSet(m, B)
      BY <1>1, <3>3, SumMonotone
    <3>6. SumFunctionOnSet(k, B) = S * c
      BY <1>1, <3>1, <3>4, SumScale
    <3>7. SumFunctionOnSet(m, B) = EsGmxTotal(d) * 30
      <4>1. SumFunctionOnSet(m, B) = SumFunctionOnSet(f, B) * 30
        BY <1>1, <3>4, SumScale
      <4>. QED  BY <4>1, <1>6
    <3>. HIDE DEF S
    <3>8. S * c <= EsGmxTotal(d) * 30
      BY <3>5, <3>6, <3>7
    <3>. QED  BY <1>7, <1>9, <3>1, <3>2, <3>8, Reduced
  <2>. QED  BY <2>2, <2>3
<1>11. SumFunctionOnSet(e, F) \in Nat
  <2>1. IsFiniteSet(F) /\ \A a \in F : e[a] \in Nat
    BY <1>1, <1>2, <1>3, FS_Subset
  <2>. QED  BY <2>1, SumType
<1>. HIDE DEF S
<1>12. SumFunction(e) * 29 <= d.esGmxLimit * 30
  BY <1>6, <1>7, <1>9, <1>10, <1>11
<1>. QED  BY <1>12 DEF Digits, e

(* The esGMX of the files that createFeePlan writes stay within a          *)
(* thirtieth of its limit, whatever the subgraph returns.                  *)
THEOREM EsGmxStaysWithinLimit == Spec => []EsGmxWithinLimit
<1>1. Init => EsGmxWithinLimit
  BY FileWithinLimit DEF EsGmxWithinLimit
<1>2. EsGmxWithinLimit /\ [Next]_vars => EsGmxWithinLimit'
  BY FileWithinLimit DEF EsGmxWithinLimit
<1>. QED  BY <1>1, <1>2, PTL DEF Spec

-----------------------------------------------------------------------------
(* Types: what the files, the ledger and the plan are made of.             *)

WellFormed(f) ==
    /\ IsFiniteSet(DOMAIN f.affiliates) /\ IsFiniteSet(DOMAIN f.referrals)
    /\ DOMAIN f.affiliates \cup DOMAIN f.referrals \subseteq Recipients \cup {Zero}
    /\ \A a \in DOMAIN f.affiliates :
          f.affiliates[a] \in [rebateUsd : Nat, esGmxUsd : Nat]
    /\ \A t \in DOMAIN f.referrals : f.referrals[t] \in Nat

LEMMA FileWellFormed ==
    ASSUME NEW data \in DataChoices, NEW n \in Networks
    PROVE  WellFormed(File(data[n]))
<1> DEFINE d == data[n]
<1>1. /\ DOMAIN File(d).affiliates \subseteq Affiliates(d)
      /\ DOMAIN File(d).referrals \subseteq Traders(d)
  BY DEF File
<1>2. /\ \A a \in DOMAIN File(d).affiliates : File(d).affiliates[a] =
              [rebateUsd |-> RebateUsd(d, a), esGmxUsd |-> EsGmxUsd(d, a)]
      /\ \A t \in DOMAIN File(d).referrals : File(d).referrals[t] = DiscountUsd(d, t)
  BY DEF File
<1>3. /\ IsFiniteSet(DOMAIN File(d).affiliates)
      /\ IsFiniteSet(DOMAIN File(d).referrals)
  BY <1>1, AccountsFinite, FS_Subset
<1>4. ASSUME NEW a \in DOMAIN File(d).affiliates
      PROVE  File(d).affiliates[a] \in [rebateUsd : Nat, esGmxUsd : Nat]
  <2>1. RebateUsd(d, a) \in Nat
    BY FullTyped
  <2>2. EsGmxUsd(d, a) \in Nat
    BY EsGmxTyped
  <2>3. File(d).affiliates[a] = [rebateUsd |-> RebateUsd(d, a), esGmxUsd |-> EsGmxUsd(d, a)]
    BY <1>2
  <2>. HIDE DEF d
  <2>. QED  BY <2>1, <2>2, <2>3
<1>5. ASSUME NEW t \in DOMAIN File(d).referrals
      PROVE  File(d).referrals[t] \in Nat
  BY <1>2, DiscountTyped
<1>6. DOMAIN File(d).affiliates \cup DOMAIN File(d).referrals
        \subseteq Recipients \cup {Zero}
  BY <1>1, AccountsFinite
<1>. QED  BY <1>3, <1>4, <1>5, <1>6 DEF WellFormed

(* What a file adds up to.                                                 *)
LEMMA SumTyped ==
    ASSUME NEW S, IsFiniteSet(S), NEW f, S = DOMAIN f, \A x \in S : f[x] \in Nat
    PROVE  SumFunction(f) \in Nat
  BY SumType DEF SumFunction

LEMMA RewardsTyped ==
    ASSUME NEW f, WellFormed(f), NEW price \in Nat \ {0}
    PROVE  /\ \A a \in DOMAIN f.affiliates : AffiliateAmount(f, a, price) \in Nat
                                              /\ EsGmxAmount(f, a, price) \in Nat
           /\ \A t \in DOMAIN f.referrals : DiscountAmount(f, t, price) \in Nat
           /\ PlannedUsd(f) \in Nat
           /\ NativeTotal(f, Zero, price) \in Nat
           /\ EsGmxTotalAmount(f, Zero, price) \in Nat
<1> DEFINE R == EsGmxReceivers(f, Zero)
<1>1. \A a \in DOMAIN f.affiliates : /\ f.affiliates[a].rebateUsd \in Nat
                                     /\ f.affiliates[a].esGmxUsd \in Nat
  BY DEF WellFormed
<1>2. \A t \in DOMAIN f.referrals : f.referrals[t] \in Nat
  BY DEF WellFormed
<1>3. \A a \in DOMAIN f.affiliates : AffiliateAmount(f, a, price) \in Nat
                                     /\ EsGmxAmount(f, a, price) \in Nat
  BY <1>1, Division DEF AffiliateAmount, EsGmxAmount
<1>4. \A t \in DOMAIN f.referrals : DiscountAmount(f, t, price) \in Nat
  BY <1>2, Division DEF DiscountAmount
<1>5. /\ IsFiniteSet(DOMAIN f.affiliates) /\ IsFiniteSet(DOMAIN f.referrals)
      /\ IsFiniteSet(DOMAIN f.affiliates \ {Zero})
      /\ IsFiniteSet(DOMAIN f.referrals \ {Zero})
      /\ R \subseteq DOMAIN f.affiliates /\ IsFiniteSet(R)
  <2>1. R \subseteq DOMAIN f.affiliates
    BY DEF EsGmxReceivers
  <2>. QED  BY <2>1, FS_Subset DEF WellFormed
<1>6. PlannedUsd(f) \in Nat
  <2> DEFINE g == [a \in DOMAIN f.affiliates |-> f.affiliates[a].rebateUsd]
  <2>1. SumFunction(f.referrals) \in Nat
    BY <1>2, <1>5, SumTyped
  <2>2. SumFunction(g) \in Nat
    <3>1. DOMAIN g = DOMAIN f.affiliates
          /\ \A a \in DOMAIN f.affiliates : g[a] \in Nat
      BY <1>1
    <3>. HIDE DEF g
    <3>. QED  BY <1>5, <3>1, SumTyped
  <2>. QED  BY <2>1, <2>2 DEF PlannedUsd
<1>7. NativeTotal(f, Zero, price) \in Nat
  <2> DEFINE g == [a \in DOMAIN f.affiliates \ {Zero} |-> AffiliateAmount(f, a, price)]
             h == [t \in DOMAIN f.referrals \ {Zero} |-> DiscountAmount(f, t, price)]
  <2>1. /\ DOMAIN g = DOMAIN f.affiliates \ {Zero} /\ DOMAIN h = DOMAIN f.referrals \ {Zero}
        /\ \A a \in DOMAIN f.affiliates \ {Zero} : g[a] \in Nat
        /\ \A a \in DOMAIN f.referrals \ {Zero} : h[a] \in Nat
    BY <1>3, <1>4
  <2>2. NativeTotal(f, Zero, price) = SumFunction(g) + SumFunction(h)
    BY DEF NativeTotal
  <2>. HIDE DEF g, h
  <2>3. SumFunction(g) \in Nat
    BY <1>5, <2>1, SumTyped
  <2>4. SumFunction(h) \in Nat
    BY <1>5, <2>1, SumTyped
  <2>. QED  BY <2>2, <2>3, <2>4
<1>8. EsGmxTotalAmount(f, Zero, price) \in Nat
  <2> DEFINE g == [a \in R |-> EsGmxAmount(f, a, price)]
  <2>1. DOMAIN g = R /\ \A a \in R : g[a] \in Nat
    BY <1>3, <1>5
  <2>2. EsGmxTotalAmount(f, Zero, price) = SumFunction(g)
    BY DEF EsGmxTotalAmount
  <2>. HIDE DEF g, R
  <2>. QED  BY <1>5, <2>1, <2>2, SumTyped
<1>. QED  BY <1>3, <1>4, <1>6, <1>7, <1>8

-----------------------------------------------------------------------------
(* The ledger, and the amounts of a plan.                                  *)
Balances == [Networks -> [Owners -> [Tokens -> Nat]]]
PlanTyped(p) ==
    /\ \A n \in Networks : /\ p.treasury[n] \in Nat /\ p.chainlink[n] \in Nat
                           /\ p.glp[n] \in Nat /\ p.gmx[n] \in Nat
                           /\ p.referral[n] \in Nat
    /\ p.delta \in Int

LEMMA StatsTyped ==
    ASSUME NEW n \in Networks, NEW period
    PROVE  FeesV1(Stats[n].v1, period) \in Nat /\ FeesV2(Stats[n].v2, period) \in Nat
<1> DEFINE R == {day \in Stats[n].v1 : day.id \in period}
           T == {day \in Stats[n].v2 : day.id \in period}
           f == [s \in R |-> s.marginAndLiquidation + s.swap + s.mint + s.burn]
           g == [s \in T |-> s.borrowing + s.position + s.swapReceiver + s.swapPool]
<1>1. /\ IsFiniteSet(R) /\ DOMAIN f = R /\ IsFiniteSet(T) /\ DOMAIN g = T
  BY StatsAssumption, FS_Subset
<1>2. \A s \in R : f[s] \in Nat
  BY StatsAssumption
<1>3. \A s \in T : g[s] \in Nat
  BY StatsAssumption
<1>4. FeesV1(Stats[n].v1, period) = SumFunction(f)
      /\ FeesV2(Stats[n].v2, period) = SumFunction(g)
  BY DEF FeesV1, FeesV2
<1>. HIDE DEF f, g, R, T
<1>5. SumFunction(f) \in Nat
  BY <1>1, <1>2, SumTyped
<1>6. SumFunction(g) \in Nat
  BY <1>1, <1>3, SumTyped
<1>. QED  BY <1>4, <1>5, <1>6

LEMMA CostsTyped ==
    ASSUME NEW n \in Networks, balance \in Balances
    PROVE  /\ KeeperCosts(Fuel(n), Target) \in Nat
           /\ \A k \in Keepers : /\ TopUp(Fuel(n)[k], Target[k]) \in Nat
                                 /\ Fuel(n)[k] = balance[n][k]["eth"]
                                 /\ Fuel(n)[k] \in Nat /\ Target[k] \in Nat
<1> DEFINE f == [k \in DOMAIN Target |-> TopUp(Fuel(n)[k], Target[k])]
<1>1. DOMAIN Target = Keepers /\ \A k \in Keepers : Target[k] \in Nat
  BY AccountsAssumption
<1>2. \A k \in Keepers : Fuel(n)[k] = balance[n][k]["eth"] /\ Fuel(n)[k] \in Nat
  BY DEF Fuel, Balances, Owners, Tokens
<1>3. \A k \in Keepers : TopUp(Fuel(n)[k], Target[k]) \in Nat
  BY <1>1, <1>2 DEF TopUp
<1>4. DOMAIN f = Keepers /\ \A k \in Keepers : f[k] \in Nat
  BY <1>1, <1>3
<1>5. SumFunction(f) \in Nat
  <2>. HIDE DEF f
  <2>. QED  BY <1>4, AccountsAssumption, SumTyped
<1>. QED  BY <1>1, <1>2, <1>3, <1>5 DEF KeeperCosts

LEMMA AtHandTyped ==
    ASSUME NEW n \in Networks, NEW token \in Tokens, NEW include \in BOOLEAN,
           balance \in Balances
    PROVE  AtHand(n, token, include) \in Nat
  BY DEF AtHand, Balances, Owners, Places

LEMMA PlanIsTyped ==
    ASSUME NEW include \in BOOLEAN, NEW saved, balance \in Balances,
           \A n \in Networks : /\ WellFormed(saved[n])
                               /\ NativePlannable(NativeValues(n, include, saved)),
           GmxPlannable(GmxValues(include))
    PROVE  PlanTyped(PlanFor(include, saved))
<1> DEFINE g == GmxValues(include)
           v(n) == NativeValues(n, include, saved)
<1>1. /\ g.arbGmx \in Nat /\ g.avaxGmx \in Nat
      /\ g.arbStaked \in Nat /\ g.avaxStaked \in Nat /\ g.gmxMultiplier \in Nat
      /\ g.arbStaked + g.avaxStaked > 0
  <2>1. AtHand(arb, "gmx", include) \in Nat /\ AtHand(avax, "gmx", include) \in Nat
    BY AtHandTyped DEF Networks, Tokens
  <2>. QED  BY <2>1, SettingsAssumption DEF GmxValues, GmxPlannable, Networks
<1>2. AvaxGmxRewards(g) \in Nat /\ ArbGmxRewards(g) \in Nat
  <2>1. AvaxShare(g) \in 0 .. (g.arbGmx + g.avaxGmx)
    <3> DEFINE all == g.arbGmx + g.avaxGmx
               most == g.arbStaked + g.avaxStaked
    <3>1. all \in Nat /\ most \in Nat /\ most > 0 /\ g.avaxStaked <= most
      BY <1>1
    <3>. HIDE DEF g
    <3>2. AvaxShare(g) = (all * g.avaxStaked) \div most
      BY DEF AvaxShare
    <3>. HIDE DEF all, most
    <3>3. AvaxShare(g) \in 0 .. all
      BY <1>1, <3>1, <3>2, Share
    <3>. QED  BY <3>3 DEF all
  <2>. HIDE DEF g
  <2>2. AvaxShare(g) * g.gmxMultiplier \in Nat
        /\ (g.arbGmx + g.avaxGmx - AvaxShare(g)) * g.gmxMultiplier \in Nat
    BY <1>1, <2>1
  <2>. QED  BY <2>2, Division DEF AvaxGmxRewards, ArbGmxRewards
<1>3. ASSUME NEW n \in Networks
      PROVE  /\ Treasury(v(n)) \in Nat /\ Chainlink(v(n)) \in Nat
             /\ Glp(v(n)) \in Nat /\ Referral(v(n)) \in Nat
  <2>1. v(n) \in NativeInputs /\ NativePlannable(v(n))
    <3>1. /\ AtHand(n, "wnt", include) \in Nat /\ PlannedUsd(saved[n]) \in Nat
          /\ FeesV1(Stats[n].v1, FeePeriod(now)) \in Nat
          /\ FeesV2(Stats[n].v2, FeePeriod(now)) \in Nat
          /\ KeeperCosts(Fuel(n), Target) \in Nat
      <4>1. AtHand(n, "wnt", include) \in Nat
        BY AtHandTyped DEF Tokens
      <4>2. PlannedUsd(saved[n]) \in Nat
        <5>1. Settings.price[n] \in Nat \ {0}
          BY SettingsAssumption
        <5>. QED  BY <5>1, RewardsTyped
      <4>. QED  BY <4>1, <4>2, StatsTyped, CostsTyped
    <3>. QED  BY <3>1, SettingsAssumption DEF NativeValues, NativeInputs
  <2>. HIDE DEF v
  <2>. QED  BY <2>1, PlannableTyped
<1>4. /\ \A n \in Networks :
            /\ PlanFor(include, saved).treasury[n] = Treasury(v(n))
            /\ PlanFor(include, saved).chainlink[n] = Chainlink(v(n))
            /\ PlanFor(include, saved).glp[n] = Glp(v(n))
            /\ PlanFor(include, saved).referral[n] = Referral(v(n))
            /\ PlanFor(include, saved).gmx[n]
                  = IF n = arb THEN ArbGmxRewards(g) ELSE AvaxGmxRewards(g)
      /\ PlanFor(include, saved).delta = DeltaRewardArb(g)
  BY DEF PlanFor, NativePlan
<1>5. DeltaRewardArb(g) \in Int
  BY <1>1, <1>2 DEF DeltaRewardArb
<1>. QED  BY <1>2, <1>3, <1>4, <1>5 DEF PlanTyped

-----------------------------------------------------------------------------
(* The transactions a step may have to send. Money leaves the accounts of  *)
(* the protocol only, and gas goes to keepers only.                        *)
Kinds == {"transfer", "claim", "unwrap", "rate", "approveHandler", "spend",
          "swap", "excess", "require", "approve", "bonus"}
Sources == {"vault", "feeHandler", "feeAccount", "signer", "wallet"}
Spenders == {"wallet", "feeAccount"}
Sendable(tx) ==
    /\ tx \in [kind : Kinds, net : Networks, from : Sources, to : Owners,
               token : Tokens, amount : Nat]
    /\ tx.kind \in {"transfer", "claim", "spend"} => tx.from # tx.to
    /\ tx.kind = "rate" => tx.to \in Trackers
    /\ tx.kind = "bonus" => tx.to \in Recipients
    /\ tx.kind \in {"unwrap", "excess"} => tx.from = "signer" /\ tx.token = "wnt"
    /\ tx.kind = "swap" => tx.token = "alt"
    /\ tx.kind \in {"spend", "approve"} => tx.from \in Spenders
    /\ tx.token = "eth" => tx.kind = "transfer" /\ tx.from = "signer"
                           /\ tx.to \in Keepers
AllTxs == {tx \in [kind : Kinds, net : Networks, from : Sources, to : Owners,
                   token : Tokens, amount : Nat] : Sendable(tx)}
PlainTxs == {tx \in AllTxs : tx.token # "eth"}

(* A credit comes right after the payment it is for.                       *)
IsCredit(tx) == tx.kind \in {"rate", "bonus"}
Backs(a, b) ==
    /\ a.net = b.net /\ a.to = b.to
    /\ b.kind = "rate" => /\ a.kind = "transfer" /\ a.token \in {"gmx", "wnt"}
                          /\ b.amount <= a.amount
    /\ b.kind = "bonus" => /\ a.kind = "spend" /\ a.token = "esGmx"
                           /\ b.amount = a.amount
Backed(s) == \A i \in 2..Len(s) : IsCredit(s[i]) => Backs(s[i-1], s[i])
Listed(s, T) ==
    /\ s \in Seq(T) /\ Backed(s)
    /\ s # <<>> => ~IsCredit(s[1])

LEMMA ListedArray ==
    ASSUME NEW T, NEW N \in Nat, NEW s \in [1..N -> T],
           \A i \in 1..N : ~IsCredit(s[i])
    PROVE  Listed(s, T)
<1>1. s \in Seq(T) /\ Len(s) = N
  OBVIOUS
<1>2. Backed(s)
  BY <1>1 DEF Backed
<1>3. s # <<>> => ~IsCredit(s[1])
  BY <1>1
<1>. QED  BY <1>1, <1>2, <1>3 DEF Listed

LEMMA ListedPairs ==
    ASSUME NEW T, NEW N \in Nat, NEW s \in [1..2 * N -> T],
           \A i \in 1..2 * N : /\ i % 2 = 1 => ~IsCredit(s[i])
                               /\ i % 2 = 0 => Backs(s[i-1], s[i])
    PROVE  Listed(s, T)
<1>1. s \in Seq(T) /\ Len(s) = 2 * N
  <2>1. 2 * N \in Nat
    OBVIOUS
  <2>. QED  BY <2>1
<1>2. Backed(s)
  <2>1. ASSUME NEW i \in 2..Len(s), IsCredit(s[i]) PROVE Backs(s[i-1], s[i])
    BY <1>1, <2>1
  <2>. QED  BY <2>1 DEF Backed
<1>3. s # <<>> => ~IsCredit(s[1])
  BY <1>1
<1>. QED  BY <1>1, <1>2, <1>3 DEF Listed

LEMMA ListedConcat ==
    ASSUME NEW T, NEW s, NEW t, Listed(s, T), Listed(t, T)
    PROVE  Listed(s \o t, T)
<1>1. s \in Seq(T) /\ t \in Seq(T) /\ Len(s) \in Nat /\ Len(t) \in Nat
  BY DEF Listed
<1>2. /\ s \o t \in Seq(T) /\ Len(s \o t) = Len(s) + Len(t)
      /\ \A i \in 1..Len(s) : (s \o t)[i] = s[i]
      /\ \A i \in 1..Len(t) : (s \o t)[Len(s) + i] = t[i]
  BY <1>1
<1> DEFINE u == s \o t
<1>. HIDE DEF u
<1>3. ASSUME NEW i \in 2..Len(u), IsCredit(u[i]) PROVE Backs(u[i-1], u[i])
  <2>1. i \in Nat /\ i >= 2 /\ i <= Len(s) + Len(t)
    BY <1>1, <1>2 DEF u
  <2>2. CASE i <= Len(s)
    <3>1. u[i] = s[i] /\ u[i-1] = s[i-1]
      BY <1>1, <1>2, <2>1, <2>2 DEF u
    <3>2. i \in 2..Len(s)
      BY <1>1, <2>1, <2>2
    <3>. QED  BY <1>3, <3>1, <3>2 DEF Listed, Backed
  <2>3. CASE i = Len(s) + 1
    <3>1. u[i] = t[1] /\ t # <<>>
      BY <1>1, <1>2, <2>1, <2>3 DEF u
    <3>. QED  BY <1>3, <3>1 DEF Listed
  <2>4. CASE i > Len(s) + 1
    <3>1. PICK j \in 2..Len(t) : i = Len(s) + j
      <4>1. i - Len(s) \in 2..Len(t) /\ i = Len(s) + (i - Len(s))
        BY <1>1, <2>1, <2>4
      <4>. QED  BY <4>1
    <3>2. u[i] = t[j] /\ u[i-1] = t[j-1]
      <4>1. i - 1 = Len(s) + (j - 1) /\ j - 1 \in 1..Len(t) /\ j \in 1..Len(t)
        BY <1>1, <3>1
      <4>. QED  BY <1>2, <3>1, <4>1 DEF u
    <3>. QED  BY <1>3, <3>1, <3>2 DEF Listed, Backed
  <2>. QED  BY <1>1, <2>1, <2>2, <2>3, <2>4
<1>4. ASSUME u # <<>> PROVE ~IsCredit(u[1])
  <2>1. CASE Len(s) > 0
    <3>1. u[1] = s[1] /\ s # <<>>
      BY <1>1, <1>2, <2>1 DEF u
    <3>. QED  BY <3>1 DEF Listed
  <2>2. CASE Len(s) = 0
    <3>1. Len(t) # 0
      BY <1>1, <1>2, <1>4, <2>2 DEF u
    <3>2. u[1] = t[1] /\ t # <<>>
      BY <1>1, <1>2, <2>2, <3>1 DEF u
    <3>. QED  BY <3>2 DEF Listed
  <2>. QED  BY <1>1, <2>1, <2>2
<1>5. Backed(u)
  BY <1>3 DEF Backed
<1>. QED  BY <1>2, <1>4, <1>5 DEF Listed, u

LEMMA ListedOne ==
    ASSUME NEW T, NEW a \in T, ~IsCredit(a)
    PROVE  Listed(<<a>>, T)
  BY DEF Listed, Backed

LEMMA ListedTwo ==
    ASSUME NEW T, NEW a \in T, NEW b \in T, ~IsCredit(a), IsCredit(b) => Backs(a, b)
    PROVE  Listed(<<a, b>>, T)
<1>1. <<a, b>> \in Seq(T) /\ Len(<<a, b>>) = 2 /\ <<a, b>>[1] = a /\ <<a, b>>[2] = b
  OBVIOUS
<1> DEFINE s == <<a, b>>
<1>. HIDE DEF s
<1>2. Backed(s)
  BY <1>1 DEF Backed, s
<1>. QED  BY <1>1, <1>2 DEF Listed, s

LEMMA ListedNone == ASSUME NEW T PROVE Listed(<<>>, T)
  BY DEF Listed, Backed

(* The accounts of a set, one after the other.                             *)
LEMMA Listing ==
    ASSUME NEW S, IsFiniteSet(S)
    PROVE  /\ Cardinality(S) \in Nat
           /\ SetToSeq(S) \in [1..Cardinality(S) -> S]
           /\ \A i, j \in 1..Cardinality(S) : SetToSeq(S)[i] = SetToSeq(S)[j] => i = j
<1> DEFINE N == Cardinality(S)
<1>1. N \in Nat /\ ExistsBijection(1..N, S)
  BY FS_CardinalityType
<1>2. PICK f \in [1..N -> S] : \A i, j \in 1..N : f[i] = f[j] => i = j
  BY <1>1 DEF ExistsBijection, Bijection, Injection, Surjection, IsInjective
<1>3. \E g \in [1..N -> S] : IsInjective(g)
  BY <1>2 DEF IsInjective
<1>4. SetToSeq(S) \in [1..N -> S] /\ IsInjective(SetToSeq(S))
  BY <1>3 DEF SetToSeq
<1>. QED  BY <1>1, <1>4 DEF IsInjective

LEMMA PlainTx ==
    ASSUME NEW kind \in Kinds, NEW n \in Networks, NEW from \in Sources,
           NEW to \in Owners, NEW token \in Tokens, token # "eth", NEW amount \in Nat,
           kind \in {"transfer", "claim", "spend"} => from # to,
           kind = "rate" => to \in Trackers, kind = "bonus" => to \in Recipients,
           kind \in {"unwrap", "excess"} => from = "signer" /\ token = "wnt",
           kind = "swap" => token = "alt",
           kind \in {"spend", "approve"} => from \in Spenders
    PROVE  /\ Tx(kind, n, from, to, token, amount) \in PlainTxs
           /\ kind \notin {"rate", "bonus"}
                => ~IsCredit(Tx(kind, n, from, to, token, amount))
<1> DEFINE tx == Tx(kind, n, from, to, token, amount)
<1>1. /\ tx.kind = kind /\ tx.net = n /\ tx.from = from /\ tx.to = to
      /\ tx.token = token /\ tx.amount = amount
      /\ tx \in [kind : Kinds, net : Networks, from : Sources, to : Owners,
                 token : Tokens, amount : Nat]
  BY DEF Tx
<1>. HIDE DEF tx
<1>2. Sendable(tx)
  BY <1>1 DEF Sendable
<1>. QED  BY <1>1, <1>2 DEF PlainTxs, AllTxs, IsCredit, tx

LEMMA AccountsApart ==
    /\ \A a \in Recipients : a \in Owners /\ a \notin Sources /\ a \notin Trackers
    /\ \A k \in Keepers : k \in Owners /\ k \notin Sources /\ k \notin Recipients
                          /\ k \notin Trackers
    /\ Sources \subseteq Owners /\ Trackers \subseteq Owners
    /\ Sources \cap Trackers = {}
  BY AccountsAssumption DEF Owners, Places, Sources, Trackers

(* What the steps read when they make their lists.                         *)
Ready == balance \in Balances /\ PlanTyped(plan) /\ \A n \in Networks : WellFormed(files[n])

LEMMA PaymentsListed ==
    ASSUME Ready, NEW n \in Networks
    PROVE  /\ Listed(ClaimBuyback(n), PlainTxs) /\ Listed(ClaimV1(n), PlainTxs)
           /\ Listed(ClaimV2(n), PlainTxs) /\ Listed(Payments(n), PlainTxs)
<1>1. "claim" \in Kinds /\ "transfer" \in Kinds
      /\ {"vault", "feeHandler", "signer"} \subseteq Sources
      /\ {"signer", "feeAccount", "treasury", "chainlink"} \subseteq Owners
      /\ {"gmx", "wnt", "alt"} \subseteq Tokens
  BY DEF Kinds, Sources, Owners, Places, Tokens
<1>2. plan.treasury[n] \in Nat /\ plan.chainlink[n] \in Nat
  BY DEF Ready, PlanTyped
<1>3. Listed(ClaimBuyback(n), PlainTxs)
  BY <1>1, PlainTx, ListedTwo DEF ClaimBuyback
<1>4. Listed(ClaimV1(n), PlainTxs)
  BY <1>1, PlainTx, ListedOne DEF ClaimV1
<1>5. Listed(ClaimV2(n), PlainTxs)
  BY <1>1, PlainTx, ListedOne DEF ClaimV2
<1>6. Listed(Payments(n), PlainTxs)
  BY <1>1, <1>2, PlainTx, ListedTwo DEF Payments, Pay
<1>. QED  BY <1>3, <1>4, <1>5, <1>6

LEMMA RewardListed ==
    ASSUME NEW n \in Networks, NEW tracker \in Trackers, NEW token \in {"gmx", "wnt"},
           NEW amount \in Nat, NEW weekly \in Nat, weekly <= amount
    PROVE  Listed(Reward(n, tracker, token, amount, weekly), PlainTxs)
<1> DEFINE a == Pay(n, tracker, token, amount)
           b == Tx("rate", n, "signer", tracker, token, weekly)
<1>1. a \in PlainTxs /\ b \in PlainTxs /\ ~IsCredit(a)
  <2>1. /\ "transfer" \in Kinds /\ "rate" \in Kinds /\ "signer" \in Sources
        /\ tracker \in Owners /\ tracker # "signer"
        /\ token \in Tokens /\ token # "eth"
    BY AccountsApart DEF Kinds, Sources, Tokens
  <2>2. b \in PlainTxs
    BY <2>1, PlainTx
  <2>3. a \in PlainTxs /\ ~IsCredit(a)
    BY <2>1, PlainTx DEF Pay
  <2>. QED  BY <2>2, <2>3
<1>2. Backs(a, b)
  BY DEF Backs, Pay, Tx
<1>. HIDE DEF a, b
<1>3. Listed(<<a, b>>, PlainTxs)
  BY <1>1, <1>2, ListedTwo
<1>. QED  BY <1>3 DEF Reward, a, b

LEMMA RewardsListed ==
    ASSUME Ready, NEW n \in Networks
    PROVE  /\ Listed(BuybackRewards(n), PlainTxs) /\ Listed(GlpRewards(n), PlainTxs)
           /\ Listed(StakingRewards(n), PlainTxs)
<1>1. /\ plan.gmx[n] \in Nat /\ plan.glp[n] \in Nat
      /\ GlpRate(n) \in Nat /\ GlpRate(n) <= plan.glp[n]
      /\ "gmxDistributor" \in Trackers /\ "glpDistributor" \in Trackers
      /\ plan.gmx[n] <= plan.gmx[n] /\ plan.glp[n] <= plan.glp[n]
  BY DEF Ready, PlanTyped, GlpRate, Trackers
<1>2. Listed(BuybackRewards(n), PlainTxs)
  BY <1>1, RewardListed DEF BuybackRewards
<1>3. Listed(GlpRewards(n), PlainTxs)
  BY <1>1, RewardListed DEF GlpRewards
<1>4. Listed(StakingRewards(n), PlainTxs)
  <2>1. Listed(Reward(n, "gmxDistributor", "wnt", plan.gmx[n], plan.gmx[n]), PlainTxs)
    BY <1>1, RewardListed
  <2>2. Listed(Reward(n, "glpDistributor", "wnt", plan.glp[n], plan.glp[n]), PlainTxs)
    BY <1>1, RewardListed
  <2>. QED  BY <2>1, <2>2, ListedConcat DEF StakingRewards
<1>. QED  BY <1>2, <1>3, <1>4

LEMMA HandlerListed ==
    ASSUME Ready, NEW n \in Networks
    PROVE  Listed(FundHandler(n), PlainTxs)
<1> DEFINE S == {t \in Funded(n) :
                    allowance[n]["feeAccount"][t] < balance[n]["feeAccount"][t]}
           approve(t) == Tx("approveHandler", n, "feeAccount", "signer", t,
                            balance[n]["feeAccount"][t])
           spend(t) == Tx("spend", n, "feeAccount", "signer", t,
                          balance[n]["feeAccount"][t])
           s == Each(S, approve)
           u == Each(Funded(n), spend)
<1>1. S \subseteq Funded(n) /\ Funded(n) \subseteq {"wnt", "alt"}
      /\ IsFiniteSet(S) /\ IsFiniteSet(Funded(n))
  <2>1. IsFiniteSet({"wnt", "alt"})
    <3>1. IsFiniteSet({"wnt"})
      BY FS_Singleton
    <3>2. {"wnt", "alt"} = {"wnt"} \cup {"alt"}
      OBVIOUS
    <3>. QED  BY <3>1, <3>2, FS_AddElement
  <2>2. S \subseteq Funded(n) /\ Funded(n) \subseteq {"wnt", "alt"}
    BY DEF Funded
  <2>. QED  BY <2>1, <2>2, FS_Subset
<1>2. ASSUME NEW t \in Funded(n)
      PROVE  /\ approve(t) \in PlainTxs /\ ~IsCredit(approve(t))
             /\ spend(t) \in PlainTxs /\ ~IsCredit(spend(t))
  <2>1. /\ "approveHandler" \in Kinds /\ "spend" \in Kinds /\ "feeAccount" \in Sources /\ "feeAccount" \in Spenders
        /\ "signer" \in Owners /\ t \in Tokens /\ t # "eth"
        /\ balance[n]["feeAccount"][t] \in Nat
    BY <1>1 DEF Kinds, Sources, Owners, Places, Tokens, Spenders, Ready, Balances
  <2>. QED  BY <2>1, PlainTx
<1>3. Listed(s, PlainTxs)
  <2>1. Cardinality(S) \in Nat /\ SetToSeq(S) \in [1..Cardinality(S) -> S]
    BY <1>1, Listing
  <2>2. s = [i \in 1..Cardinality(S) |-> approve(SetToSeq(S)[i])]
    BY DEF Each
  <2>. HIDE DEF S, approve, s
  <2>3. s \in [1..Cardinality(S) -> PlainTxs]
        /\ \A i \in 1..Cardinality(S) : ~IsCredit(s[i])
    BY <1>1, <1>2, <2>1, <2>2
  <2>. QED  BY <2>1, <2>3, ListedArray
<1>4. Listed(u, PlainTxs)
  <2> DEFINE F == Funded(n)
  <2>1. Cardinality(F) \in Nat /\ SetToSeq(F) \in [1..Cardinality(F) -> F]
    BY <1>1, Listing
  <2>2. u = [i \in 1..Cardinality(F) |-> spend(SetToSeq(F)[i])]
    BY DEF Each
  <2>. HIDE DEF spend, u
  <2>3. \A t \in F : spend(t) \in PlainTxs /\ ~IsCredit(spend(t))
    BY <1>2
  <2>. HIDE DEF F
  <2>4. u \in [1..Cardinality(F) -> PlainTxs]
        /\ \A i \in 1..Cardinality(F) : ~IsCredit(u[i])
    BY <2>1, <2>2, <2>3
  <2>. QED  BY <2>1, <2>4, ListedArray
<1>5. FundHandler(n) = s \o u
  BY DEF FundHandler, Each
<1>. HIDE DEF s, u
<1>. QED  BY <1>3, <1>4, <1>5, ListedConcat

LEMMA SwapListed ==
    ASSUME Ready, NEW n \in Networks
    PROVE  Listed(Swap(n), PlainTxs) /\ Listed(Excess(n), PlainTxs)
<1>1. /\ "swap" \in Kinds /\ "excess" \in Kinds /\ "signer" \in Sources
      /\ "signer" \in Owners /\ "alt" \in Tokens /\ "wnt" \in Tokens
      /\ balance[n]["signer"]["alt"] \in Nat
      /\ RequiredBalance(OldReference, n) \in Nat
  BY ReferenceAssumption
  DEF Kinds, Sources, Owners, Places, Tokens, Ready, Balances
<1>2. Listed(Swap(n), PlainTxs)
  <2>1. Listed(<<Tx("swap", n, "signer", "signer", "alt",
                    balance[n]["signer"]["alt"])>>, PlainTxs)
    BY <1>1, PlainTx, ListedOne
  <2>. QED  BY <2>1, ListedNone DEF Swap
<1>3. Listed(Excess(n), PlainTxs)
  BY <1>1, PlainTx, ListedOne DEF Excess
<1>. QED  BY <1>2, <1>3

(* Rewards sent from the wallet, to any accounts of the files.             *)
LEMMA SpendsListed ==
    ASSUME NEW n \in Networks, NEW S, IsFiniteSet(S), S \subseteq Recipients,
           NEW s, DOMAIN s = 1..Cardinality(S),
           NEW amounts, \A a \in S : amounts[a] \in Nat,
           s = [i \in 1..Cardinality(S) |->
                   Tx("spend", n, "wallet", SetToSeq(S)[i], "wnt",
                      amounts[SetToSeq(S)[i]])]
    PROVE  Listed(s, PlainTxs)
<1>1. Cardinality(S) \in Nat /\ SetToSeq(S) \in [1..Cardinality(S) -> S]
  BY Listing
<1>2. ASSUME NEW a \in S
      PROVE  /\ Tx("spend", n, "wallet", a, "wnt", amounts[a]) \in PlainTxs
             /\ ~IsCredit(Tx("spend", n, "wallet", a, "wnt", amounts[a]))
  <2>1. /\ "spend" \in Kinds /\ "wallet" \in Sources /\ "wnt" \in Tokens
        /\ a \in Owners /\ a # "wallet" /\ "wallet" \in Spenders
    BY AccountsApart DEF Kinds, Sources, Tokens, Spenders
  <2>. QED  BY <2>1, PlainTx
<1>3. \A i \in 1..Cardinality(S) : s[i] \in PlainTxs /\ ~IsCredit(s[i])
  BY <1>1, <1>2
<1>4. s \in [1..Cardinality(S) -> PlainTxs]
  BY <1>3
<1>. QED  BY <1>1, <1>3, <1>4, ListedArray

LEMMA BonusListed ==
    ASSUME NEW n \in Networks, NEW S, IsFiniteSet(S), S \subseteq Recipients,
           NEW s, NEW amounts, \A a \in S : amounts[a] \in Nat,
           s = [i \in 1..2 * Cardinality(S) |->
                   IF i % 2 = 1
                   THEN Tx("spend", n, "wallet", SetToSeq(S)[(i + 1) \div 2],
                           "esGmx", amounts[SetToSeq(S)[(i + 1) \div 2]])
                   ELSE Tx("bonus", n, "wallet", SetToSeq(S)[(i + 1) \div 2],
                           "esGmx", amounts[SetToSeq(S)[(i + 1) \div 2]])]
    PROVE  Listed(s, PlainTxs)
<1> DEFINE N == Cardinality(S)
           q == SetToSeq(S)
           spend(a) == Tx("spend", n, "wallet", a, "esGmx", amounts[a])
           credit(a) == Tx("bonus", n, "wallet", a, "esGmx", amounts[a])
<1>1. N \in Nat /\ q \in [1..N -> S]
  BY Listing
<1>2. ASSUME NEW a \in S
      PROVE  /\ spend(a) \in PlainTxs /\ ~IsCredit(spend(a))
             /\ credit(a) \in PlainTxs /\ Backs(spend(a), credit(a))
  <2>1. /\ "spend" \in Kinds /\ "bonus" \in Kinds /\ "wallet" \in Sources
        /\ "esGmx" \in Tokens /\ a \in Owners /\ a # "wallet" /\ "wallet" \in Spenders
    BY AccountsApart DEF Kinds, Sources, Tokens, Spenders
  <2>2. spend(a) \in PlainTxs /\ ~IsCredit(spend(a))
    BY <2>1, PlainTx
  <2>3. credit(a) \in PlainTxs
    BY <2>1, PlainTx
  <2>4. Backs(spend(a), credit(a))
    BY DEF Backs, Tx
  <2>. QED  BY <2>2, <2>3, <2>4
<1>3. \A i \in 1..2 * N : s[i] = IF i % 2 = 1 THEN spend(q[(i + 1) \div 2])
                                 ELSE credit(q[(i + 1) \div 2])
  OBVIOUS
<1>4. DOMAIN s = 1..2 * N /\ s = [i \in 1..2 * N |-> s[i]]
  OBVIOUS
<1>. HIDE DEF N, q, spend, credit
<1>5. ASSUME NEW i \in 1..2 * N
      PROVE  /\ q[(i + 1) \div 2] \in S /\ s[i] \in PlainTxs
             /\ i % 2 = 1 => ~IsCredit(s[i])
             /\ i % 2 = 0 => Backs(s[i-1], s[i])
  <2>1. (i + 1) \div 2 \in 1..N /\ i % 2 \in {0, 1}
    BY <1>1
  <2>2. q[(i + 1) \div 2] \in S
    BY <1>1, <2>1
  <2>3. i % 2 = 0 => /\ i - 1 \in 1..2 * N /\ (i - 1) % 2 = 1
                     /\ ((i - 1) + 1) \div 2 = (i + 1) \div 2
    BY <1>1
  <2>4. ASSUME i % 2 = 0 PROVE Backs(s[i-1], s[i])
    <3>1. s[i] = credit(q[(i + 1) \div 2])
      BY <1>3, <2>4
    <3>2. s[i-1] = spend(q[(i + 1) \div 2])
      BY <1>3, <2>3, <2>4
    <3>. QED  BY <1>2, <2>2, <3>1, <3>2
  <2>5. s[i] \in PlainTxs /\ (i % 2 = 1 => ~IsCredit(s[i]))
    BY <1>2, <1>3, <2>2
  <2>. QED  BY <2>2, <2>4, <2>5
<1>6. s \in [1..2 * N -> PlainTxs]
  BY <1>4, <1>5
<1>. QED  BY <1>1, <1>5, <1>6, ListedPairs

LEMMA ReferralsListed ==
    ASSUME Ready, NEW n \in Networks
    PROVE  Listed(Referrals(n), PlainTxs)
<1> DEFINE f == files[n]
           price == RewardPrice(n)
           es(a) == EsGmxAmount(f, a, Settings.gmxPrice)
           A == DOMAIN f.affiliates \ {Zero}
           R == DOMAIN f.referrals \ {Zero}
           E == EsGmxReceivers(f, Zero)
           x == <<Tx("require", n, "signer", "signer", "wnt", NativeReferrals(n)),
                  Tx("require", n, "wallet", "wallet", "esGmx", EsGmxReferrals(n)),
                  Pay(n, "wallet", "wnt", NativeReferrals(n)),
                  Tx("approve", n, "wallet", "wallet", "wnt", NativeReferrals(n))>>
           y == <<Tx("approve", n, "wallet", "wallet", "esGmx", EsGmxReferrals(n))>>
           s == Each(A, LAMBDA a : FromWallet(n, a, "wnt", AffiliateAmount(f, a, price)))
           t == Each(R, LAMBDA a : FromWallet(n, a, "wnt", DiscountAmount(f, a, price)))
           u == EachPair(E, LAMBDA a : FromWallet(n, a, "esGmx", es(a)),
                         LAMBDA a : Tx("bonus", n, "wallet", a, "esGmx", es(a)))
<1>1. /\ WellFormed(f) /\ price \in Nat \ {0} /\ Settings.gmxPrice \in Nat \ {0}
  BY SettingsAssumption DEF Ready, RewardPrice
<1>2. /\ IsFiniteSet(A) /\ A \subseteq Recipients /\ IsFiniteSet(R)
      /\ R \subseteq Recipients /\ IsFiniteSet(E) /\ E \subseteq Recipients
  <2>1. E \subseteq A
    BY DEF EsGmxReceivers
  <2>2. IsFiniteSet(DOMAIN f.affiliates) /\ IsFiniteSet(DOMAIN f.referrals)
    BY <1>1 DEF WellFormed
  <2>3. A \subseteq Recipients /\ R \subseteq Recipients
    BY <1>1 DEF WellFormed
  <2>. QED  BY <2>1, <2>2, <2>3, FS_Subset
<1>3. /\ \A a \in A : AffiliateAmount(f, a, price) \in Nat
      /\ \A a \in R : DiscountAmount(f, a, price) \in Nat
      /\ \A a \in E : es(a) \in Nat
      /\ NativeReferrals(n) \in Nat /\ EsGmxReferrals(n) \in Nat
  <2>1. \A a \in DOMAIN f.affiliates : AffiliateAmount(f, a, price) \in Nat
    BY <1>1, RewardsTyped
  <2>2. \A a \in DOMAIN f.affiliates : es(a) \in Nat
    BY <1>1, RewardsTyped
  <2>3. \A a \in DOMAIN f.referrals : DiscountAmount(f, a, price) \in Nat
    BY <1>1, RewardsTyped
  <2>4. NativeReferrals(n) \in Nat
    BY <1>1, RewardsTyped DEF NativeReferrals
  <2>5. EsGmxReferrals(n) \in Nat
    BY <1>1, RewardsTyped DEF EsGmxReferrals
  <2>6. E \subseteq DOMAIN f.affiliates
    BY DEF EsGmxReceivers
  <2>. QED  BY <2>1, <2>2, <2>3, <2>4, <2>5, <2>6
<1>4. Listed(x, PlainTxs) /\ Listed(y, PlainTxs)
  <2> DEFINE a == Tx("require", n, "signer", "signer", "wnt", NativeReferrals(n))
             b == Tx("require", n, "wallet", "wallet", "esGmx", EsGmxReferrals(n))
             c == Pay(n, "wallet", "wnt", NativeReferrals(n))
             d == Tx("approve", n, "wallet", "wallet", "wnt", NativeReferrals(n))
             e == Tx("approve", n, "wallet", "wallet", "esGmx", EsGmxReferrals(n))
  <2>1. /\ {"require", "transfer", "approve"} \subseteq Kinds
        /\ {"signer", "wallet"} \subseteq Sources /\ {"signer", "wallet"} \subseteq Owners
        /\ {"wnt", "esGmx"} \subseteq Tokens /\ "wallet" \in Spenders
    BY DEF Kinds, Sources, Owners, Places, Tokens, Spenders
  <2>2. a \in PlainTxs /\ ~IsCredit(a) /\ b \in PlainTxs /\ ~IsCredit(b)
    BY <1>3, <2>1, PlainTx
  <2>3. c \in PlainTxs /\ ~IsCredit(c) /\ d \in PlainTxs /\ ~IsCredit(d)
    BY <1>3, <2>1, PlainTx DEF Pay
  <2>4. e \in PlainTxs /\ ~IsCredit(e)
    BY <1>3, <2>1, PlainTx
  <2>5. x = <<a, b>> \o <<c, d>> /\ y = <<e>>
    OBVIOUS
  <2>. HIDE DEF a, b, c, d, e, x, y
  <2>6. Listed(<<a, b>>, PlainTxs) /\ Listed(<<c, d>>, PlainTxs) /\ Listed(<<e>>, PlainTxs)
    BY <2>2, <2>3, <2>4, ListedTwo, ListedOne
  <2>. QED  BY <2>5, <2>6, ListedConcat
<1>5. Listed(s, PlainTxs)
  <2> DEFINE amounts == [a \in A |-> AffiliateAmount(f, a, price)]
  <2>1. \A a \in A : amounts[a] \in Nat
    BY <1>3
  <2>2. Cardinality(A) \in Nat /\ SetToSeq(A) \in [1..Cardinality(A) -> A]
    BY <1>2, Listing
  <2>3. s = [i \in 1..Cardinality(A) |->
                Tx("spend", n, "wallet", SetToSeq(A)[i], "wnt",
                   amounts[SetToSeq(A)[i]])]
    BY <2>2 DEF Each, FromWallet
  <2>. HIDE DEF amounts, s, A
  <2>. QED  BY <1>2, <2>1, <2>3, SpendsListed
<1>6. Listed(t, PlainTxs)
  <2> DEFINE amounts == [a \in R |-> DiscountAmount(f, a, price)]
  <2>1. \A a \in R : amounts[a] \in Nat
    BY <1>3
  <2>2. Cardinality(R) \in Nat /\ SetToSeq(R) \in [1..Cardinality(R) -> R]
    BY <1>2, Listing
  <2>3. t = [i \in 1..Cardinality(R) |->
                Tx("spend", n, "wallet", SetToSeq(R)[i], "wnt",
                   amounts[SetToSeq(R)[i]])]
    BY <2>2 DEF Each, FromWallet
  <2>. HIDE DEF amounts, t, R
  <2>. QED  BY <1>2, <2>1, <2>3, SpendsListed
<1>7. Listed(u, PlainTxs)
  <2> DEFINE amounts == [a \in E |-> es(a)]
  <2>1. \A a \in E : amounts[a] \in Nat
    BY <1>3
  <2>2. Cardinality(E) \in Nat /\ SetToSeq(E) \in [1..Cardinality(E) -> E]
    BY <1>2, Listing
  <2>3. \A i \in 1..2 * Cardinality(E) : (i + 1) \div 2 \in 1..Cardinality(E)
    BY <2>2
  <2>4. \A i \in 1..2 * Cardinality(E) :
            amounts[SetToSeq(E)[(i + 1) \div 2]] = es(SetToSeq(E)[(i + 1) \div 2])
    BY <2>2, <2>3
  <2>5. u = [i \in 1..2 * Cardinality(E) |->
                IF i % 2 = 1
                THEN Tx("spend", n, "wallet", SetToSeq(E)[(i + 1) \div 2],
                        "esGmx", amounts[SetToSeq(E)[(i + 1) \div 2]])
                ELSE Tx("bonus", n, "wallet", SetToSeq(E)[(i + 1) \div 2],
                        "esGmx", amounts[SetToSeq(E)[(i + 1) \div 2]])]
    <3>1. u = [i \in 1..2 * Cardinality(E) |->
                IF i % 2 = 1
                THEN Tx("spend", n, "wallet", SetToSeq(E)[(i + 1) \div 2],
                        "esGmx", es(SetToSeq(E)[(i + 1) \div 2]))
                ELSE Tx("bonus", n, "wallet", SetToSeq(E)[(i + 1) \div 2],
                        "esGmx", es(SetToSeq(E)[(i + 1) \div 2]))]
      BY DEF EachPair, FromWallet
    <3>. HIDE DEF u, es, amounts, E
    <3>. QED  BY <2>4, <3>1
  <2>. HIDE DEF amounts, u, E
  <2>. QED  BY <1>2, <2>1, <2>5, BonusListed
<1>8. Referrals(n) = (((x \o s) \o t) \o y) \o u
  BY DEF Referrals
<1>. HIDE DEF x, y, s, t, u
<1>9. Listed(x \o s, PlainTxs)
  BY <1>4, <1>5, ListedConcat
<1>10. Listed((x \o s) \o t, PlainTxs)
  BY <1>6, <1>9, ListedConcat
<1>11. Listed(((x \o s) \o t) \o y, PlainTxs)
  BY <1>4, <1>10, ListedConcat
<1>. QED  BY <1>7, <1>8, <1>11, ListedConcat

-----------------------------------------------------------------------------
(* Gas on its way: each keeper is sent at most what is missing, once.      *)
IsGas(tx) == tx.token = "eth"
GasFits(s) ==
    \A i \in 1..Len(s) : IsGas(s[i]) =>
        balance[s[i].net][s[i].to]["eth"] + s[i].amount <= Target[s[i].to]
GasOnce(s) ==
    \A i, j \in 1..Len(s) :
        IsGas(s[i]) /\ IsGas(s[j]) /\ s[i].net = s[j].net /\ s[i].to = s[j].to => i = j

LEMMA PlainHasNoGas ==
    ASSUME NEW s, Listed(s, PlainTxs)
    PROVE  Listed(s, AllTxs) /\ GasFits(s) /\ GasOnce(s)
<1>1. s \in Seq(PlainTxs) /\ PlainTxs \subseteq AllTxs
  BY DEF Listed, PlainTxs
<1>2. s \in Seq(AllTxs)
  BY <1>1
<1>3. \A i \in 1..Len(s) : ~IsGas(s[i])
  <2>1. \A i \in 1..Len(s) : s[i] \in PlainTxs
    BY <1>1
  <2>. QED  BY <2>1 DEF PlainTxs, IsGas
<1>. QED  BY <1>2, <1>3 DEF Listed, GasFits, GasOnce

LEMMA ConcatElements ==
    ASSUME NEW T, NEW s \in Seq(T), NEW t \in Seq(T), NEW i \in 1..Len(s \o t)
    PROVE  \/ i \in 1..Len(s) /\ (s \o t)[i] = s[i]
           \/ i - Len(s) \in 1..Len(t) /\ (s \o t)[i] = t[i - Len(s)]
  OBVIOUS

LEMMA FundFits ==
    ASSUME Ready, NEW n \in Networks
    PROVE  /\ Listed(Fund(n), AllTxs) /\ GasFits(Fund(n)) /\ GasOnce(Fund(n))
           /\ \A i \in 1..Len(Fund(n)) : Fund(n)[i].net = n
<1> DEFINE S == Lacking(n)
           N == Cardinality(S)
           q == SetToSeq(S)
           pay(k) == Pay(n, k, "eth", TopUp(Fuel(n)[k], Target[k]))
           x == <<Tx("unwrap", n, "signer", "signer", "wnt",
                     KeeperCosts(Fuel(n), Target))>>
           s == SendGas(n)
<1>1. /\ IsFiniteSet(S) /\ S \subseteq Keepers
      /\ \A k \in Keepers : /\ TopUp(Fuel(n)[k], Target[k]) \in Nat
                            /\ Fuel(n)[k] = balance[n][k]["eth"]
                            /\ Fuel(n)[k] \in Nat /\ Target[k] \in Nat
      /\ KeeperCosts(Fuel(n), Target) \in Nat
  <2>1. S \subseteq Keepers
    BY DEF Lacking
  <2>2. IsFiniteSet(S)
    BY <2>1, AccountsAssumption, FS_Subset
  <2>. QED  BY <2>1, <2>2, CostsTyped DEF Ready
<1>2. N \in Nat /\ q \in [1..N -> S] /\ \A i, j \in 1..N : q[i] = q[j] => i = j
  BY <1>1, Listing
<1>3. ASSUME NEW k \in S
      PROVE  /\ pay(k) \in AllTxs /\ ~IsCredit(pay(k))
             /\ pay(k).net = n /\ pay(k).to = k
             /\ balance[n][k]["eth"] + pay(k).amount <= Target[k]
  <2>1. /\ k \in Keepers /\ k \in Owners /\ k # "signer"
        /\ "transfer" \in Kinds /\ "signer" \in Sources /\ "eth" \in Tokens
    BY <1>1, AccountsApart DEF Kinds, Sources, Tokens
  <2>2. TopUp(Fuel(n)[k], Target[k]) \in Nat /\ Fuel(n)[k] = balance[n][k]["eth"]
        /\ Fuel(n)[k] \in Nat /\ Target[k] \in Nat
    BY <1>1, <2>1
  <2>3. /\ pay(k).kind = "transfer" /\ pay(k).net = n /\ pay(k).from = "signer"
        /\ pay(k).to = k /\ pay(k).token = "eth"
        /\ pay(k).amount = TopUp(Fuel(n)[k], Target[k])
        /\ pay(k) \in [kind : Kinds, net : Networks, from : Sources, to : Owners,
                       token : Tokens, amount : Nat]
    BY <2>1, <2>2 DEF Pay, Tx
  <2>4. 0 < TopUp(Fuel(n)[k], Target[k])
    BY DEF Lacking
  <2>5. balance[n][k]["eth"] + pay(k).amount <= Target[k]
    BY <2>2, <2>3, <2>4 DEF TopUp
  <2>. HIDE DEF pay
  <2>. QED  BY <2>1, <2>3, <2>5 DEF AllTxs, Sendable, IsCredit
<1>4. Listed(x, PlainTxs) /\ x \in Seq(PlainTxs) /\ Len(x) = 1 /\ x[1].net = n
  <2>1. /\ "unwrap" \in Kinds /\ "signer" \in Sources /\ "signer" \in Owners
        /\ "wnt" \in Tokens
    BY DEF Kinds, Sources, Owners, Places, Tokens
  <2>2. Listed(x, PlainTxs)
    BY <1>1, <2>1, PlainTx, ListedOne
  <2>3. Len(x) = 1 /\ x[1].net = n
    BY DEF Tx
  <2>. QED  BY <2>2, <2>3 DEF Listed
<1>5. s = [i \in 1..N |-> pay(q[i])]
  BY DEF SendGas, Each
<1>6. Fund(n) = x \o s
  BY DEF Fund
<1>. HIDE DEF S, N, q, pay, x, s
<1>7. /\ s \in [1..N -> AllTxs] /\ Len(s) = N
      /\ \A i \in 1..N : s[i] = pay(q[i]) /\ ~IsCredit(s[i])
  BY <1>2, <1>3, <1>5
<1>8. Listed(s, AllTxs)
  BY <1>2, <1>7, ListedArray
<1>9. Listed(x, AllTxs) /\ ~IsGas(x[1])
  BY <1>4, PlainHasNoGas DEF PlainTxs, IsGas
<1> DEFINE u == x \o s
<1>10. ASSUME NEW i \in 1..Len(u)
       PROVE  \/ i = 1 /\ u[i] = x[1]
              \/ i - 1 \in 1..N /\ u[i] = pay(q[i - 1])
  <2>1. x \in Seq(AllTxs) /\ s \in Seq(AllTxs)
    BY <1>8, <1>9 DEF Listed
  <2>2. \/ i \in 1..Len(x) /\ u[i] = x[i]
        \/ i - Len(x) \in 1..Len(s) /\ u[i] = s[i - Len(x)]
    BY <2>1, ConcatElements
  <2>. HIDE DEF u
  <2>3. CASE i \in 1..Len(x) /\ u[i] = x[i]
    BY <1>4, <2>3
  <2>4. CASE i - Len(x) \in 1..Len(s) /\ u[i] = s[i - Len(x)]
    BY <1>4, <1>7, <2>4
  <2>. QED  BY <2>2, <2>3, <2>4
<1>11. Listed(u, AllTxs)
  BY <1>8, <1>9, ListedConcat
<1>. HIDE DEF u
<1>12. GasFits(u)
  <2>1. ASSUME NEW i \in 1..Len(u), IsGas(u[i])
        PROVE  balance[u[i].net][u[i].to]["eth"] + u[i].amount <= Target[u[i].to]
    <3>1. i - 1 \in 1..N /\ u[i] = pay(q[i - 1])
      BY <1>9, <1>10, <2>1
    <3>2. q[i - 1] \in S
      BY <1>2, <3>1
    <3>. QED  BY <1>3, <3>1, <3>2
  <2>. QED  BY <2>1 DEF GasFits
<1>13. GasOnce(u)
  <2>1. ASSUME NEW i \in 1..Len(u), NEW j \in 1..Len(u), IsGas(u[i]), IsGas(u[j]),
               u[i].to = u[j].to
        PROVE  i = j
    <3>1. /\ i - 1 \in 1..N /\ u[i] = pay(q[i - 1])
          /\ j - 1 \in 1..N /\ u[j] = pay(q[j - 1])
      BY <1>9, <1>10, <2>1
    <3>2. q[i - 1] = q[j - 1]
      BY <1>2, <1>3, <2>1, <3>1
    <3>3. i - 1 = j - 1
      BY <1>2, <3>1, <3>2
    <3>4. i \in Int /\ j \in Int
      OBVIOUS
    <3>. QED  BY <3>3, <3>4
  <2>. QED  BY <2>1 DEF GasOnce
<1>14. \A i \in 1..Len(u) : u[i].net = n
  <2>1. ASSUME NEW i \in 1..Len(u) PROVE u[i].net = n
    <3>1. CASE i = 1 /\ u[i] = x[1]
      BY <1>4, <3>1
    <3>2. CASE i - 1 \in 1..N /\ u[i] = pay(q[i - 1])
      BY <1>2, <1>3, <3>2
    <3>. QED  BY <1>10, <3>1, <3>2
  <2>. QED  BY <2>1
<1>. QED  BY <1>6, <1>11, <1>12, <1>13, <1>14 DEF u

LEMMA FundAccountsFits ==
    ASSUME Ready
    PROVE  /\ Listed(FundAccounts, AllTxs) /\ GasFits(FundAccounts)
           /\ GasOnce(FundAccounts)
<1>1. arb \in Networks /\ avax \in Networks /\ arb # avax
  BY AccountsAssumption DEF Networks
<1>2. PICK s : s = Fund(arb)
  OBVIOUS
<1>3. PICK t : t = Fund(avax)
  OBVIOUS
<1>4. /\ Listed(s, AllTxs) /\ GasFits(s) /\ GasOnce(s)
      /\ \A i \in 1..Len(s) : s[i].net = arb
  BY <1>1, <1>2, FundFits
<1>5. /\ Listed(t, AllTxs) /\ GasFits(t) /\ GasOnce(t)
      /\ \A i \in 1..Len(t) : t[i].net = avax
  BY <1>1, <1>3, FundFits
<1>6. FundAccounts = s \o t
  BY <1>2, <1>3 DEF FundAccounts, Both
<1>7. PICK u : u = s \o t
  OBVIOUS
<1>8. Listed(u, AllTxs)
  BY <1>4, <1>5, <1>7, ListedConcat
<1>9. s \in Seq(AllTxs) /\ t \in Seq(AllTxs)
  BY <1>4, <1>5 DEF Listed
<1>10. \A i \in 1..Len(u) :
           \/ i \in 1..Len(s) /\ u[i] = s[i]
           \/ i - Len(s) \in 1..Len(t) /\ u[i] = t[i - Len(s)]
  BY <1>7, <1>9, ConcatElements
<1>11. GasFits(u)
  BY <1>4, <1>5, <1>10 DEF GasFits
<1>12. GasOnce(u)
  <2>1. ASSUME NEW i \in 1..Len(u), NEW j \in 1..Len(u), IsGas(u[i]), IsGas(u[j]),
               u[i].net = u[j].net, u[i].to = u[j].to
        PROVE  i = j
    <3>1. CASE i \in 1..Len(s) /\ u[i] = s[i] /\ j \in 1..Len(s) /\ u[j] = s[j]
      BY <1>4, <2>1, <3>1 DEF GasOnce
    <3>2. CASE /\ i - Len(s) \in 1..Len(t) /\ u[i] = t[i - Len(s)]
               /\ j - Len(s) \in 1..Len(t) /\ u[j] = t[j - Len(s)]
      <4>1. i - Len(s) = j - Len(s)
        BY <1>5, <2>1, <3>2 DEF GasOnce
      <4>2. i \in Int /\ j \in Int /\ Len(s) \in Int
        BY <1>9
      <4>. QED  BY <4>1, <4>2
    <3>3. CASE \/ /\ i \in 1..Len(s) /\ u[i] = s[i]
                  /\ j - Len(s) \in 1..Len(t) /\ u[j] = t[j - Len(s)]
               \/ /\ j \in 1..Len(s) /\ u[j] = s[j]
                  /\ i - Len(s) \in 1..Len(t) /\ u[i] = t[i - Len(s)]
      BY <1>1, <1>4, <1>5, <2>1, <3>3
    <3>. QED  BY <1>10, <3>1, <3>2, <3>3
  <2>. QED  BY <2>1 DEF GasOnce
<1>. QED  BY <1>6, <1>7, <1>8, <1>11, <1>12

(* Whatever the step, its list is in order.                                *)
LEMMA TransactionsFit ==
    ASSUME Ready, next \in Nat \ {0}, next <= Len(Steps)
    PROVE  /\ Listed(Transactions, AllTxs) /\ GasFits(Transactions)
           /\ GasOnce(Transactions)
<1>1. arb \in Networks /\ avax \in Networks
  BY DEF Networks
<1>2. Step \in {"withdraw", "fund", "gmx", "payments", "glp", "referrals",
                "fundHandler", "swapAvax", "bridge", "swapArb", "rewards"}
  BY DEF Step, Steps
<1>3. ASSUME Step = "fund"
      PROVE  /\ Listed(Transactions, AllTxs) /\ GasFits(Transactions)
             /\ GasOnce(Transactions)
  BY <1>3, FundAccountsFits DEF Transactions
<1>4. ASSUME Step # "fund" PROVE Listed(Transactions, PlainTxs)
  <2>1. Listed(Withdraw, PlainTxs)
    BY <1>1, PaymentsListed, ListedConcat DEF Withdraw, Both
  <2>2. Listed(Both(BuybackRewards), PlainTxs)
    BY <1>1, RewardsListed, ListedConcat DEF Both
  <2>3. Listed(Both(GlpRewards), PlainTxs)
    BY <1>1, RewardsListed, ListedConcat DEF Both
  <2>4. Listed(UpdateRewards, PlainTxs)
    BY <1>1, RewardsListed, ListedConcat DEF UpdateRewards, Both
  <2>5. Listed(SendPayments, PlainTxs)
    BY <1>1, PaymentsListed, ListedConcat DEF SendPayments, Both
  <2>6. Listed(SendReferralRewards, PlainTxs)
    BY <1>1, ReferralsListed, ListedConcat DEF SendReferralRewards, Both
  <2>7. Listed(Both(FundHandler), PlainTxs)
    BY <1>1, HandlerListed, ListedConcat DEF Both
  <2>8. Listed(Swap(avax) \o Excess(avax), PlainTxs) /\ Listed(Swap(arb), PlainTxs)
    BY <1>1, SwapListed, ListedConcat
  <2>9. Listed(BridgeTokens, PlainTxs)
    BY ListedNone DEF BridgeTokens
  <2>. QED
    BY <1>2, <1>4, <2>1, <2>2, <2>3, <2>4, <2>5, <2>6, <2>7, <2>8, <2>9
    DEF Transactions
<1>. QED  BY <1>3, <1>4, PlainHasNoGas

-----------------------------------------------------------------------------
(* What holds of the ledger and of the list of a step wherever it stops.   *)
Typed ==
    /\ balance \in Balances
    /\ rate \in [Networks -> [Trackers -> Nat]]
    /\ bonus \in [Networks -> [Recipients -> Nat]]
    /\ next \in Nat \ {0}
    /\ plan # NoPlan => PlanTyped(plan)
    /\ \A n \in Networks : WellFormed(files[n])
    /\ bridge \in [sent : BOOLEAN, to : Networks, amount : Nat]
    /\ todo \in Seq(AllTxs)

(* A credit at the head of the list has been paid for.                     *)
HeadPaid ==
    todo # <<>> =>
        /\ todo[1].kind = "rate" =>
              todo[1].amount <= balance[todo[1].net][todo[1].to]["gmx"]
                                    + balance[todo[1].net][todo[1].to]["wnt"]
        /\ todo[1].kind = "bonus" =>
              bonus[todo[1].net][todo[1].to] + todo[1].amount
                  <= balance[todo[1].net][todo[1].to]["esGmx"]
CreditInv == Typed /\ Backed(todo) /\ HeadPaid /\ CreditFollowsPayment
(* The gas still to be sent fits in the tanks, and goes on to.             *)
GasList == GasFits(todo) /\ GasOnce(todo)
GasKept ==
    GasList => GasList' /\ (TopUpsWithinTarget => TopUpsWithinTarget')

(* What a transaction that is not a credit does to the ledger.             *)
Effect(tx) ==
    /\ balance' \in Balances
    /\ \A n \in Networks : \A o \in Owners \ Sources : \A t \in Tokens :
          /\ balance'[n][o][t] >= balance[n][o][t]
          /\ n # tx.net \/ o # tx.to \/ t # tx.token
                => balance'[n][o][t] = balance[n][o][t]
    /\ tx.kind \in {"transfer", "spend"} /\ tx.to \notin Sources
          => balance'[tx.net][tx.to][tx.token]
                = balance[tx.net][tx.to][tx.token] + tx.amount

LEMMA BalanceTyped ==
    ASSUME NEW b \in Balances, NEW n \in Networks, NEW o \in Owners, NEW t \in Tokens
    PROVE  b[n][o][t] \in Nat
  BY DEF Balances

Updated(b, c, n, o, t, x) == c = [b EXCEPT ![n][o][t] = x]
KeptElsewhere(b, c, n, o, t) ==
    \A m \in Networks : \A p \in Owners : \A u \in Tokens :
        m # n \/ p # o \/ u # t => c[m][p][u] = b[m][p][u]

LEMMA AccountUpdated ==
    ASSUME NEW b \in Balances, NEW n \in Networks, NEW o \in Owners, NEW t \in Tokens,
           NEW x \in Nat, NEW c, Updated(b, c, n, o, t, x)
    PROVE  c \in Balances /\ c[n][o][t] = x /\ KeptElsewhere(b, c, n, o, t)
  BY DEF Balances, Updated, KeptElsewhere

Moved(b, c, n, from, to, t, m) ==
    c = [b EXCEPT ![n][from][t] = @ - m, ![n][to][t] = @ + m]
KeptButFor(b, c, n, from, to, t) ==
    \A k \in Networks : \A p \in Owners : \A u \in Tokens :
        k # n \/ (p # from /\ p # to) \/ u # t => c[k][p][u] = b[k][p][u]
Converted(b, c, n, from, t, u, m, r) ==
    c = [b EXCEPT ![n][from][t] = @ - m, ![n][from][u] = @ + r]
KeptButBoth(b, c, n, from, t, u) ==
    \A k \in Networks : \A p \in Owners : \A v \in Tokens :
        k # n \/ p # from \/ (v # t /\ v # u) => c[k][p][v] = b[k][p][v]

LEMMA MoveEffect ==
    ASSUME NEW b \in Balances, NEW n \in Networks, NEW from \in Owners, NEW to \in Owners,
           NEW t \in Tokens, NEW m \in Nat, from # to, m <= b[n][from][t],
           NEW c, Moved(b, c, n, from, to, t, m)
    PROVE  /\ c \in Balances /\ c[n][from][t] = b[n][from][t] - m
           /\ c[n][to][t] = b[n][to][t] + m
           /\ KeptButFor(b, c, n, from, to, t)
<1>1. PICK x \in Nat : x = b[n][from][t] - m
  BY BalanceTyped
<1>2. PICK a : Updated(b, a, n, from, t, x)
  BY DEF Updated
<1>3. a \in Balances /\ a[n][from][t] = x /\ KeptElsewhere(b, a, n, from, t)
  BY <1>2, AccountUpdated
<1>4. PICK y \in Nat : y = b[n][to][t] + m /\ y = a[n][to][t] + m
  <2>1. a[n][to][t] = b[n][to][t]
    BY <1>3 DEF KeptElsewhere
  <2>. QED  BY <2>1, BalanceTyped
<1>5. Updated(a, c, n, to, t, y)
  <2>1. c = [[b EXCEPT ![n][from][t] = b[n][from][t] - m] EXCEPT ![n][to][t] = @ + m]
    BY DEF Moved
  <2>2. c = [a EXCEPT ![n][to][t] = @ + m]
    BY <1>1, <1>2, <2>1 DEF Updated
  <2>. QED  BY <1>4, <2>2 DEF Updated
<1>6. c \in Balances /\ c[n][to][t] = y /\ KeptElsewhere(a, c, n, to, t)
  <2>1. a \in Balances
    BY <1>3
  <2>2. PICK d : d = c
    OBVIOUS
  <2>3. Updated(a, d, n, to, t, y)
    BY <1>5, <2>2
  <2>4. d \in Balances /\ d[n][to][t] = y /\ KeptElsewhere(a, d, n, to, t)
    BY <2>1, <2>3, AccountUpdated
  <2>. QED  BY <2>2, <2>4
<1>7. c[n][from][t] = x
  BY <1>3, <1>6 DEF KeptElsewhere
<1>8. ASSUME NEW k \in Networks, NEW p \in Owners, NEW u \in Tokens,
             k # n \/ (p # from /\ p # to) \/ u # t
      PROVE  c[k][p][u] = b[k][p][u]
  <2>1. c[k][p][u] = a[k][p][u]
    BY <1>6, <1>8 DEF KeptElsewhere
  <2>2. a[k][p][u] = b[k][p][u]
    BY <1>3, <1>8 DEF KeptElsewhere
  <2>. QED  BY <2>1, <2>2
<1>. QED  BY <1>1, <1>4, <1>6, <1>7, <1>8 DEF KeptButFor

LEMMA ConvertEffect ==
    ASSUME NEW b \in Balances, NEW n \in Networks, NEW from \in Owners,
           NEW t \in Tokens, NEW u \in Tokens, t # u, NEW m \in Nat, NEW r \in Nat,
           m <= b[n][from][t],
           NEW c, Converted(b, c, n, from, t, u, m, r)
    PROVE  /\ c \in Balances /\ c[n][from][t] = b[n][from][t] - m
           /\ c[n][from][u] = b[n][from][u] + r
           /\ KeptButBoth(b, c, n, from, t, u)
<1>1. PICK x \in Nat : x = b[n][from][t] - m
  BY BalanceTyped
<1>2. PICK a : Updated(b, a, n, from, t, x)
  BY DEF Updated
<1>3. a \in Balances /\ a[n][from][t] = x /\ KeptElsewhere(b, a, n, from, t)
  BY <1>2, AccountUpdated
<1>4. PICK y \in Nat : y = b[n][from][u] + r /\ y = a[n][from][u] + r
  <2>1. a[n][from][u] = b[n][from][u]
    BY <1>3 DEF KeptElsewhere
  <2>. QED  BY <2>1, BalanceTyped
<1>5. Updated(a, c, n, from, u, y)
  <2>1. c = [[b EXCEPT ![n][from][t] = b[n][from][t] - m] EXCEPT ![n][from][u] = @ + r]
    BY DEF Converted
  <2>2. c = [a EXCEPT ![n][from][u] = @ + r]
    BY <1>1, <1>2, <2>1 DEF Updated
  <2>. QED  BY <1>4, <2>2 DEF Updated
<1>6. c \in Balances /\ c[n][from][u] = y /\ KeptElsewhere(a, c, n, from, u)
  BY <1>3, <1>5, AccountUpdated
<1>8. c[n][from][t] = x
  BY <1>3, <1>6 DEF KeptElsewhere
<1>7. ASSUME NEW k \in Networks, NEW p \in Owners, NEW v \in Tokens,
             k # n \/ p # from \/ (v # t /\ v # u)
      PROVE  c[k][p][v] = b[k][p][v]
  <2>1. c[k][p][v] = a[k][p][v]
    BY <1>6, <1>7 DEF KeptElsewhere
  <2>2. a[k][p][v] = b[k][p][v]
    BY <1>3, <1>7 DEF KeptElsewhere
  <2>. QED  BY <2>1, <2>2
<1>. QED  BY <1>1, <1>4, <1>6, <1>7, <1>8 DEF KeptButBoth

-----------------------------------------------------------------------------
(* The list, one transaction on.                                           *)
LEMMA HeadTyped ==
    ASSUME Typed, todo # <<>>, NEW tx, tx = Head(todo)
    PROVE  /\ tx = todo[1] /\ tx \in AllTxs /\ Sendable(tx) /\ tx.kind \in Kinds
           /\ tx.net \in Networks /\ tx.from \in Sources /\ tx.from \in Owners
           /\ tx.to \in Owners /\ tx.token \in Tokens /\ tx.amount \in Nat
           /\ balance[tx.net][tx.from][tx.token] \in Nat
<1>1. todo \in Seq(AllTxs)
  BY DEF Typed
<1>2. tx = todo[1] /\ tx \in AllTxs
  BY <1>1
<1>3. Sendable(tx)
  BY <1>2 DEF AllTxs
<1>4. /\ tx.net \in Networks /\ tx.from \in Sources /\ tx.to \in Owners
      /\ tx.token \in Tokens /\ tx.amount \in Nat /\ tx.kind \in Kinds
  BY <1>3 DEF Sendable
<1>5. tx.from \in Owners
  BY <1>4, AccountsApart
<1>6. balance[tx.net][tx.from][tx.token] \in Nat
  BY <1>4, <1>5, BalanceTyped DEF Typed
<1>. QED  BY <1>2, <1>3, <1>4, <1>5, <1>6

LEMMA TailOfList ==
    ASSUME NEW s \in Seq(AllTxs), s # <<>>, Backed(s), NEW u, u = Tail(s)
    PROVE  /\ u \in Seq(AllTxs) /\ Len(s) = Len(u) + 1 /\ Len(u) \in Nat
           /\ \A i \in 1..Len(u) : u[i] = s[i + 1] /\ i + 1 \in 1..Len(s)
           /\ Backed(u)
           /\ u # <<>> /\ IsCredit(u[1]) => Backs(s[1], u[1])
<1>1. /\ u \in Seq(AllTxs) /\ Len(s) = Len(u) + 1 /\ Len(u) \in Nat
      /\ \A i \in 1..Len(u) : u[i] = s[i + 1] /\ i + 1 \in 1..Len(s)
  OBVIOUS
<1>2. ASSUME NEW i \in 2..Len(u), IsCredit(u[i]) PROVE Backs(u[i-1], u[i])
  <2>1. /\ i \in 1..Len(u) /\ i - 1 \in 1..Len(u) /\ i + 1 \in 2..Len(s)
        /\ (i - 1) + 1 = i /\ (i + 1) - 1 = i
    BY <1>1
  <2>2. u[i] = s[i + 1] /\ u[i-1] = s[i]
    BY <1>1, <2>1
  <2>3. PICK j \in 2..Len(s) : j = i + 1 /\ j - 1 = i
    BY <2>1
  <2>4. IsCredit(s[j]) => Backs(s[j-1], s[j])
    BY DEF Backed
  <2>. QED  BY <1>2, <2>2, <2>3, <2>4
<1>3. ASSUME u # <<>>, IsCredit(u[1]) PROVE Backs(s[1], u[1])
  <2>1. Len(u) # 0
    BY <1>1, <1>3
  <2>2. 1 \in 1..Len(u) /\ 2 \in 2..Len(s) /\ 1 + 1 = 2 /\ 2 - 1 = 1
    BY <1>1, <2>1
  <2>3. u[1] = s[2]
    BY <1>1, <2>2
  <2>4. IsCredit(s[2]) => Backs(s[2-1], s[2])
    BY <2>2 DEF Backed
  <2>. QED  BY <1>3, <2>2, <2>3, <2>4
<1>4. Backed(u)
  BY <1>2 DEF Backed
<1>. QED  BY <1>1, <1>3, <1>4

(* A transaction that is not a credit keeps everybody's credit covered.    *)
LEMMA CreditAfterEffect ==
    ASSUME CreditInv, todo # <<>>, NEW tx, tx = Head(todo), Effect(tx),
           ~IsCredit(tx), todo' = Tail(todo),
           UNCHANGED <<rate, bonus, next, plan, files, bridge>>
    PROVE  CreditInv'
<1>1. /\ tx = todo[1] /\ tx.kind \in Kinds /\ tx.net \in Networks /\ tx.to \in Owners
      /\ tx.token \in Tokens /\ tx.amount \in Nat
  BY HeadTyped DEF CreditInv
<1>2. todo \in Seq(AllTxs) /\ Backed(todo)
  BY DEF CreditInv, Typed
<1>3. /\ todo' \in Seq(AllTxs) /\ Backed(todo')
      /\ todo' # <<>> /\ IsCredit(todo'[1]) => Backs(tx, todo'[1])
      /\ todo' # <<>> => todo'[1] \in AllTxs
  <2>1. PICK u : u = todo'
    OBVIOUS
  <2>2. /\ u \in Seq(AllTxs) /\ Backed(u)
        /\ u # <<>> /\ IsCredit(u[1]) => Backs(todo[1], u[1])
    BY <1>2, <2>1, TailOfList
  <2>3. u # <<>> => u[1] \in AllTxs
    BY <2>2
  <2>. QED  BY <1>1, <2>1, <2>2, <2>3
<1>4. Typed'
  BY <1>3 DEF CreditInv, Typed, Effect
<1>5. \A n \in Networks : \A o \in Owners \ Sources : \A t \in Tokens :
          /\ balance[n][o][t] \in Nat /\ balance'[n][o][t] \in Nat
          /\ balance'[n][o][t] >= balance[n][o][t]
  BY BalanceTyped DEF CreditInv, Typed, Effect
<1>6. CreditFollowsPayment'
  <2>1. ASSUME NEW n \in Networks, NEW t \in Trackers
        PROVE  rate'[n][t] <= balance'[n][t]["gmx"] + balance'[n][t]["wnt"]
    <3>1. rate[n][t] <= balance[n][t]["gmx"] + balance[n][t]["wnt"]
          /\ rate[n][t] \in Nat
      BY DEF CreditInv, CreditFollowsPayment, Typed
    <3>2. t \in Owners \ Sources /\ "gmx" \in Tokens /\ "wnt" \in Tokens
      BY AccountsApart DEF Tokens
    <3>. QED  BY <1>5, <3>1, <3>2
  <2>2. ASSUME NEW n \in Networks, NEW a \in Recipients
        PROVE  bonus'[n][a] <= balance'[n][a]["esGmx"]
    <3>1. bonus[n][a] <= balance[n][a]["esGmx"] /\ bonus[n][a] \in Nat
      BY DEF CreditInv, CreditFollowsPayment, Typed
    <3>2. a \in Owners \ Sources /\ "esGmx" \in Tokens
      BY AccountsApart DEF Tokens
    <3>. QED  BY <1>5, <3>1, <3>2
  <2>. QED  BY <2>1, <2>2 DEF CreditFollowsPayment
<1>7. HeadPaid'
  <2> DEFINE y == todo'[1]
  <2>1. SUFFICES ASSUME todo' # <<>>, IsCredit(y)
                 PROVE  /\ y.kind = "rate" =>
                             y.amount <= balance'[y.net][y.to]["gmx"]
                                             + balance'[y.net][y.to]["wnt"]
                        /\ y.kind = "bonus" =>
                             bonus'[y.net][y.to] + y.amount
                                 <= balance'[y.net][y.to]["esGmx"]
    BY DEF HeadPaid, IsCredit
  <2>2. Backs(tx, y) /\ y \in AllTxs
    BY <1>3, <2>1
  <2>. HIDE DEF y
  <2>3. /\ y.net = tx.net /\ y.to = tx.to /\ y.net \in Networks /\ y.to \in Owners
        /\ y.amount \in Nat
        /\ y.kind = "rate" => y.to \in Trackers
        /\ y.kind = "bonus" => y.to \in Recipients
    BY <2>2 DEF Backs, AllTxs, Sendable
  <2>4. ASSUME y.kind = "rate"
        PROVE  y.amount <= balance'[y.net][y.to]["gmx"] + balance'[y.net][y.to]["wnt"]
    <3>1. tx.kind = "transfer" /\ tx.token \in {"gmx", "wnt"} /\ y.amount <= tx.amount
      BY <2>2, <2>4 DEF Backs
    <3>2. y.to \in Owners \ Sources /\ "gmx" \in Tokens /\ "wnt" \in Tokens
      BY <2>3, <2>4, AccountsApart DEF Tokens
    <3>3. balance'[y.net][y.to][tx.token] = balance[y.net][y.to][tx.token] + tx.amount
      BY <2>3, <3>1, <3>2 DEF Effect
    <3>4. /\ balance'[y.net][y.to]["gmx"] \in Nat /\ balance'[y.net][y.to]["wnt"] \in Nat
          /\ balance[y.net][y.to]["gmx"] \in Nat /\ balance[y.net][y.to]["wnt"] \in Nat
      BY <1>5, <2>3, <3>2
    <3>5. PICK g \in Nat, w \in Nat : /\ g = balance'[y.net][y.to]["gmx"]
                                       /\ w = balance'[y.net][y.to]["wnt"]
      BY <3>4
    <3>6. PICK b \in Nat : b = balance[y.net][y.to][tx.token]
      BY <3>1, <3>4
    <3>7. tx.token = "gmx" => g = b + tx.amount
      BY <3>3, <3>5, <3>6
    <3>8. tx.token = "wnt" => w = b + tx.amount
      BY <3>3, <3>5, <3>6
    <3>9. tx.amount \in Nat /\ y.amount \in Nat
      BY <1>1, <2>3
    <3>10. y.amount <= g + w
      BY <3>1, <3>7, <3>8, <3>9
    <3>. QED  BY <3>5, <3>10
  <2>5. ASSUME y.kind = "bonus"
        PROVE  bonus'[y.net][y.to] + y.amount <= balance'[y.net][y.to]["esGmx"]
    <3>1. tx.kind = "spend" /\ tx.token = "esGmx" /\ y.amount = tx.amount
      BY <2>2, <2>5 DEF Backs
    <3>2. y.to \in Recipients /\ y.to \in Owners \ Sources /\ "esGmx" \in Tokens
      BY <2>3, <2>5, AccountsApart DEF Tokens
    <3>3. balance'[y.net][y.to]["esGmx"] = balance[y.net][y.to]["esGmx"] + tx.amount
      BY <2>3, <3>1, <3>2 DEF Effect
    <3>4. balance[y.net][y.to]["esGmx"] \in Nat
      BY <1>5, <2>3, <3>2
    <3>5. bonus[y.net][y.to] <= balance[y.net][y.to]["esGmx"]
          /\ bonus[y.net][y.to] \in Nat
      BY <2>3, <3>2 DEF CreditInv, CreditFollowsPayment, Typed
    <3>. QED  BY <1>1, <2>3, <3>1, <3>3, <3>4, <3>5
  <2>. QED  BY <2>4, <2>5
<1>. QED  BY <1>3, <1>4, <1>6, <1>7 DEF CreditInv

(* A transaction brings a keeper the gas it is for and nobody else any.    *)
GasEffect(tx) ==
    /\ balance' \in Balances
    /\ \A n \in Networks : \A k \in Keepers :
          /\ ~(IsGas(tx) /\ tx.net = n /\ tx.to = k)
                => balance'[n][k]["eth"] <= balance[n][k]["eth"]
          /\ IsGas(tx) /\ tx.net = n /\ tx.to = k
                => balance'[n][k]["eth"] <= balance[n][k]["eth"] + tx.amount

LEMMA EffectOnGas ==
    ASSUME Typed, todo # <<>>, NEW tx, tx = Head(todo), Effect(tx)
    PROVE  GasEffect(tx)
<1>1. /\ Sendable(tx) /\ tx.net \in Networks /\ tx.to \in Owners /\ tx.amount \in Nat
  BY HeadTyped
<1>2. ASSUME NEW n \in Networks, NEW k \in Keepers
      PROVE  /\ ~(IsGas(tx) /\ tx.net = n /\ tx.to = k)
                   => balance'[n][k]["eth"] <= balance[n][k]["eth"]
             /\ IsGas(tx) /\ tx.net = n /\ tx.to = k
                   => balance'[n][k]["eth"] <= balance[n][k]["eth"] + tx.amount
  <2>1. k \in Owners \ Sources /\ k \in Owners /\ "eth" \in Tokens
    BY AccountsApart DEF Tokens
  <2>2. balance[n][k]["eth"] \in Nat
    BY <2>1, BalanceTyped DEF Typed
  <2>3. n # tx.net \/ k # tx.to \/ "eth" # tx.token
          => balance'[n][k]["eth"] = balance[n][k]["eth"]
    BY <2>1 DEF Effect
  <2>4. CASE ~(IsGas(tx) /\ tx.net = n /\ tx.to = k)
    BY <2>2, <2>3, <2>4 DEF IsGas
  <2>5. CASE IsGas(tx) /\ tx.net = n /\ tx.to = k
    <3>1. tx.kind = "transfer" /\ tx.token = "eth" /\ tx.to \notin Sources
      BY <1>1, <2>1, <2>5 DEF Sendable, IsGas
    <3>2. balance'[n][k]["eth"] = balance[n][k]["eth"] + tx.amount
      BY <2>5, <3>1 DEF Effect
    <3>. QED  BY <1>1, <2>2, <2>5, <3>2
  <2>. QED  BY <2>4, <2>5
<1>. QED  BY <1>2 DEF GasEffect, Effect

LEMMA GasAfterEffect ==
    ASSUME Typed, Backed(todo), GasList, todo # <<>>, NEW tx, tx = Head(todo),
           GasEffect(tx), todo' = Tail(todo)
    PROVE  GasList' /\ (TopUpsWithinTarget => TopUpsWithinTarget')
<1>1. /\ tx = todo[1] /\ tx.net \in Networks /\ tx.to \in Owners /\ tx.amount \in Nat
  BY HeadTyped
<1>2. todo \in Seq(AllTxs)
  BY DEF Typed
<1>3. PICK u : u = todo'
  OBVIOUS
<1>4. /\ u \in Seq(AllTxs) /\ Len(todo) = Len(u) + 1 /\ Len(u) \in Nat
      /\ \A i \in 1..Len(u) : u[i] = todo[i + 1] /\ i + 1 \in 1..Len(todo)
  BY <1>2, <1>3, TailOfList
<1>5. 1 \in 1..Len(todo)
  BY <1>4
<1>6. \A n \in Networks : \A k \in Keepers :
          /\ balance[n][k]["eth"] \in Nat /\ balance'[n][k]["eth"] \in Nat
          /\ Target[k] \in Nat
  <2>1. \A k \in Keepers : k \in Owners /\ "eth" \in Tokens
    BY AccountsApart DEF Tokens
  <2>2. balance \in Balances /\ balance' \in Balances
    BY DEF Typed, GasEffect
  <2>3. \A k \in Keepers : Target[k] \in Nat
    BY AccountsAssumption
  <2>. QED  BY <2>1, <2>2, <2>3, BalanceTyped
<1>7. ASSUME TopUpsWithinTarget, NEW n \in Networks, NEW k \in Keepers
      PROVE  balance'[n][k]["eth"] <= Target[k]
  <2>1. CASE IsGas(tx) /\ tx.net = n /\ tx.to = k
    <3>1. balance[n][k]["eth"] + tx.amount <= Target[k]
      BY <1>1, <1>5, <2>1 DEF GasList, GasFits
    <3>2. balance'[n][k]["eth"] <= balance[n][k]["eth"] + tx.amount
      BY <2>1 DEF GasEffect
    <3>. QED  BY <1>1, <1>6, <3>1, <3>2
  <2>2. CASE ~(IsGas(tx) /\ tx.net = n /\ tx.to = k)
    <3>1. balance[n][k]["eth"] <= Target[k]
      BY <1>7 DEF TopUpsWithinTarget, Fuel
    <3>2. balance'[n][k]["eth"] <= balance[n][k]["eth"]
      BY <2>2 DEF GasEffect
    <3>. QED  BY <1>6, <3>1, <3>2
  <2>. QED  BY <2>1, <2>2
<1>8. ASSUME TopUpsWithinTarget PROVE TopUpsWithinTarget'
  BY <1>7, <1>8 DEF TopUpsWithinTarget, Fuel
<1>9. ASSUME NEW i \in 1..Len(u), IsGas(u[i])
      PROVE  balance'[u[i].net][u[i].to]["eth"] + u[i].amount <= Target[u[i].to]
  <2>1. PICK j \in 1..Len(todo) : j = i + 1 /\ u[i] = todo[j] /\ j # 1
    BY <1>4
  <2>2. PICK y : y = u[i]
    OBVIOUS
  <2>3. y \in AllTxs /\ IsGas(y) /\ y = todo[j]
    BY <1>4, <1>9, <2>1, <2>2
  <2>4. y.to \in Keepers /\ y.net \in Networks /\ y.amount \in Nat
    BY <2>3 DEF AllTxs, Sendable, IsGas
  <2>5. balance[y.net][y.to]["eth"] + y.amount <= Target[y.to]
    BY <2>3 DEF GasList, GasFits
  <2>6. ~(IsGas(tx) /\ tx.net = y.net /\ tx.to = y.to)
    BY <1>1, <1>5, <2>1, <2>3 DEF GasList, GasOnce
  <2>7. balance'[y.net][y.to]["eth"] <= balance[y.net][y.to]["eth"]
    BY <2>4, <2>6 DEF GasEffect
  <2>8. balance'[y.net][y.to]["eth"] + y.amount <= Target[y.to]
    BY <1>6, <2>4, <2>5, <2>7
  <2>. QED  BY <2>2, <2>8
<1>10. GasFits(todo)'
  BY <1>3, <1>9 DEF GasFits
<1>11. GasOnce(u)
  <2>1. ASSUME NEW i \in 1..Len(u), NEW j \in 1..Len(u), IsGas(u[i]), IsGas(u[j]),
               u[i].net = u[j].net, u[i].to = u[j].to
        PROVE  i = j
    <3>1. /\ i + 1 \in 1..Len(todo) /\ u[i] = todo[i + 1]
          /\ j + 1 \in 1..Len(todo) /\ u[j] = todo[j + 1]
      BY <1>4
    <3>2. i + 1 = j + 1
      BY <2>1, <3>1 DEF GasList, GasOnce
    <3>3. i \in Int /\ j \in Int
      OBVIOUS
    <3>. QED  BY <3>2, <3>3
  <2>. QED  BY <2>1 DEF GasOnce
<1>12. GasOnce(todo)'
  BY <1>3, <1>11 DEF GasOnce
<1>. QED  BY <1>8, <1>10, <1>12 DEF GasList

-----------------------------------------------------------------------------
(* What each kind of transaction does.                                     *)
LEMMA MovesFit ==
    ASSUME CreditInv, todo # <<>>, NEW tx, tx = Head(todo), NEW m \in Nat,
           tx.kind \in {"transfer", "claim", "spend"},
           m <= balance[tx.net][tx.from][tx.token],
           tx.kind \in {"transfer", "spend"} => m = tx.amount, Move(tx, m)
    PROVE  Effect(tx)
<1>1. /\ tx.net \in Networks /\ tx.from \in Sources /\ tx.from \in Owners
      /\ tx.to \in Owners /\ tx.token \in Tokens /\ tx.from # tx.to
  BY HeadTyped DEF CreditInv, Sendable
<1>2. balance \in Balances
  BY DEF CreditInv, Typed
<1>3. PICK b, c : b = balance /\ c = balance'
  OBVIOUS
<1>4. PICK n, f, o, t : n = tx.net /\ f = tx.from /\ o = tx.to /\ t = tx.token
  OBVIOUS
<1>5. Moved(b, c, n, f, o, t, m)
  BY <1>3, <1>4 DEF Move, Moved
<1>6. /\ c \in Balances /\ c[n][o][t] = b[n][o][t] + m
      /\ KeptButFor(b, c, n, f, o, t)
  <2>1. /\ b \in Balances /\ n \in Networks /\ f \in Owners /\ o \in Owners
        /\ t \in Tokens /\ f # o /\ m <= b[n][f][t]
    BY <1>1, <1>2, <1>3, <1>4
  <2>. QED  BY <1>5, <2>1, MoveEffect
<1>7. ASSUME NEW k \in Networks, NEW p \in Owners \ Sources, NEW u \in Tokens
      PROVE  /\ c[k][p][u] >= b[k][p][u]
             /\ k # n \/ p # o \/ u # t => c[k][p][u] = b[k][p][u]
  <2>1. p # f /\ p \in Owners
    BY <1>1, <1>4
  <2>2. b[k][p][u] \in Nat /\ c[k][p][u] \in Nat
    BY <1>2, <1>3, <1>6, <2>1, BalanceTyped
  <2>3. CASE k # n \/ p # o \/ u # t
    <3>1. c[k][p][u] = b[k][p][u]
      BY <1>6, <2>1, <2>3 DEF KeptButFor
    <3>. QED  BY <2>2, <3>1
  <2>4. CASE k = n /\ p = o /\ u = t
    BY <1>6, <2>2, <2>4
  <2>. QED  BY <2>3, <2>4
<1>. QED  BY <1>3, <1>4, <1>6, <1>7 DEF Effect

LEMMA ConversionsFit ==
    ASSUME CreditInv, todo # <<>>, NEW tx, tx = Head(todo), NEW m \in Nat, NEW r \in Nat,
           NEW u \in Tokens, u # tx.token, tx.kind \notin {"transfer", "spend"},
           m <= balance[tx.net][tx.from][tx.token], Convert(tx, m, u, r)
    PROVE  Effect(tx)
<1>1. /\ tx.net \in Networks /\ tx.from \in Sources /\ tx.from \in Owners
      /\ tx.to \in Owners /\ tx.token \in Tokens
  BY HeadTyped DEF CreditInv
<1>2. balance \in Balances
  BY DEF CreditInv, Typed
<1>3. PICK b, c : b = balance /\ c = balance'
  OBVIOUS
<1>4. PICK n, f, t : n = tx.net /\ f = tx.from /\ t = tx.token
  OBVIOUS
<1>5. Converted(b, c, n, f, t, u, m, r)
  BY <1>3, <1>4 DEF Convert, Converted
<1>6. c \in Balances /\ KeptButBoth(b, c, n, f, t, u)
  <2>1. /\ b \in Balances /\ n \in Networks /\ f \in Owners
        /\ t \in Tokens /\ t # u /\ m <= b[n][f][t]
    BY <1>1, <1>2, <1>3, <1>4
  <2>. QED  BY <1>5, <2>1, ConvertEffect
<1>7. ASSUME NEW k \in Networks, NEW p \in Owners \ Sources, NEW v \in Tokens
      PROVE  c[k][p][v] >= b[k][p][v] /\ c[k][p][v] = b[k][p][v]
  <2>1. p # f /\ p \in Owners
    BY <1>1, <1>4
  <2>2. b[k][p][v] \in Nat
    BY <1>2, <1>3, <2>1, BalanceTyped
  <2>3. c[k][p][v] = b[k][p][v]
    BY <1>6, <2>1 DEF KeptButBoth
  <2>. QED  BY <2>2, <2>3
<1>. QED  BY <1>3, <1>6, <1>7 DEF Effect

LEMMA NothingFits ==
    ASSUME CreditInv, todo # <<>>, NEW tx, tx = Head(todo),
           tx.kind \notin {"transfer", "spend"}, UNCHANGED balance
    PROVE  Effect(tx)
<1>1. \A n \in Networks : \A o \in Owners : \A t \in Tokens : balance[n][o][t] \in Nat
  BY BalanceTyped DEF CreditInv, Typed
<1>2. \A n \in Networks : \A o \in Owners : \A t \in Tokens :
          balance[n][o][t] >= balance[n][o][t]
  BY <1>1
<1>. QED  BY <1>2 DEF Effect, CreditInv, Typed

LEMMA TransactionKeeps ==
    ASSUME CreditInv, todo # <<>>, NEW tx, tx = Head(todo), Effect(tx),
           ~IsCredit(tx), Sent, UNCHANGED <<rate, bonus>>
    PROVE  CreditInv' /\ GasKept
<1>1. todo' = Tail(todo) /\ UNCHANGED <<next, plan, files, bridge>>
  BY DEF Sent, planVars
<1>2. CreditInv'
  BY <1>1, CreditAfterEffect
<1>3. Typed /\ Backed(todo)
  BY DEF CreditInv
<1>4. GasEffect(tx)
  BY <1>3, EffectOnGas
<1>5. GasKept
  BY <1>1, <1>3, <1>4, GasAfterEffect DEF GasKept
<1>. QED  BY <1>2, <1>5

LEMMA PaymentsKeep ==
    ASSUME CreditInv, SendTransfer \/ SendClaim \/ SendSpend
    PROVE  CreditInv' /\ GasKept
<1>1. todo # <<>>
  BY DEF SendTransfer, SendClaim, SendSpend, Sending
<1>2. PICK tx : tx = Head(todo)
  OBVIOUS
<1>3. /\ tx.amount \in Nat /\ tx.net \in Networks /\ tx.from \in Owners
      /\ tx.token \in Tokens /\ balance[tx.net][tx.from][tx.token] \in Nat
  BY <1>1, <1>2, HeadTyped DEF CreditInv
<1>4. ASSUME SendTransfer
      PROVE  Effect(tx) /\ ~IsCredit(tx) /\ Sent /\ UNCHANGED <<rate, bonus>>
  <2>1. tx.kind = "transfer" /\ Affordable(tx) /\ Move(tx, tx.amount)
        /\ Sent /\ UNCHANGED <<rate, bonus>>
    BY <1>2, <1>4 DEF SendTransfer, Sending
  <2>2. tx.amount <= balance[tx.net][tx.from][tx.token]
    BY <1>3, <2>1 DEF Affordable, Enough
  <2>. QED  BY <1>1, <1>2, <1>3, <2>1, <2>2, MovesFit DEF IsCredit
<1>5. ASSUME SendSpend
      PROVE  Effect(tx) /\ ~IsCredit(tx) /\ Sent /\ UNCHANGED <<rate, bonus>>
  <2>1. tx.kind = "spend" /\ Affordable(tx) /\ Move(tx, tx.amount)
        /\ Sent /\ UNCHANGED <<rate, bonus>>
    BY <1>2, <1>5 DEF SendSpend, Sending
  <2>2. tx.amount <= balance[tx.net][tx.from][tx.token]
    BY <1>3, <2>1 DEF Affordable, Enough
  <2>. QED  BY <1>1, <1>2, <1>3, <2>1, <2>2, MovesFit DEF IsCredit
<1>6. ASSUME SendClaim
      PROVE  Effect(tx) /\ ~IsCredit(tx) /\ Sent /\ UNCHANGED <<rate, bonus>>
  <2>1. tx.kind = "claim" /\ Move(tx, balance[tx.net][tx.from][tx.token])
        /\ Sent /\ UNCHANGED <<rate, bonus>>
    BY <1>2, <1>6 DEF SendClaim, Sending
  <2>2. PICK m \in Nat : m = balance[tx.net][tx.from][tx.token]
    BY <1>3
  <2>3. m <= balance[tx.net][tx.from][tx.token] /\ Move(tx, m)
    BY <2>1, <2>2
  <2>. QED  BY <1>1, <1>2, <2>1, <2>3, MovesFit DEF IsCredit
<1>7. Effect(tx) /\ ~IsCredit(tx) /\ Sent /\ UNCHANGED <<rate, bonus>>
  BY <1>4, <1>5, <1>6
<1>. QED  BY <1>1, <1>2, <1>7, TransactionKeeps

LEMMA ConversionsKeep ==
    ASSUME CreditInv, SendUnwrap \/ SendSwap \/ SendExcess
    PROVE  CreditInv' /\ GasKept
<1>1. todo # <<>>
  BY DEF SendUnwrap, SendSwap, SendExcess, Sending
<1>2. PICK tx : tx = Head(todo)
  OBVIOUS
<1>3. /\ tx.amount \in Nat /\ balance[tx.net][tx.from][tx.token] \in Nat
      /\ Sendable(tx) /\ "wnt" \in Tokens /\ "eth" \in Tokens /\ "usdc" \in Tokens
  BY <1>1, <1>2, HeadTyped DEF CreditInv, Tokens
<1>4. ASSUME SendUnwrap
      PROVE  Effect(tx) /\ ~IsCredit(tx) /\ Sent /\ UNCHANGED <<rate, bonus>>
  <2>1. tx.kind = "unwrap" /\ Affordable(tx) /\ Convert(tx, tx.amount, "eth", tx.amount)
        /\ Sent /\ UNCHANGED <<rate, bonus>>
    BY <1>2, <1>4 DEF SendUnwrap, Sending
  <2>2. tx.amount <= balance[tx.net][tx.from][tx.token]
    BY <1>3, <2>1 DEF Affordable, Enough
  <2>3. "eth" # tx.token
    BY <1>3, <2>1 DEF Sendable
  <2>. QED  BY <1>1, <1>2, <1>3, <2>1, <2>2, <2>3, ConversionsFit DEF IsCredit
<1>5. ASSUME SendSwap
      PROVE  Effect(tx) /\ ~IsCredit(tx) /\ Sent /\ UNCHANGED <<rate, bonus>>
  <2>1. PICK r : r = IF tx.amount > SwapLoss THEN tx.amount - SwapLoss ELSE 0
    OBVIOUS
  <2>2. r \in Nat
    BY <1>3, <2>1, InitialAssumption
  <2>3. tx.kind = "swap" /\ Affordable(tx) /\ Convert(tx, tx.amount, "wnt", r)
        /\ Sent /\ UNCHANGED <<rate, bonus>>
    BY <1>2, <1>5, <2>1 DEF SendSwap, Sending
  <2>4. tx.amount <= balance[tx.net][tx.from][tx.token]
    BY <1>3, <2>3 DEF Affordable, Enough
  <2>5. "wnt" # tx.token
    BY <1>3, <2>3 DEF Sendable
  <2>. QED  BY <1>1, <1>2, <1>3, <2>2, <2>3, <2>4, <2>5, ConversionsFit DEF IsCredit
<1>6. ASSUME SendExcess
      PROVE  Effect(tx) /\ ~IsCredit(tx) /\ Sent /\ UNCHANGED <<rate, bonus>>
  <2>1. PICK e : e = balance[tx.net]["signer"]["wnt"] - tx.amount
    OBVIOUS
  <2>2. /\ tx.kind = "excess" /\ Sent /\ UNCHANGED <<rate, bonus>>
        /\ IF e > 0 THEN Convert(tx, e, "usdc", e) ELSE UNCHANGED balance
    BY <1>2, <1>6, <2>1 DEF SendExcess, Sending
  <2>3. tx.from = "signer" /\ tx.token = "wnt"
    BY <1>3, <2>2 DEF Sendable
  <2>4. CASE e > 0
    <3>1. e \in Nat /\ e <= balance[tx.net][tx.from][tx.token]
      BY <1>3, <2>1, <2>3, <2>4
    <3>2. Convert(tx, e, "usdc", e) /\ "usdc" # tx.token
      BY <2>2, <2>3, <2>4
    <3>. QED  BY <1>1, <1>2, <1>3, <2>2, <3>1, <3>2, ConversionsFit DEF IsCredit
  <2>5. CASE ~(e > 0)
    <3>1. UNCHANGED balance
      BY <2>2, <2>5
    <3>. QED  BY <1>1, <1>2, <2>2, <3>1, NothingFits DEF IsCredit
  <2>. QED  BY <2>4, <2>5
<1>7. Effect(tx) /\ ~IsCredit(tx) /\ Sent /\ UNCHANGED <<rate, bonus>>
  BY <1>4, <1>5, <1>6
<1>. QED  BY <1>1, <1>2, <1>7, TransactionKeeps

LEMMA ChecksKeep ==
    ASSUME CreditInv, SendApprove \/ SendNothing
    PROVE  CreditInv' /\ GasKept
<1>1. todo # <<>>
  BY DEF SendApprove, SendNothing, Sending
<1>2. PICK tx : tx = Head(todo)
  OBVIOUS
<1>3. /\ tx.kind \in {"approve", "require", "approveHandler"}
      /\ Sent /\ UNCHANGED <<balance, rate, bonus>>
  BY <1>2 DEF SendApprove, SendNothing, Sending, ledgerVars
<1>4. Effect(tx) /\ ~IsCredit(tx)
  BY <1>1, <1>2, <1>3, NothingFits DEF IsCredit
<1>. QED  BY <1>1, <1>2, <1>3, <1>4, TransactionKeeps

(* A credit is covered by the payment before it.                           *)
LEMMA CreditsKeep ==
    ASSUME CreditInv, SendRate \/ SendBonus
    PROVE  CreditInv' /\ GasKept
<1>1. todo # <<>> /\ Sent /\ UNCHANGED balance
  BY DEF SendRate, SendBonus, Sending
<1>2. PICK tx : tx = Head(todo)
  OBVIOUS
<1>3. /\ tx = todo[1] /\ tx.amount \in Nat /\ tx.net \in Networks /\ Sendable(tx)
      /\ Typed /\ Backed(todo) /\ todo \in Seq(AllTxs)
  BY <1>1, <1>2, HeadTyped DEF CreditInv, Typed
<1>4. IsCredit(tx)
  BY <1>2 DEF SendRate, SendBonus, Sending, IsCredit
<1>5. todo' = Tail(todo) /\ UNCHANGED <<next, plan, files, bridge>>
  BY <1>1 DEF Sent, planVars
<1>6. todo' \in Seq(AllTxs) /\ Backed(todo') /\ HeadPaid'
  <2>1. PICK u : u = todo'
    OBVIOUS
  <2>2. /\ u \in Seq(AllTxs) /\ Backed(u)
        /\ u # <<>> /\ IsCredit(u[1]) => Backs(tx, u[1])
    BY <1>1, <1>3, <1>5, <2>1, TailOfList
  <2>3. u # <<>> => ~IsCredit(u[1])
    BY <1>4, <2>2 DEF Backs, IsCredit
  <2>4. HeadPaid'
    BY <2>1, <2>3 DEF HeadPaid, IsCredit
  <2>. QED  BY <2>1, <2>2, <2>4
<1>7. GasKept
  <2>1. \A n \in Networks : \A k \in Keepers : balance[n][k]["eth"] \in Nat
    BY <1>3, AccountsApart, BalanceTyped DEF Typed, Tokens
  <2>2. \A n \in Networks : \A k \in Keepers : balance[n][k]["eth"] <= balance[n][k]["eth"]
    BY <2>1
  <2>3. ~IsGas(tx)
    BY <1>3, <1>4 DEF Sendable, IsGas, IsCredit
  <2>4. GasEffect(tx)
    BY <1>1, <1>3, <2>2, <2>3 DEF GasEffect, Typed
  <2>. QED  BY <1>1, <1>2, <1>3, <1>5, <2>4, GasAfterEffect DEF GasKept
<1>8. ASSUME SendRate
      PROVE  Typed' /\ CreditFollowsPayment'
  <2>1. /\ tx.kind = "rate" /\ UNCHANGED bonus
        /\ rate' = [rate EXCEPT ![tx.net][tx.to] = tx.amount]
    BY <1>2, <1>8 DEF SendRate, Sending
  <2>2. tx.to \in Trackers
    BY <1>3, <2>1 DEF Sendable
  <2>3. tx.amount <= balance[tx.net][tx.to]["gmx"] + balance[tx.net][tx.to]["wnt"]
    BY <1>1, <1>3, <2>1 DEF CreditInv, HeadPaid
  <2>4. rate' \in [Networks -> [Trackers -> Nat]]
    BY <1>3, <2>1, <2>2 DEF Typed
  <2>5. Typed'
    BY <1>1, <1>3, <1>5, <1>6, <2>1, <2>4 DEF Typed
  <2>6. \A n \in Networks : \A t \in Trackers :
            rate'[n][t] <= balance[n][t]["gmx"] + balance[n][t]["wnt"]
    <3>1. ASSUME NEW n \in Networks, NEW t \in Trackers
          PROVE  rate'[n][t] <= balance[n][t]["gmx"] + balance[n][t]["wnt"]
      <4>1. CASE n = tx.net /\ t = tx.to
        <5>1. rate'[n][t] = tx.amount
          BY <1>3, <2>1, <2>2, <4>1 DEF Typed
        <5>. QED  BY <2>3, <4>1, <5>1
      <4>2. CASE ~(n = tx.net /\ t = tx.to)
        <5>1. rate'[n][t] = rate[n][t]
          BY <1>3, <2>1, <2>2, <4>2 DEF Typed
        <5>. QED  BY <5>1 DEF CreditInv, CreditFollowsPayment
      <4>. QED  BY <4>1, <4>2
    <3>. QED  BY <3>1
  <2>7. CreditFollowsPayment'
    BY <1>1, <2>1, <2>6 DEF CreditInv, CreditFollowsPayment
  <2>. QED  BY <2>5, <2>7
<1>9. ASSUME SendBonus
      PROVE  Typed' /\ CreditFollowsPayment'
  <2>1. /\ tx.kind = "bonus" /\ UNCHANGED rate
        /\ bonus' = [bonus EXCEPT ![tx.net][tx.to] = @ + tx.amount]
    BY <1>2, <1>9 DEF SendBonus, Sending
  <2>2. tx.to \in Recipients
    BY <1>3, <2>1 DEF Sendable
  <2>3. bonus[tx.net][tx.to] + tx.amount <= balance[tx.net][tx.to]["esGmx"]
        /\ bonus[tx.net][tx.to] \in Nat
    BY <1>1, <1>3, <2>1, <2>2 DEF CreditInv, HeadPaid, Typed
  <2>4. PICK m \in Nat : m = bonus[tx.net][tx.to] + tx.amount
    BY <1>3, <2>3
  <2>5. bonus' = [bonus EXCEPT ![tx.net][tx.to] = m]
    BY <2>1, <2>4
  <2>6. bonus' \in [Networks -> [Recipients -> Nat]]
    BY <1>3, <2>2, <2>5 DEF Typed
  <2>7. Typed'
    BY <1>1, <1>3, <1>5, <1>6, <2>1, <2>6 DEF Typed
  <2>8. \A n \in Networks : \A a \in Recipients : bonus'[n][a] <= balance[n][a]["esGmx"]
    <3>1. ASSUME NEW n \in Networks, NEW a \in Recipients
          PROVE  bonus'[n][a] <= balance[n][a]["esGmx"]
      <4>1. CASE n = tx.net /\ a = tx.to
        <5>1. bonus'[n][a] = m
          BY <1>3, <2>2, <2>5, <4>1 DEF Typed
        <5>. QED  BY <2>3, <2>4, <4>1, <5>1
      <4>2. CASE ~(n = tx.net /\ a = tx.to)
        <5>1. bonus'[n][a] = bonus[n][a]
          BY <1>3, <2>2, <2>5, <4>2 DEF Typed
        <5>. QED  BY <5>1 DEF CreditInv, CreditFollowsPayment
      <4>. QED  BY <4>1, <4>2
    <3>. QED  BY <3>1
  <2>9. CreditFollowsPayment'
    BY <1>1, <2>1, <2>8 DEF CreditInv, CreditFollowsPayment
  <2>. QED  BY <2>7, <2>9
<1>10. CreditInv'
  BY <1>6, <1>8, <1>9 DEF CreditInv
<1>. QED  BY <1>7, <1>10

-----------------------------------------------------------------------------
(* The other steps.                                                        *)
LEMMA NothingToSend ==
    ASSUME CreditInv, todo' = <<>>, UNCHANGED <<balance, rate, bonus>>, Typed'
    PROVE  CreditInv' /\ GasKept
<1>1. Backed(todo') /\ HeadPaid'
  BY DEF Backed, HeadPaid
<1>2. CreditFollowsPayment'
  BY DEF CreditInv, CreditFollowsPayment
<1>3. GasFits(todo)' /\ GasOnce(todo)'
  BY DEF GasFits, GasOnce
<1>4. ASSUME TopUpsWithinTarget PROVE TopUpsWithinTarget'
  BY <1>4 DEF TopUpsWithinTarget, Fuel
<1>. QED  BY <1>1, <1>2, <1>3, <1>4 DEF CreditInv, GasList, GasKept

(* Nobody but the protocol and keepers that burn gas loses anything.       *)
LEMMA QuietKeeps ==
    ASSUME CreditInv, Typed', UNCHANGED <<rate, bonus, todo>>,
           \A n \in Networks : \A o \in Owners \ Sources : \A t \in Tokens \ {"eth"} :
               balance'[n][o][t] = balance[n][o][t],
           \A n \in Networks : \A k \in Keepers :
               balance'[n][k]["eth"] <= balance[n][k]["eth"]
    PROVE  CreditInv' /\ GasKept
<1>1. /\ "gmx" \in Tokens \ {"eth"} /\ "wnt" \in Tokens \ {"eth"}
      /\ "esGmx" \in Tokens \ {"eth"}
  BY DEF Tokens
<1>2. \A t \in Trackers : t \in Owners \ Sources
  BY AccountsApart
<1>3. \A a \in Recipients : a \in Owners \ Sources
  BY AccountsApart
<1>4. CreditFollowsPayment'
  BY <1>1, <1>2, <1>3 DEF CreditInv, CreditFollowsPayment
<1>5. HeadPaid'
  <2>1. SUFFICES ASSUME todo # <<>>
                 PROVE  HeadPaid'
    BY DEF HeadPaid
  <2>2. PICK y : y = todo[1]
    OBVIOUS
  <2>3. Sendable(y) /\ y.net \in Networks
    <3>1. todo \in Seq(AllTxs)
      BY DEF CreditInv, Typed
    <3>2. y \in AllTxs
      BY <2>1, <2>2, <3>1
    <3>. QED  BY <3>2 DEF AllTxs, Sendable
  <2>4. y.kind = "rate" => /\ balance'[y.net][y.to]["gmx"] = balance[y.net][y.to]["gmx"]
                           /\ balance'[y.net][y.to]["wnt"] = balance[y.net][y.to]["wnt"]
    BY <1>1, <1>2, <2>3 DEF Sendable
  <2>5. y.kind = "bonus" => balance'[y.net][y.to]["esGmx"] = balance[y.net][y.to]["esGmx"]
    BY <1>1, <1>3, <2>3 DEF Sendable
  <2>. QED  BY <2>1, <2>2, <2>4, <2>5 DEF CreditInv, HeadPaid
<1>6. Backed(todo)'
  BY DEF CreditInv, Backed
<1>7. ASSUME GasList PROVE GasList' /\ (TopUpsWithinTarget => TopUpsWithinTarget')
  <2>1. \A n \in Networks : \A k \in Keepers :
            /\ balance[n][k]["eth"] \in Nat /\ balance'[n][k]["eth"] \in Nat
            /\ Target[k] \in Nat
    <3>1. \A k \in Keepers : k \in Owners /\ "eth" \in Tokens
      BY AccountsApart DEF Tokens
    <3>2. balance \in Balances /\ balance' \in Balances
      BY DEF CreditInv, Typed
    <3>3. \A k \in Keepers : Target[k] \in Nat
      BY AccountsAssumption
    <3>. QED  BY <3>1, <3>2, <3>3, BalanceTyped
  <2>2. ASSUME TopUpsWithinTarget PROVE TopUpsWithinTarget'
    <3>1. ASSUME NEW n \in Networks, NEW k \in Keepers
          PROVE  balance'[n][k]["eth"] <= Target[k]
      <4>1. balance[n][k]["eth"] <= Target[k]
        BY <2>2 DEF TopUpsWithinTarget, Fuel
      <4>. QED  BY <2>1, <4>1
    <3>. QED  BY <3>1 DEF TopUpsWithinTarget, Fuel
  <2>3. ASSUME NEW i \in 1..Len(todo), IsGas(todo[i])
        PROVE  balance'[todo[i].net][todo[i].to]["eth"] + todo[i].amount
                   <= Target[todo[i].to]
    <3>1. PICK y : y = todo[i]
      OBVIOUS
    <3>2. todo \in Seq(AllTxs)
      BY DEF CreditInv, Typed
    <3>3. y \in AllTxs
      BY <3>1, <3>2
    <3>4. y.to \in Keepers /\ y.net \in Networks /\ y.amount \in Nat
      BY <2>3, <3>1, <3>3 DEF AllTxs, Sendable, IsGas
    <3>5. balance[y.net][y.to]["eth"] + y.amount <= Target[y.to]
      BY <1>7, <2>3, <3>1 DEF GasList, GasFits
    <3>6. balance'[y.net][y.to]["eth"] + y.amount <= Target[y.to]
      BY <2>1, <3>4, <3>5
    <3>. QED  BY <3>1, <3>6
  <2>4. GasFits(todo)' /\ GasOnce(todo)'
    BY <1>7, <2>3 DEF GasList, GasFits, GasOnce
  <2>. QED  BY <2>2, <2>4 DEF GasList
<1>. QED  BY <1>4, <1>5, <1>6, <1>7 DEF CreditInv, GasKept

LEMMA UnchangedKeeps ==
    ASSUME CreditInv, Typed', UNCHANGED <<balance, rate, bonus, todo>>
    PROVE  CreditInv' /\ GasKept
<1>1. \A n \in Networks : \A k \in Keepers : balance[n][k]["eth"] \in Nat
  BY AccountsApart, BalanceTyped DEF CreditInv, Typed, Tokens
<1>2. \A n \in Networks : \A k \in Keepers : balance[n][k]["eth"] <= balance[n][k]["eth"]
  BY <1>1
<1>. QED  BY <1>2, QuietKeeps

LEMMA BeginKeeps ==
    ASSUME CreditInv, Begin
    PROVE  CreditInv' /\ GasKept
<1>1. /\ next <= Len(Steps) /\ plan # NoPlan /\ todo' = Transactions
      /\ UNCHANGED <<balance, rate, bonus, plan, files, bridge, next>>
  BY DEF Begin, ledgerVars, planVars
<1>2. Ready /\ next \in Nat \ {0}
  BY <1>1 DEF CreditInv, Typed, Ready
<1>3. /\ Listed(Transactions, AllTxs) /\ GasFits(Transactions)
      /\ GasOnce(Transactions)
  BY <1>1, <1>2, TransactionsFit
<1>4. PICK u : u = Transactions
  OBVIOUS
<1>5. /\ u \in Seq(AllTxs) /\ Backed(u) /\ (u # <<>> => ~IsCredit(u[1]))
      /\ GasFits(u) /\ GasOnce(u) /\ todo' = u
  BY <1>1, <1>3, <1>4 DEF Listed
<1>6. Typed'
  BY <1>1, <1>5 DEF CreditInv, Typed
<1>7. Backed(todo)' /\ HeadPaid'
  BY <1>5 DEF Backed, HeadPaid, IsCredit
<1>8. CreditFollowsPayment'
  BY <1>1 DEF CreditInv, CreditFollowsPayment
<1>9. GasFits(todo)' /\ GasOnce(todo)'
  BY <1>1, <1>5 DEF GasFits, GasOnce
<1>10. ASSUME TopUpsWithinTarget PROVE TopUpsWithinTarget'
  BY <1>1, <1>10 DEF TopUpsWithinTarget, Fuel
<1>. QED  BY <1>6, <1>7, <1>8, <1>9, <1>10 DEF CreditInv, GasList, GasKept

LEMMA PlanKeeps ==
    ASSUME CreditInv, NEW include \in BOOLEAN, NEW data \in DataChoices,
           CreatePlan(include, data)
    PROVE  CreditInv' /\ GasKept
<1> DEFINE saved == [n \in Networks |-> Saved(files[n], data[n])]
<1>1. /\ \A n \in Networks : NativePlannable(NativeValues(n, include, saved))
      /\ GmxPlannable(GmxValues(include))
      /\ files' = saved /\ plan' = PlanFor(include, saved)
      /\ bridge' = [sent |-> FALSE, to |-> arb, amount |-> 0]
      /\ UNCHANGED <<balance, rate, bonus, todo, next>>
  BY DEF CreatePlan, ledgerVars, processVars
<1>2. \A n \in Networks : WellFormed(saved[n])
  <2>1. ASSUME NEW n \in Networks PROVE WellFormed(saved[n])
    <3>1. saved[n] = Saved(files[n], data[n])
      OBVIOUS
    <3>2. WellFormed(files[n])
      BY DEF CreditInv, Typed
    <3>. QED  BY <3>1, <3>2, FileWellFormed DEF Saved
  <2>. QED  BY <2>1
<1>. HIDE DEF saved
<1>3. balance \in Balances
  BY DEF CreditInv, Typed
<1>4. PlanTyped(PlanFor(include, saved))
  BY <1>1, <1>2, <1>3, PlanIsTyped
<1>5. bridge' \in [sent : BOOLEAN, to : Networks, amount : Nat]
  BY <1>1 DEF Networks
<1>6. Typed'
  BY <1>1, <1>2, <1>4, <1>5 DEF CreditInv, Typed
<1>. QED  BY <1>1, <1>6, UnchangedKeeps

LEMMA SignerKeeps ==
    ASSUME CreditInv, NEW n \in Networks, NEW x \in Nat,
           Updated(balance, balance', n, "signer", "gmx", x),
           bridge' \in [sent : BOOLEAN, to : Networks, amount : Nat],
           UNCHANGED <<rate, bonus, todo, plan, files, next>>
    PROVE  CreditInv' /\ GasKept
<1>1. "signer" \in Owners /\ "gmx" \in Tokens /\ balance \in Balances
      /\ "signer" \in Sources
  BY DEF Owners, Places, Tokens, CreditInv, Typed, Sources
<1>2. balance' \in Balances /\ KeptElsewhere(balance, balance', n, "signer", "gmx")
  BY <1>1, AccountUpdated
<1>3. Typed'
  BY <1>2 DEF CreditInv, Typed
<1>4. \A m \in Networks : \A o \in Owners \ Sources : \A t \in Tokens :
          balance'[m][o][t] = balance[m][o][t]
  BY <1>1, <1>2 DEF KeptElsewhere
<1>5. ASSUME NEW m \in Networks, NEW k \in Keepers
      PROVE  balance'[m][k]["eth"] <= balance[m][k]["eth"]
  <2>1. k \in Owners \ Sources /\ "eth" \in Tokens
    BY AccountsApart DEF Tokens
  <2>2. balance[m][k]["eth"] \in Nat
    BY <1>1, <2>1, BalanceTyped
  <2>. QED  BY <1>4, <2>1, <2>2
<1>. QED  BY <1>3, <1>4, <1>5, QuietKeeps

LEMMA BridgeKeeps ==
    ASSUME CreditInv, Bridge \/ Arrive
    PROVE  CreditInv' /\ GasKept
<1>1. UNCHANGED <<rate, bonus, todo, plan, files, next>>
  BY DEF Bridge, Arrive, planVars, processVars
<1>2. \A n \in Networks : balance[n]["signer"]["gmx"] \in Nat
  <2>1. "signer" \in Owners /\ "gmx" \in Tokens /\ balance \in Balances
    BY DEF Owners, Places, Tokens, CreditInv, Typed
  <2>. QED  BY <2>1, BalanceTyped
<1>3. CASE Bridge
  <2>1. PICK m : m = Abs(plan.delta)
    OBVIOUS
  <2>2. plan.delta \in Int
    BY <1>3 DEF Bridge, CreditInv, Typed, PlanTyped
  <2>3. m \in Nat
    BY <2>1, <2>2 DEF Abs
  <2>4. PICK n \in Networks : n = BridgeFrom
    BY DEF BridgeFrom, Networks
  <2>5. m <= balance[n]["signer"]["gmx"]
    BY <1>2, <1>3, <2>1, <2>3, <2>4 DEF Bridge
  <2>6. PICK x \in Nat : x = balance[n]["signer"]["gmx"] - m
    BY <1>2, <2>3, <2>5
  <2>7. Updated(balance, balance', n, "signer", "gmx", x)
    BY <1>3, <2>1, <2>4, <2>6 DEF Bridge, Updated
  <2>8. bridge' \in [sent : BOOLEAN, to : Networks, amount : Nat]
    <3>1. bridge' = [sent |-> TRUE, to |-> IF BridgeFrom = arb THEN avax ELSE arb,
                     amount |-> m]
      BY <1>3, <2>1 DEF Bridge
    <3>. QED  BY <2>3, <3>1 DEF Networks
  <2>. QED  BY <1>1, <2>7, <2>8, SignerKeeps
<1>4. CASE Arrive
  <2>1. bridge.to \in Networks /\ bridge.amount \in Nat
    BY DEF CreditInv, Typed
  <2>2. PICK x \in Nat : x = balance[bridge.to]["signer"]["gmx"] + bridge.amount
    BY <1>2, <2>1
  <2>3. Updated(balance, balance', bridge.to, "signer", "gmx", x)
    BY <1>4, <2>2 DEF Arrive, Updated
  <2>4. bridge' \in [sent : BOOLEAN, to : Networks, amount : Nat]
    BY <1>4 DEF Arrive, CreditInv, Typed
  <2>. QED  BY <1>1, <2>1, <2>3, <2>4, SignerKeeps
<1>. QED  BY <1>3, <1>4

LEMMA BurnKeeps ==
    ASSUME CreditInv, NEW n \in Networks, NEW k \in Keepers, Burn(n, k)
    PROVE  CreditInv' /\ GasKept
<1>1. UNCHANGED <<rate, bonus, todo, plan, files, next, bridge>>
  BY DEF Burn, planVars, processVars
<1>2. k \in Owners /\ k \notin Sources /\ "eth" \in Tokens /\ balance \in Balances
  BY AccountsApart DEF Tokens, CreditInv, Typed
<1>3. balance[n][k]["eth"] \in Nat
  BY <1>2, BalanceTyped
<1>4. PICK x \in Nat : x = balance[n][k]["eth"] - 1
  BY <1>3 DEF Burn
<1>5. Updated(balance, balance', n, k, "eth", x)
  BY <1>4 DEF Burn, Updated
<1>6. /\ balance' \in Balances /\ balance'[n][k]["eth"] = x
      /\ KeptElsewhere(balance, balance', n, k, "eth")
  BY <1>2, <1>5, AccountUpdated
<1>7. Typed'
  BY <1>1, <1>6 DEF CreditInv, Typed
<1>8. \A m \in Networks : \A o \in Owners \ Sources : \A t \in Tokens \ {"eth"} :
          balance'[m][o][t] = balance[m][o][t]
  BY <1>6 DEF KeptElsewhere
<1>9. ASSUME NEW m \in Networks, NEW j \in Keepers
      PROVE  balance'[m][j]["eth"] <= balance[m][j]["eth"]
  <2>1. j \in Owners
    BY AccountsApart
  <2>2. balance[m][j]["eth"] \in Nat
    BY <1>2, <2>1, BalanceTyped
  <2>3. CASE m = n /\ j = k
    BY <1>3, <1>4, <1>6, <2>3
  <2>4. CASE ~(m = n /\ j = k)
    <3>1. balance'[m][j]["eth"] = balance[m][j]["eth"]
      BY <1>2, <1>6, <2>1, <2>4 DEF KeptElsewhere
    <3>. QED  BY <2>2, <3>1
  <2>. QED  BY <2>3, <2>4
<1>. QED  BY <1>1, <1>7, <1>8, <1>9, QuietKeeps

LEMMA FirstReplaced ==
    ASSUME NEW s \in Seq(AllTxs), s # <<>>, NEW p \in AllTxs, NEW u,
           u = <<p>> \o Tail(s)
    PROVE  /\ u \in Seq(AllTxs) /\ Len(u) = Len(s) /\ Len(s) \in Nat \ {0}
           /\ u[1] = p /\ u # <<>>
           /\ \A i \in 2..Len(s) : u[i] = s[i]
  OBVIOUS

LEMMA SwapFailsKeeps ==
    ASSUME CreditInv, SwapFails
    PROVE  CreditInv' /\ GasKept
<1>1. todo # <<>> /\ UNCHANGED <<balance, rate, bonus, plan, files, bridge, next>>
  BY DEF SwapFails, Sending, ledgerVars, planVars
<1>2. PICK tx : tx = Head(todo)
  OBVIOUS
<1>3. /\ tx = todo[1] /\ tx.kind = "swap" /\ Sendable(tx) /\ todo \in Seq(AllTxs)
      /\ tx.net \in Networks /\ tx.token \in Tokens /\ tx.amount \in Nat
  BY <1>1, <1>2, HeadTyped DEF SwapFails, Sending, CreditInv, Typed
<1>4. CASE todo' = <<>>
  <2>1. Typed'
    BY <1>1, <1>4 DEF CreditInv, Typed
  <2>. QED  BY <1>1, <1>4, <2>1, NothingToSend
<1>5. CASE todo' = <<Pay(tx.net, "helper", tx.token, tx.amount)>> \o Tail(todo)
  <2>1. PICK p : p = Pay(tx.net, "helper", tx.token, tx.amount)
    OBVIOUS
  <2>2. p \in AllTxs /\ ~IsCredit(p) /\ ~IsGas(p)
    <3>1. tx.token # "eth"
      BY <1>3 DEF Sendable
    <3>2. /\ "transfer" \in Kinds /\ "signer" \in Sources /\ "helper" \in Owners
          /\ "signer" # "helper"
      BY DEF Kinds, Sources, Owners, Places
    <3>3. p \in PlainTxs /\ ~IsCredit(p)
      BY <1>3, <2>1, <3>1, <3>2, PlainTx DEF Pay
    <3>. QED  BY <3>3 DEF PlainTxs, IsGas
  <2>3. PICK u : u = todo'
    OBVIOUS
  <2>4. u = <<p>> \o Tail(todo)
    BY <1>5, <2>1, <2>3
  <2>5. /\ u \in Seq(AllTxs) /\ Len(u) = Len(todo) /\ Len(todo) \in Nat \ {0}
        /\ u[1] = p /\ u # <<>> /\ \A i \in 2..Len(todo) : u[i] = todo[i]
    BY <1>1, <1>3, <2>2, <2>4, FirstReplaced
  <2>6. ASSUME NEW i \in 2..Len(u), IsCredit(u[i]) PROVE Backs(u[i-1], u[i])
    <3>1. i \in 2..Len(todo) /\ u[i] = todo[i] /\ i \in Nat
      BY <2>5
    <3>2. Backs(todo[i-1], todo[i])
      BY <2>6, <3>1 DEF CreditInv, Backed
    <3>3. CASE i = 2
      <4>1. Backs(tx, todo[2]) /\ IsCredit(todo[2])
        BY <1>3, <2>6, <3>1, <3>2, <3>3
      <4>. QED  BY <1>3, <4>1 DEF Backs, IsCredit
    <3>4. CASE i # 2
      <4>1. i - 1 \in 2..Len(todo)
        BY <2>5, <3>1, <3>4
      <4>. QED  BY <2>5, <3>1, <3>2, <4>1
    <3>. QED  BY <3>3, <3>4
  <2>7. Typed'
    BY <1>1, <2>3, <2>5 DEF CreditInv, Typed
  <2>8. Backed(todo)' /\ HeadPaid'
    BY <2>2, <2>3, <2>5, <2>6 DEF Backed, HeadPaid, IsCredit
  <2>9. CreditFollowsPayment'
    BY <1>1 DEF CreditInv, CreditFollowsPayment
  <2>10. ASSUME GasList
         PROVE  GasList' /\ (TopUpsWithinTarget => TopUpsWithinTarget')
    <3>1. \A i \in 1..Len(u) : IsGas(u[i]) => i \in 1..Len(todo) /\ u[i] = todo[i]
      <4>1. ASSUME NEW i \in 1..Len(u), IsGas(u[i])
            PROVE  i \in 1..Len(todo) /\ u[i] = todo[i]
        <5>1. i # 1
          BY <2>2, <2>5, <4>1
        <5>. QED  BY <2>5, <5>1
      <4>. QED  BY <4>1
    <3>2. GasFits(todo)'
      BY <1>1, <2>3, <2>10, <3>1 DEF GasList, GasFits
    <3>3. GasOnce(todo)'
      BY <2>3, <2>10, <3>1 DEF GasList, GasOnce
    <3>4. ASSUME TopUpsWithinTarget PROVE TopUpsWithinTarget'
      BY <1>1, <3>4 DEF TopUpsWithinTarget, Fuel
    <3>. QED  BY <3>2, <3>3, <3>4 DEF GasList
  <2>. QED  BY <2>7, <2>8, <2>9, <2>10 DEF CreditInv, GasKept
<1>6. todo' = <<>> \/ todo' = <<Pay(tx.net, "helper", tx.token, tx.amount)>> \o Tail(todo)
  BY <1>2 DEF SwapFails, Stop
<1>. QED  BY <1>4, <1>5, <1>6

LEMMA SimpleKeeps ==
    ASSUME CreditInv, Finish \/ Fail \/ Crash \/ Skip \/ Tick \/ UNCHANGED vars
    PROVE  CreditInv' /\ GasKept
<1>1. next' \in Nat \ {0}
  <2>1. next \in Nat \ {0}
    BY DEF CreditInv, Typed
  <2>2. next' = next \/ next' = next + 1
    BY DEF Finish, Fail, Crash, Skip, Tick, vars
  <2>. QED  BY <2>1, <2>2
<1>2. UNCHANGED <<balance, rate, bonus, plan, files, bridge>>
  BY DEF Finish, Fail, Crash, Skip, Tick, vars, ledgerVars, planVars
<1>3. CASE todo' = <<>>
  <2>1. Typed'
    BY <1>1, <1>2, <1>3 DEF CreditInv, Typed
  <2>. QED  BY <1>2, <1>3, <2>1, NothingToSend
<1>4. CASE UNCHANGED todo
  <2>1. Typed'
    BY <1>1, <1>2, <1>4 DEF CreditInv, Typed
  <2>. QED  BY <1>2, <1>4, <2>1, UnchangedKeeps
<1>5. todo' = <<>> \/ UNCHANGED todo
  BY DEF Finish, Fail, Crash, Skip, Tick, Stop, vars, processVars
<1>. QED  BY <1>3, <1>4, <1>5

(* Every step of the scripts and of their surroundings.                    *)
LEMMA StepKeeps ==
    ASSUME CreditInv, [Next]_vars
    PROVE  CreditInv' /\ GasKept
<1>1. CASE \E include \in BOOLEAN : \E data \in DataChoices : CreatePlan(include, data)
  BY <1>1, PlanKeeps
<1>2. CASE Begin
  BY <1>2, BeginKeeps
<1>3. CASE Bridge \/ Arrive
  BY <1>3, BridgeKeeps
<1>4. CASE SendTransfer \/ SendClaim \/ SendSpend
  BY <1>4, PaymentsKeep
<1>5. CASE SendUnwrap \/ SendSwap \/ SendExcess
  BY <1>5, ConversionsKeep
<1>6. CASE SendApprove \/ SendNothing
  BY <1>6, ChecksKeep
<1>7. CASE SendRate \/ SendBonus
  BY <1>7, CreditsKeep
<1>8. CASE SwapFails
  BY <1>8, SwapFailsKeeps
<1>9. CASE \E n \in Networks : \E k \in Keepers : Burn(n, k)
  BY <1>9, BurnKeeps
<1>10. CASE Finish \/ Fail \/ Crash \/ Skip \/ Tick \/ UNCHANGED vars
  BY <1>10, SimpleKeeps
<1>. QED
  BY <1>1, <1>2, <1>3, <1>4, <1>5, <1>6, <1>7, <1>8, <1>9, <1>10
  DEF Next, Operator, Process, Environment, Send

LEMMA InitFits ==
    ASSUME Init
    PROVE  CreditInv /\ GasList
<1>1. /\ balance = InitBalances /\ files = InitFiles /\ next = 1 /\ todo = <<>>
      /\ plan = IF program = "processFees" THEN ReferencePlan ELSE NoPlan
      /\ bridge = [sent |-> FALSE, to |-> arb, amount |-> 0]
      /\ rate = [n \in Networks |-> [t \in Trackers |-> 0]]
      /\ bonus = [n \in Networks |-> [a \in Recipients |-> 0]]
  BY DEF Init
<1>2. balance \in Balances /\ \A n \in Networks : WellFormed(files[n])
  BY <1>1, InitialAssumption DEF Balances, WellFormed
<1>3. plan # NoPlan => PlanTyped(plan)
  <2>1. PlanTyped(ReferencePlan)
    <3>1. ReferencePlan.delta = 0
      BY DEF ReferencePlan
    <3>. HIDE DEF ReferencePlan
    <3>. QED  BY <3>1, ReferenceAssumption DEF PlanTyped
  <2>. QED  BY <1>1, <2>1
<1>4. Typed
  BY <1>1, <1>2, <1>3 DEF Typed, Networks
<1>5. CreditFollowsPayment
  <2>1. \A n \in Networks : \A t \in Trackers :
            rate[n][t] <= balance[n][t]["gmx"] + balance[n][t]["wnt"]
    <3>1. ASSUME NEW n \in Networks, NEW t \in Trackers
          PROVE  rate[n][t] <= balance[n][t]["gmx"] + balance[n][t]["wnt"]
      <4>1. t \in Owners /\ "gmx" \in Tokens /\ "wnt" \in Tokens
        BY AccountsApart DEF Tokens
      <4>2. balance[n][t]["gmx"] \in Nat /\ balance[n][t]["wnt"] \in Nat
        BY <1>2, <4>1, BalanceTyped
      <4>3. rate[n][t] = 0
        BY <1>1
      <4>. QED  BY <4>2, <4>3
    <3>. QED  BY <3>1
  <2>2. \A n \in Networks : \A a \in Recipients : bonus[n][a] <= balance[n][a]["esGmx"]
    <3>1. ASSUME NEW n \in Networks, NEW a \in Recipients
          PROVE  bonus[n][a] <= balance[n][a]["esGmx"]
      <4>1. a \in Owners /\ "esGmx" \in Tokens
        BY AccountsApart DEF Tokens
      <4>2. balance[n][a]["esGmx"] \in Nat
        BY <1>2, <4>1, BalanceTyped
      <4>3. bonus[n][a] = 0
        BY <1>1
      <4>. QED  BY <4>2, <4>3
    <3>. QED  BY <3>1
  <2>. QED  BY <2>1, <2>2 DEF CreditFollowsPayment
<1>6. Backed(todo) /\ HeadPaid /\ GasFits(todo) /\ GasOnce(todo)
  BY <1>1 DEF Backed, HeadPaid, GasFits, GasOnce
<1>. QED  BY <1>4, <1>5, <1>6 DEF CreditInv, GasList

LEMMA CreditInvariant == Spec => [](CreditInv /\ GasList)
<1>1. Init => CreditInv /\ GasList
  BY InitFits
<1>2. (CreditInv /\ GasList) /\ [Next]_vars => (CreditInv /\ GasList)'
  BY StepKeeps DEF GasKept
<1>. QED  BY <1>1, <1>2, PTL DEF Spec

(* Wherever a run is interrupted and however often it is resumed, the      *)
(* distributors never promise more rewards than they were sent, and no     *)
(* account may vest more esGMX than it was sent: the script sends first    *)
(* and gives credit afterwards.                                            *)
THEOREM CreditIsBacked == Spec => []CreditFollowsPayment
<1>1. CreditInv => CreditFollowsPayment
  BY DEF CreditInv
<1>. QED  BY <1>1, CreditInvariant, PTL

(* No keeper ever gets more gas than its target, unless it has more to     *)
(* start with, whatever keepers burn while the transactions are sent, and  *)
(* wherever funding is interrupted and run again.                          *)
THEOREM GasWithinTarget ==
    ASSUME \A n \in Networks : \A k \in Keepers :
               InitBalances[n][k]["eth"] <= Target[k]
    PROVE  Spec => []TopUpsWithinTarget
<1> DEFINE Inv == (CreditInv /\ GasList) /\ TopUpsWithinTarget
<1>1. Init => Inv
  <2>1. Init => TopUpsWithinTarget
    BY DEF Init, TopUpsWithinTarget, Fuel
  <2>. QED  BY <2>1, InitFits
<1>2. Inv /\ [Next]_vars => Inv'
  BY StepKeeps DEF GasKept
<1>3. Inv => TopUpsWithinTarget
  OBVIOUS
<1>. HIDE DEF Inv
<1>. QED  BY <1>1, <1>2, <1>3, PTL DEF Spec

-----------------------------------------------------------------------------
(* What a transaction does to any account.                                 *)
Flows(b, c, n, from, to, t, m) ==
    \A k \in Networks : \A p \in Owners : \A u \in Tokens :
        c[k][p][u] = b[k][p][u]
                        - (IF k = n /\ p = from /\ u = t THEN m ELSE 0)
                        + (IF k = n /\ p = to /\ u = t THEN m ELSE 0)

LEMMA MoveFlows ==
    ASSUME NEW b \in Balances, NEW n \in Networks, NEW from \in Owners, NEW to \in Owners,
           NEW t \in Tokens, NEW m \in Nat, from # to, m <= b[n][from][t],
           NEW c, Moved(b, c, n, from, to, t, m)
    PROVE  c \in Balances /\ Flows(b, c, n, from, to, t, m)
<1>1. /\ c \in Balances /\ c[n][from][t] = b[n][from][t] - m
      /\ c[n][to][t] = b[n][to][t] + m
      /\ KeptButFor(b, c, n, from, to, t)
  BY MoveEffect
<1>2. ASSUME NEW k \in Networks, NEW p \in Owners, NEW u \in Tokens
      PROVE  c[k][p][u] = b[k][p][u]
                        - (IF k = n /\ p = from /\ u = t THEN m ELSE 0)
                        + (IF k = n /\ p = to /\ u = t THEN m ELSE 0)
  <2>1. b[k][p][u] \in Nat
    BY BalanceTyped
  <2>2. CASE k = n /\ p = from /\ u = t
    BY <1>1, <2>1, <2>2
  <2>3. CASE k = n /\ p = to /\ u = t
    BY <1>1, <2>1, <2>3
  <2>4. CASE k # n \/ (p # from /\ p # to) \/ u # t
    <3>1. c[k][p][u] = b[k][p][u]
      BY <1>1, <2>4 DEF KeptButFor
    <3>. QED  BY <2>1, <2>4, <3>1
  <2>. QED  BY <2>2, <2>3, <2>4
<1>. QED  BY <1>1, <1>2 DEF Flows

Paying == SendTransfer \/ SendClaim \/ SendSpend
Crediting == SendApprove \/ SendRate \/ SendBonus \/ SendNothing

(* Money that is sent, or claimed, moves from one account to another.      *)
LEMMA PayingFlows ==
    ASSUME CreditInv, Paying, NEW tx, tx = Head(todo)
    PROVE  /\ tx.kind \in {"transfer", "claim", "spend"} /\ todo # <<>>
           /\ tx.from # tx.to /\ balance' \in Balances
           /\ \E m \in Nat :
                 /\ m <= balance[tx.net][tx.from][tx.token]
                 /\ tx.kind \in {"transfer", "spend"} => m = tx.amount
                 /\ tx.kind = "claim" => m = balance[tx.net][tx.from][tx.token]
                 /\ Flows(balance, balance', tx.net, tx.from, tx.to, tx.token, m)
<1>1. todo # <<>>
  BY DEF Paying, SendTransfer, SendClaim, SendSpend, Sending
<1>2. /\ tx.amount \in Nat /\ tx.net \in Networks /\ tx.from \in Owners
      /\ tx.to \in Owners /\ tx.token \in Tokens /\ Sendable(tx)
      /\ balance[tx.net][tx.from][tx.token] \in Nat /\ balance \in Balances
  BY <1>1, HeadTyped DEF CreditInv, Typed
<1>3. /\ tx.kind \in {"transfer", "claim", "spend"}
      /\ \E m \in Nat :
                 /\ m <= balance[tx.net][tx.from][tx.token]
                 /\ tx.kind \in {"transfer", "spend"} => m = tx.amount
                 /\ tx.kind = "claim" => m = balance[tx.net][tx.from][tx.token]
                 /\ Move(tx, m)
  <2>1. CASE SendTransfer
    <3>1. tx.kind = "transfer" /\ Affordable(tx) /\ Move(tx, tx.amount)
      BY <2>1 DEF SendTransfer, Sending
    <3>2. tx.amount <= balance[tx.net][tx.from][tx.token]
      BY <1>2, <3>1 DEF Affordable, Enough
    <3>. QED  BY <1>2, <3>1, <3>2
  <2>2. CASE SendSpend
    <3>1. tx.kind = "spend" /\ Affordable(tx) /\ Move(tx, tx.amount)
      BY <2>2 DEF SendSpend, Sending
    <3>2. tx.amount <= balance[tx.net][tx.from][tx.token]
      BY <1>2, <3>1 DEF Affordable, Enough
    <3>. QED  BY <1>2, <3>1, <3>2
  <2>3. CASE SendClaim
    <3>1. tx.kind = "claim" /\ Move(tx, balance[tx.net][tx.from][tx.token])
      BY <2>3 DEF SendClaim, Sending
    <3>2. PICK m \in Nat : m = balance[tx.net][tx.from][tx.token]
      BY <1>2
    <3>3. m <= balance[tx.net][tx.from][tx.token] /\ Move(tx, m)
      BY <3>1, <3>2
    <3>. QED  BY <3>1, <3>2, <3>3
  <2>. QED  BY <2>1, <2>2, <2>3 DEF Paying
<1>4. PICK m \in Nat :
                 /\ m <= balance[tx.net][tx.from][tx.token]
                 /\ tx.kind \in {"transfer", "spend"} => m = tx.amount
                 /\ tx.kind = "claim" => m = balance[tx.net][tx.from][tx.token]
                 /\ Move(tx, m)
  BY <1>3
<1>5. tx.from # tx.to
  BY <1>2, <1>3 DEF Sendable
<1>6. PICK b, c : b = balance /\ c = balance'
  OBVIOUS
<1>7. PICK n, f, o, t : n = tx.net /\ f = tx.from /\ o = tx.to /\ t = tx.token
  OBVIOUS
<1>8. Moved(b, c, n, f, o, t, m)
  BY <1>4, <1>6, <1>7 DEF Move, Moved
<1>9. c \in Balances /\ Flows(b, c, n, f, o, t, m)
  <2>1. /\ b \in Balances /\ n \in Networks /\ f \in Owners /\ o \in Owners
        /\ t \in Tokens /\ f # o /\ m <= b[n][f][t]
    BY <1>2, <1>4, <1>5, <1>6, <1>7
  <2>. QED  BY <1>8, <2>1, MoveFlows
<1>10. balance' \in Balances
       /\ Flows(balance, balance', tx.net, tx.from, tx.to, tx.token, m)
  BY <1>6, <1>7, <1>9
<1>. QED  BY <1>1, <1>3, <1>4, <1>5, <1>10

(* Wrapped tokens are unwrapped by their owner.                            *)
LEMMA UnwrapFlows ==
    ASSUME CreditInv, SendUnwrap, NEW tx, tx = Head(todo)
    PROVE  /\ todo # <<>> /\ tx.kind = "unwrap" /\ tx.from = "signer" /\ tx.token = "wnt"
           /\ tx.net \in Networks /\ tx.amount \in Nat /\ balance' \in Balances
           /\ balance'[tx.net]["signer"]["wnt"] = balance[tx.net]["signer"]["wnt"] - tx.amount
           /\ balance'[tx.net]["signer"]["eth"] = balance[tx.net]["signer"]["eth"] + tx.amount
           /\ KeptButBoth(balance, balance', tx.net, "signer", "wnt", "eth")
<1>1. todo # <<>>
  BY DEF SendUnwrap, Sending
<1>2. /\ tx.amount \in Nat /\ tx.net \in Networks /\ Sendable(tx) /\ balance \in Balances
      /\ "signer" \in Owners /\ "wnt" \in Tokens /\ "eth" \in Tokens
  BY <1>1, HeadTyped DEF CreditInv, Typed, Owners, Places, Tokens
<1>3. tx.kind = "unwrap" /\ Affordable(tx) /\ Convert(tx, tx.amount, "eth", tx.amount)
  BY DEF SendUnwrap, Sending
<1>4. tx.from = "signer" /\ tx.token = "wnt"
  BY <1>2, <1>3 DEF Sendable
<1>5. PICK b, c, n, m : b = balance /\ c = balance' /\ n = tx.net /\ m = tx.amount
  OBVIOUS
<1>6. b[n]["signer"]["wnt"] \in Nat /\ m <= b[n]["signer"]["wnt"]
  <2>1. b[n]["signer"]["wnt"] \in Nat
    BY <1>2, <1>5, BalanceTyped
  <2>2. b[n]["signer"]["wnt"] >= m
    BY <1>3, <1>4, <1>5 DEF Affordable, Enough
  <2>. QED  BY <1>2, <1>5, <2>1, <2>2
<1>7. Converted(b, c, n, "signer", "wnt", "eth", m, m)
  BY <1>3, <1>4, <1>5 DEF Convert, Converted
<1>8. /\ c \in Balances /\ c[n]["signer"]["wnt"] = b[n]["signer"]["wnt"] - m
      /\ c[n]["signer"]["eth"] = b[n]["signer"]["eth"] + m
      /\ KeptButBoth(b, c, n, "signer", "wnt", "eth")
  BY <1>2, <1>5, <1>6, <1>7, ConvertEffect
<1>. QED  BY <1>1, <1>2, <1>3, <1>4, <1>5, <1>8

(* Native tokens: what the accounts of H hold of them, and the gas that    *)
(* keepers lack. The fee keeper holds some as gas.                         *)
Native(b, n) ==
    [o \in Owners |-> b[n][o]["wnt"] + IF o = "signer" THEN b[n][o]["eth"] ELSE 0]
NativeHeld(b, n, H) == SumFunctionOnSet(Native(b, n), H)
Costs(b, n) == KeeperCosts([k \in Keepers |-> b[n][k]["eth"]], Target)

(* The accounts of the fee keeper, and those a plan pays as well.          *)
Purse == {"feeHandler", "signer"}
Held == Purse \cup Payees
Holders(H) ==
    IsFiniteSet(H) /\ H \subseteq Owners /\ "signer" \in H /\ H \cap Keepers = {}

LEMMA HoldersFinite == Holders(Purse) /\ Holders(Held) /\ Purse \subseteq Held
<1>1. IsFiniteSet(Purse)
  <2>1. IsFiniteSet({"feeHandler"}) /\ IsFiniteSet({"signer"})
    BY FS_Singleton
  <2>2. IsFiniteSet({"feeHandler"} \cup {"signer"})
    BY <2>1, FS_Union
  <2>3. Purse = {"feeHandler"} \cup {"signer"}
    BY DEF Purse
  <2>. QED  BY <2>2, <2>3
<1>2. IsFiniteSet(Held)
  <2>1. /\ IsFiniteSet({"treasury"}) /\ IsFiniteSet({"chainlink"})
        /\ IsFiniteSet({"glpDistributor"}) /\ IsFiniteSet({"wallet"})
    BY FS_Singleton
  <2>2. IsFiniteSet({"treasury"} \cup {"chainlink"})
    BY <2>1, FS_Union
  <2>3. IsFiniteSet({"glpDistributor"} \cup {"wallet"})
    BY <2>1, FS_Union
  <2>4. IsFiniteSet(({"treasury"} \cup {"chainlink"})
                       \cup ({"glpDistributor"} \cup {"wallet"}))
    BY <2>2, <2>3, FS_Union
  <2>5. IsFiniteSet(Purse \cup Recipients)
    BY <1>1, AccountsAssumption, FS_Union
  <2>6. IsFiniteSet((Purse \cup Recipients)
           \cup (({"treasury"} \cup {"chainlink"})
                       \cup ({"glpDistributor"} \cup {"wallet"})))
    BY <2>4, <2>5, FS_Union
  <2>7. Held = (Purse \cup Recipients)
           \cup (({"treasury"} \cup {"chainlink"})
                       \cup ({"glpDistributor"} \cup {"wallet"}))
    BY DEF Held, Payees
  <2>. QED  BY <2>6, <2>7
<1>3. Held \subseteq Places \cup Recipients
  BY DEF Held, Purse, Payees, Places
<1>. QED  BY <1>1, <1>2, <1>3, AccountsAssumption DEF Holders, Held, Purse, Owners

LEMMA NativeTyped ==
    ASSUME NEW b \in Balances, NEW n \in Networks, NEW H, Holders(H)
    PROVE  /\ \A o \in Owners : Native(b, n)[o] \in Nat
           /\ \A o \in H : Native(b, n)[o] \in Nat /\ Native(b, n)[o] \in Int
           /\ NativeHeld(b, n, H) \in Nat
<1>1. ASSUME NEW o \in Owners PROVE Native(b, n)[o] \in Nat
  <2>1. b[n][o]["wnt"] \in Nat /\ b[n][o]["eth"] \in Nat
    BY BalanceTyped DEF Tokens
  <2>. QED  BY <2>1 DEF Native
<1>2. \A o \in H : Native(b, n)[o] \in Nat /\ Native(b, n)[o] \in Int
  BY <1>1 DEF Holders
<1>3. NativeHeld(b, n, H) \in Nat
  <2>1. IsFiniteSet(H)
    BY DEF Holders
  <2>2. SumFunctionOnSet(Native(b, n), H) \in Nat
    BY <1>2, <2>1, SumType
  <2>. QED  BY <2>2 DEF NativeHeld
<1>. QED  BY <1>1, <1>2, <1>3

LEMMA GasTyped ==
    ASSUME NEW b \in Balances, NEW n \in Networks
    PROVE  /\ \A k \in Keepers : /\ b[n][k]["eth"] \in Nat /\ Target[k] \in Nat
                                 /\ TopUp(b[n][k]["eth"], Target[k]) \in Nat
           /\ IsFiniteSet(Keepers)
           /\ Costs(b, n) = SumFunctionOnSet(
                  [k \in Keepers |-> TopUp(b[n][k]["eth"], Target[k])], Keepers)
           /\ Costs(b, n) \in Nat
<1>1. \A k \in Keepers : b[n][k]["eth"] \in Nat
  BY BalanceTyped, AccountsApart DEF Tokens
<1>2. Target \in [Keepers -> Nat] /\ IsFiniteSet(Keepers)
  BY AccountsAssumption
<1>3. \A k \in Keepers : TopUp(b[n][k]["eth"], Target[k]) \in Nat
  BY <1>1, <1>2 DEF TopUp
<1> DEFINE f == [k \in Keepers |-> TopUp(b[n][k]["eth"], Target[k])]
<1>4. \A k \in Keepers : f[k] \in Nat
  BY <1>3
<1>5. Costs(b, n) = SumFunctionOnSet(f, Keepers)
  <2>1. DOMAIN Target = Keepers
    BY <1>2
  <2>2. [k \in DOMAIN Target |->
            TopUp([j \in Keepers |-> b[n][j]["eth"]][k], Target[k])] = f
    BY <2>1
  <2>3. DOMAIN f = Keepers
    OBVIOUS
  <2>4. Costs(b, n) = SumFunction(f)
    BY <2>2 DEF Costs, KeeperCosts
  <2>. QED  BY <2>3, <2>4 DEF SumFunction
<1>6. SumFunctionOnSet(f, Keepers) \in Nat
  <2>. HIDE DEF f
  <2>. QED  BY <1>2, <1>4, SumType
<1>. QED  BY <1>1, <1>2, <1>3, <1>5, <1>6

LEMMA CostsOfFuel ==
    ASSUME NEW n \in Networks
    PROVE  KeeperCosts(Fuel(n), Target) = Costs(balance, n)
  BY DEF Costs, Fuel

(* Nothing changes for accounts whose holdings stay the same.              *)
LEMMA NativeSame ==
    ASSUME NEW b \in Balances, NEW c \in Balances, NEW n \in Networks, NEW H, Holders(H),
           \A o \in H : Native(c, n)[o] = Native(b, n)[o]
    PROVE  NativeHeld(c, n, H) = NativeHeld(b, n, H)
<1>1. \A o \in H : Native(b, n)[o] \in Int /\ IsFiniteSet(H)
  BY NativeTyped DEF Holders
<1>2. IsFiniteSet(H)
  BY DEF Holders
<1>3. SumFunctionOnSet(Native(c, n), H) = SumFunctionOnSet(Native(b, n), H)
  BY <1>1, <1>2, SumEqual
<1>. QED  BY <1>3 DEF NativeHeld

LEMMA CostsSame ==
    ASSUME NEW b, NEW c, NEW n,
           \A k \in Keepers : c[n][k]["eth"] = b[n][k]["eth"]
    PROVE  Costs(c, n) = Costs(b, n)
<1>1. [k \in Keepers |-> c[n][k]["eth"]] = [k \in Keepers |-> b[n][k]["eth"]]
  OBVIOUS
<1>. QED  BY <1>1 DEF Costs

(* Native tokens, held or lacking, are as many after a transaction.        *)
Balanced(b, c, H) ==
    \A n \in Networks : NativeHeld(c, n, H) - Costs(c, n) = NativeHeld(b, n, H) - Costs(b, n)

LEMMA BalancedSame ==
    ASSUME NEW b \in Balances, NEW c \in Balances, NEW H, Holders(H),
           \A n \in Networks : \A o \in H : Native(c, n)[o] = Native(b, n)[o],
           \A n \in Networks : \A k \in Keepers : c[n][k]["eth"] = b[n][k]["eth"]
    PROVE  Balanced(b, c, H)
<1>1. ASSUME NEW n \in Networks
      PROVE  NativeHeld(c, n, H) - Costs(c, n) = NativeHeld(b, n, H) - Costs(b, n)
  <2>1. NativeHeld(c, n, H) = NativeHeld(b, n, H)
    BY NativeSame
  <2>2. Costs(c, n) = Costs(b, n)
    BY CostsSame
  <2>. QED  BY <2>1, <2>2
<1>. QED  BY <1>1 DEF Balanced

(* Wrapped tokens sent among the accounts of H.                            *)
LEMMA BalancedMove ==
    ASSUME NEW b \in Balances, NEW c \in Balances, NEW H, Holders(H),
           NEW n \in Networks, NEW from \in H, NEW to \in H, from # to, NEW m \in Nat,
           Flows(b, c, n, from, to, "wnt", m)
    PROVE  Balanced(b, c, H)
<1>1. "wnt" \in Tokens /\ "eth" \in Tokens /\ H \subseteq Owners /\ IsFiniteSet(H)
  BY DEF Tokens, Holders
<1>2. ASSUME NEW k \in Networks
      PROVE  NativeHeld(c, k, H) - Costs(c, k) = NativeHeld(b, k, H) - Costs(b, k)
  <2>1. Costs(c, k) = Costs(b, k)
    <3>1. ASSUME NEW j \in Keepers PROVE c[k][j]["eth"] = b[k][j]["eth"]
      <4>1. j \in Owners /\ b[k][j]["eth"] \in Nat
        BY <1>1, AccountsApart, BalanceTyped
      <4>. QED  BY <1>1, <4>1 DEF Flows
    <3>. QED  BY <3>1, CostsSame
  <2> DEFINE f == Native(b, k)
             g == Native(c, k)
             d == IF k = n THEN m ELSE 0
  <2>2. ASSUME NEW x \in H
        PROVE  /\ f[x] \in Int
               /\ g[x] = f[x] + (IF x = to THEN d ELSE 0) - (IF x = from THEN d ELSE 0)
    <3>1. x \in Owners /\ b[k][x]["wnt"] \in Nat /\ b[k][x]["eth"] \in Nat
      BY <1>1, BalanceTyped
    <3>2. c[k][x]["eth"] = b[k][x]["eth"]
      BY <1>1, <3>1 DEF Flows
    <3>3. c[k][x]["wnt"] = b[k][x]["wnt"] - (IF k = n /\ x = from THEN m ELSE 0)
                                + (IF k = n /\ x = to THEN m ELSE 0)
      BY <1>1, <3>1 DEF Flows
    <3>. QED  BY <3>1, <3>2, <3>3 DEF Native
  <2>. HIDE DEF f, g
  <2>3. Moves(H, f, g, to, from, d) /\ d \in Int
    BY <2>2 DEF Moves
  <2>. HIDE DEF d
  <2>4. SumFunctionOnSet(g, H) = SumFunctionOnSet(f, H)
    BY <1>1, <2>3, SumMove
  <2>. QED  BY <2>1, <2>4 DEF NativeHeld, f, g
<1>. QED  BY <1>2 DEF Balanced

(* Gas sent to a keeper that lacks as much.                                *)
LEMMA BalancedGas ==
    ASSUME NEW b \in Balances, NEW c \in Balances, NEW H, Holders(H),
           NEW n \in Networks, NEW k \in Keepers, NEW m \in Nat,
           b[n][k]["eth"] + m <= Target[k],
           Flows(b, c, n, "signer", k, "eth", m)
    PROVE  Balanced(b, c, H)
<1>1. /\ "wnt" \in Tokens /\ "eth" \in Tokens /\ H \subseteq Owners /\ IsFiniteSet(H)
      /\ "signer" \in H /\ k \notin H /\ k \in Owners /\ k # "signer"
      /\ \A j \in Keepers : j \in Owners /\ j # "signer"
  BY AccountsApart DEF Tokens, Holders
<1>2. ASSUME NEW i \in Networks
      PROVE  NativeHeld(c, i, H) - Costs(c, i) = NativeHeld(b, i, H) - Costs(b, i)
  <2> DEFINE d == IF i = n THEN m ELSE 0
             f == Native(b, i)
             g == Native(c, i)
             p == [j \in Keepers |-> TopUp(b[i][j]["eth"], Target[j])]
             q == [j \in Keepers |-> TopUp(c[i][j]["eth"], Target[j])]
  <2>1. d \in Nat
    OBVIOUS
  <2>2. ASSUME NEW x \in H
        PROVE  f[x] \in Int /\ g[x] = f[x] - (IF x = "signer" THEN d ELSE 0)
    <3>1. x \in Owners /\ b[i][x]["wnt"] \in Nat /\ b[i][x]["eth"] \in Nat /\ x # k
      BY <1>1, BalanceTyped
    <3>2. c[i][x]["wnt"] = b[i][x]["wnt"]
      BY <1>1, <3>1 DEF Flows
    <3>3. c[i][x]["eth"] = b[i][x]["eth"] - (IF i = n /\ x = "signer" THEN m ELSE 0)
      BY <1>1, <3>1 DEF Flows
    <3>. QED  BY <3>1, <3>2, <3>3 DEF Native
  <2>3. ASSUME NEW j \in Keepers
        PROVE  p[j] \in Nat /\ q[j] = p[j] - (IF j = k THEN d ELSE 0)
    <3>1. j \in Owners /\ b[i][j]["eth"] \in Nat /\ Target[j] \in Nat
      BY <1>1, BalanceTyped, GasTyped
    <3>2. c[i][j]["eth"] = b[i][j]["eth"] + (IF i = n /\ j = k THEN m ELSE 0)
      BY <1>1, <3>1 DEF Flows
    <3>. QED  BY <3>1, <3>2 DEF TopUp
  <2>4. /\ NativeHeld(c, i, H) = SumFunctionOnSet(g, H)
        /\ NativeHeld(b, i, H) = SumFunctionOnSet(f, H)
        /\ Costs(c, i) = SumFunctionOnSet(q, Keepers)
        /\ Costs(b, i) = SumFunctionOnSet(p, Keepers)
        /\ IsFiniteSet(Keepers)
    BY GasTyped DEF NativeHeld
  <2>. HIDE DEF f, g, p, q, d
  <2>5. \A x \in H : f[x] \in Int /\ g[x] \in Int /\ (x # "signer" => g[x] = f[x])
    BY <2>1, <2>2
  <2>6. SumFunctionOnSet(g, H) = SumFunctionOnSet(f, H) + (g["signer"] - f["signer"])
    <3>1. PICK y : y = "signer"
      OBVIOUS
    <3>2. y \in H /\ \A x \in H : f[x] \in Int /\ g[x] \in Int /\ (x # y => g[x] = f[x])
      BY <1>1, <2>5, <3>1
    <3>3. SumFunctionOnSet(g, H) = SumFunctionOnSet(f, H) + (g[y] - f[y])
      BY <1>1, <3>2, SumChange
    <3>. QED  BY <3>1, <3>3
  <2>7. \A j \in Keepers : p[j] \in Int /\ q[j] \in Int /\ (j # k => q[j] = p[j])
    BY <2>1, <2>3
  <2>8. SumFunctionOnSet(q, Keepers) = SumFunctionOnSet(p, Keepers) + (q[k] - p[k])
    BY <2>4, <2>7, SumChange
  <2>9. /\ SumFunctionOnSet(f, H) \in Int /\ SumFunctionOnSet(p, Keepers) \in Int
        /\ f["signer"] \in Int /\ p[k] \in Int
    BY <1>1, <2>4, <2>5, <2>7, SumType
  <2>10. g["signer"] = f["signer"] - d /\ q[k] = p[k] - d
    BY <1>1, <2>2, <2>3
  <2>. QED  BY <2>1, <2>4, <2>6, <2>8, <2>9, <2>10
<1>. QED  BY <1>2 DEF Balanced

(* Gas that a keeper burns is lacking afterwards.                          *)
LEMMA BurnBalance ==
    ASSUME NEW b \in Balances, NEW c \in Balances, NEW H, Holders(H),
           NEW n \in Networks, NEW k \in Keepers, b[n][k]["eth"] > 0,
           c[n][k]["eth"] = b[n][k]["eth"] - 1, KeptElsewhere(b, c, n, k, "eth"),
           NEW i \in Networks
    PROVE  /\ NativeHeld(c, i, H) = NativeHeld(b, i, H)
           /\ Costs(c, i) <= Costs(b, i) + (IF i = n THEN 1 ELSE 0)
<1>1. /\ "wnt" \in Tokens /\ "eth" \in Tokens /\ H \subseteq Owners
      /\ k \notin H /\ k \in Owners /\ \A j \in Keepers : j \in Owners
  BY AccountsApart DEF Tokens, Holders
<1>2. NativeHeld(c, i, H) = NativeHeld(b, i, H)
  <2>1. ASSUME NEW o \in H PROVE Native(c, i)[o] = Native(b, i)[o]
    <3>1. c[i][o]["wnt"] = b[i][o]["wnt"] /\ c[i][o]["eth"] = b[i][o]["eth"]
      BY <1>1 DEF KeptElsewhere
    <3>. QED  BY <1>1, <3>1 DEF Native
  <2>. QED  BY <2>1, NativeSame
<1>3. Costs(c, i) <= Costs(b, i) + (IF i = n THEN 1 ELSE 0)
  <2> DEFINE p == [j \in Keepers |-> TopUp(b[i][j]["eth"], Target[j])]
             q == [j \in Keepers |-> TopUp(c[i][j]["eth"], Target[j])]
             d == IF i = n THEN 1 ELSE 0
  <2>1. ASSUME NEW j \in Keepers
        PROVE  p[j] \in Nat /\ q[j] \in Nat /\ (j # k => q[j] = p[j])
               /\ q[j] <= p[j] + d
    <3>1. j \in Owners /\ b[i][j]["eth"] \in Nat /\ Target[j] \in Nat
      BY <1>1, BalanceTyped, GasTyped
    <3>2. CASE i = n /\ j = k
      BY <3>1, <3>2 DEF TopUp
    <3>3. CASE ~(i = n /\ j = k)
      <4>1. c[i][j]["eth"] = b[i][j]["eth"]
        BY <1>1, <3>1, <3>3 DEF KeptElsewhere
      <4>. QED  BY <3>1, <4>1 DEF TopUp
    <3>. QED  BY <3>2, <3>3
  <2>2. /\ Costs(c, i) = SumFunctionOnSet(q, Keepers)
        /\ Costs(b, i) = SumFunctionOnSet(p, Keepers)
        /\ IsFiniteSet(Keepers) /\ d \in Int
    BY GasTyped
  <2>. HIDE DEF p, q
  <2>3. \A j \in Keepers : p[j] \in Int /\ q[j] \in Int /\ (j # k => q[j] = p[j])
    BY <2>1
  <2>4. SumFunctionOnSet(q, Keepers) = SumFunctionOnSet(p, Keepers) + (q[k] - p[k])
    BY <2>2, <2>3, SumChange
  <2>5. SumFunctionOnSet(p, Keepers) \in Int
    BY <2>2, <2>3, SumType
  <2>6. q[k] <= p[k] + d /\ p[k] \in Int /\ q[k] \in Int
    BY <2>1
  <2>. QED  BY <2>2, <2>4, <2>5, <2>6
<1>. QED  BY <1>2, <1>3

(* The transactions of distributeFees: native tokens stay among accounts   *)
(* of H, and none come back to the handler.                                *)
Weekly == program = "distributeFees"
Within(tx, H) ==
    /\ tx.kind \notin {"swap", "excess"} /\ tx.to # "feeHandler"
    /\ tx.token = "wnt" /\ tx.kind \in {"transfer", "claim", "spend"}
          => tx.from \in H /\ tx.to \in H
ListWithin(s, H) == \A i \in 1..Len(s) : Within(s[i], H)

LEMMA SendOne ==
    ASSUME CreditInv, Send
    PROVE  /\ todo # <<>> /\ todo' = Tail(todo) /\ Head(todo) = todo[1]
           /\ Paying \/ SendUnwrap \/ SendSwap \/ SendExcess \/ Crediting
           /\ UNCHANGED <<program, plan, files, crashes, repeated, spent, bridge, now,
                          next, running>>
<1>1. Paying \/ SendUnwrap \/ SendSwap \/ SendExcess \/ Crediting
  BY DEF Send, Paying, Crediting
<1>2. todo # <<>> /\ Sent
  BY DEF Send, SendTransfer, SendClaim, SendSpend, SendUnwrap, SendSwap, SendExcess,
         SendApprove, SendRate, SendBonus, SendNothing, Sending
<1>. QED  BY <1>1, <1>2, HeadTyped DEF Sent, planVars, historyVars, CreditInv

LEMMA SendBalanced ==
    ASSUME CreditInv, GasList, Send, NEW H, Holders(H), Within(todo[1], H)
    PROVE  Balanced(balance, balance', H) /\ balance' \in Balances
<1>1. PICK tx : tx = Head(todo)
  OBVIOUS
<1>2. /\ todo # <<>> /\ tx = todo[1] /\ Sendable(tx) /\ tx.net \in Networks
      /\ tx.from \in Owners /\ tx.to \in Owners /\ tx.token \in Tokens
      /\ tx.amount \in Nat /\ balance \in Balances /\ Within(tx, H)
  BY <1>1, SendOne, HeadTyped DEF CreditInv, Typed
<1>3. "wnt" \in Tokens /\ "eth" \in Tokens /\ H \subseteq Owners
  BY DEF Tokens, Holders
<1>4. CASE Paying
  <2>1. /\ tx.kind \in {"transfer", "claim", "spend"}
        /\ tx.from # tx.to /\ balance' \in Balances
        /\ \E m \in Nat :
                 /\ m <= balance[tx.net][tx.from][tx.token]
                 /\ tx.kind \in {"transfer", "spend"} => m = tx.amount
                 /\ tx.kind = "claim" => m = balance[tx.net][tx.from][tx.token]
                 /\ Flows(balance, balance', tx.net, tx.from, tx.to, tx.token, m)
    BY <1>1, <1>4, PayingFlows
  <2>2. PICK m \in Nat :
                 /\ tx.kind \in {"transfer", "spend"} => m = tx.amount
                 /\ Flows(balance, balance', tx.net, tx.from, tx.to, tx.token, m)
    BY <2>1
  <2>3. PICK b, c, n, f, o, t :
            /\ b = balance /\ c = balance' /\ n = tx.net /\ f = tx.from
            /\ o = tx.to /\ t = tx.token
    OBVIOUS
  <2>4. /\ b \in Balances /\ c \in Balances /\ n \in Networks /\ f \in Owners
        /\ o \in Owners /\ t \in Tokens /\ f # o
        /\ Flows(b, c, n, f, o, t, m)
    BY <1>2, <2>1, <2>2, <2>3
  <2>5. CASE t = "wnt"
    <3>1. f \in H /\ o \in H
      BY <1>2, <2>1, <2>3, <2>5 DEF Within
    <3>2. Flows(b, c, n, f, o, "wnt", m)
      BY <2>4, <2>5
    <3>3. Balanced(b, c, H)
      BY <2>4, <3>1, <3>2, BalancedMove
    <3>. QED  BY <2>1, <2>3, <3>3
  <2>6. CASE t = "eth"
    <3>1. f = "signer" /\ o \in Keepers /\ tx.kind = "transfer" /\ m = tx.amount
      BY <1>2, <2>2, <2>3, <2>6 DEF Sendable
    <3>2. b[n][o]["eth"] + m <= Target[o]
      <4>1. 1 \in 1..Len(todo) /\ IsGas(todo[1])
        BY <1>2, <2>3, <2>6 DEF CreditInv, Typed, IsGas
      <4>2. balance[todo[1].net][todo[1].to]["eth"] + todo[1].amount <= Target[todo[1].to]
        BY <4>1 DEF GasList, GasFits
      <4>. QED  BY <1>2, <2>3, <3>1, <4>2
    <3>3. Flows(b, c, n, "signer", o, "eth", m)
      BY <2>4, <2>6, <3>1
    <3>4. Balanced(b, c, H)
      BY <2>4, <3>1, <3>2, <3>3, BalancedGas
    <3>. QED  BY <2>1, <2>3, <3>4
  <2>7. CASE t # "wnt" /\ t # "eth"
    <3>1. ASSUME NEW k \in Networks, NEW p \in Owners
          PROVE  c[k][p]["wnt"] = b[k][p]["wnt"] /\ c[k][p]["eth"] = b[k][p]["eth"]
      <4>1. b[k][p]["wnt"] \in Nat /\ b[k][p]["eth"] \in Nat
        BY <1>3, <2>4, BalanceTyped
      <4>. QED  BY <1>3, <2>4, <2>7, <4>1 DEF Flows
    <3>2. \A k \in Networks : \A p \in H : Native(c, k)[p] = Native(b, k)[p]
      BY <1>3, <3>1 DEF Native
    <3>3. \A k \in Networks : \A p \in Keepers : c[k][p]["eth"] = b[k][p]["eth"]
      BY <3>1, AccountsApart
    <3>4. Balanced(b, c, H)
      BY <2>4, <3>2, <3>3, BalancedSame
    <3>. QED  BY <2>1, <2>3, <3>4
  <2>. QED  BY <2>5, <2>6, <2>7
<1>5. CASE SendUnwrap
  <2>1. PICK b, c, n, a : b = balance /\ c = balance' /\ n = tx.net /\ a = tx.amount
    OBVIOUS
  <2>2. /\ n \in Networks /\ a \in Nat /\ c \in Balances /\ b \in Balances
        /\ c[n]["signer"]["wnt"] = b[n]["signer"]["wnt"] - a
        /\ c[n]["signer"]["eth"] = b[n]["signer"]["eth"] + a
        /\ KeptButBoth(b, c, n, "signer", "wnt", "eth")
    BY <1>1, <1>2, <1>5, <2>1, UnwrapFlows
  <2>3. ASSUME NEW k \in Networks, NEW p \in Owners, k # n \/ p # "signer"
        PROVE  c[k][p]["wnt"] = b[k][p]["wnt"] /\ c[k][p]["eth"] = b[k][p]["eth"]
    BY <1>3, <2>2, <2>3 DEF KeptButBoth
  <2>4. ASSUME NEW k \in Networks, NEW p \in H PROVE Native(c, k)[p] = Native(b, k)[p]
    <3>1. p \in Owners /\ b[k][p]["wnt"] \in Nat /\ b[k][p]["eth"] \in Nat
      BY <1>3, <2>2, BalanceTyped
    <3>2. CASE k = n /\ p = "signer"
      BY <2>2, <3>1, <3>2 DEF Native
    <3>3. CASE k # n \/ p # "signer"
      BY <2>3, <3>1, <3>3 DEF Native
    <3>. QED  BY <3>2, <3>3
  <2>5. \A k \in Networks : \A p \in Keepers : c[k][p]["eth"] = b[k][p]["eth"]
    <3>1. \A p \in Keepers : p \in Owners /\ p # "signer"
      BY AccountsApart DEF Sources
    <3>. QED  BY <2>3, <3>1
  <2>6. Balanced(b, c, H)
    BY <2>2, <2>4, <2>5, BalancedSame
  <2>. QED  BY <2>1, <2>2, <2>6
<1>6. CASE SendSwap \/ SendExcess
  <2>1. tx.kind \in {"swap", "excess"}
    BY <1>1, <1>6 DEF SendSwap, SendExcess, Sending
  <2>. QED  BY <1>2, <2>1 DEF Within
<1>7. CASE Crediting
  <2>1. balance' = balance
    BY <1>7 DEF Crediting, SendApprove, SendRate, SendBonus, SendNothing, ledgerVars
  <2>2. PICK b, c : b = balance /\ c = balance'
    OBVIOUS
  <2>3. b \in Balances /\ c \in Balances /\ c = b
    BY <1>2, <2>1, <2>2
  <2>4. Balanced(b, c, H)
    BY <2>3, BalancedSame
  <2>. QED  BY <2>2, <2>3, <2>4
<1>8. Paying \/ SendUnwrap \/ SendSwap \/ SendExcess \/ Crediting
  BY SendOne
<1>. QED  BY <1>4, <1>5, <1>6, <1>7, <1>8

(* The handler only gives native tokens away, all of them to a claim.      *)
IsClaim(tx, n) ==
    tx.kind = "claim" /\ tx.net = n /\ tx.from = "feeHandler" /\ tx.token = "wnt"
LEMMA HandlerLoses ==
    ASSUME CreditInv, Send, NEW H, Within(todo[1], H), NEW n \in Networks
    PROVE  /\ balance[n]["feeHandler"]["wnt"] \in Nat
           /\ balance'[n]["feeHandler"]["wnt"] \in Nat
           /\ balance'[n]["feeHandler"]["wnt"] <= balance[n]["feeHandler"]["wnt"]
           /\ IsClaim(todo[1], n) => balance'[n]["feeHandler"]["wnt"] = 0
<1>1. PICK tx : tx = Head(todo)
  OBVIOUS
<1>2. /\ todo # <<>> /\ tx = todo[1] /\ Sendable(tx) /\ tx.net \in Networks
      /\ tx.from \in Owners /\ tx.to \in Owners /\ tx.token \in Tokens
      /\ tx.amount \in Nat /\ balance \in Balances /\ Within(tx, H)
  BY <1>1, SendOne, HeadTyped DEF CreditInv, Typed
<1>3. "wnt" \in Tokens /\ "feeHandler" \in Owners /\ "feeHandler" # "signer"
  BY DEF Tokens, Owners, Places
<1>4. balance[n]["feeHandler"]["wnt"] \in Nat
  BY <1>2, <1>3, BalanceTyped
<1>5. CASE Paying
  <2>1. /\ tx.kind \in {"transfer", "claim", "spend"}
        /\ tx.from # tx.to /\ balance' \in Balances
        /\ \E m \in Nat :
                 /\ m <= balance[tx.net][tx.from][tx.token]
                 /\ tx.kind \in {"transfer", "spend"} => m = tx.amount
                 /\ tx.kind = "claim" => m = balance[tx.net][tx.from][tx.token]
                 /\ Flows(balance, balance', tx.net, tx.from, tx.to, tx.token, m)
    BY <1>1, <1>5, PayingFlows
  <2>2. PICK m \in Nat :
                 /\ m <= balance[tx.net][tx.from][tx.token]
                 /\ tx.kind = "claim" => m = balance[tx.net][tx.from][tx.token]
                 /\ Flows(balance, balance', tx.net, tx.from, tx.to, tx.token, m)
    BY <2>1
  <2>3. tx.to # "feeHandler"
    BY <1>2 DEF Within
  <2>4. balance'[n]["feeHandler"]["wnt"] = balance[n]["feeHandler"]["wnt"]
            - (IF n = tx.net /\ "feeHandler" = tx.from /\ "wnt" = tx.token THEN m ELSE 0)
    BY <1>3, <1>4, <2>2, <2>3 DEF Flows
  <2>5. IsClaim(tx, n) => m = balance[n]["feeHandler"]["wnt"]
    BY <2>2 DEF IsClaim
  <2>. QED  BY <1>2, <1>4, <2>2, <2>4, <2>5 DEF IsClaim
<1>6. CASE SendUnwrap
  <2>1. balance'[n]["feeHandler"]["wnt"] = balance[n]["feeHandler"]["wnt"]
        /\ tx.kind = "unwrap"
    BY <1>1, <1>3, <1>6, UnwrapFlows DEF KeptButBoth
  <2>. QED  BY <1>2, <1>4, <2>1 DEF IsClaim
<1>7. CASE SendSwap \/ SendExcess
  <2>1. tx.kind \in {"swap", "excess"}
    BY <1>1, <1>7 DEF SendSwap, SendExcess, Sending
  <2>. QED  BY <1>2, <2>1 DEF Within
<1>8. CASE Crediting
  <2>1. balance' = balance /\ tx.kind # "claim"
    BY <1>1, <1>8
    DEF Crediting, SendApprove, SendRate, SendBonus, SendNothing, ledgerVars, Sending
  <2>. QED  BY <1>2, <1>4, <2>1 DEF IsClaim
<1>9. Paying \/ SendUnwrap \/ SendSwap \/ SendExcess \/ Crediting
  BY SendOne
<1>. QED  BY <1>5, <1>6, <1>7, <1>8, <1>9

(* The parts of the list of referral rewards.                              *)
Rebated(n) == DOMAIN files[n].affiliates \ {Zero}
Discounted(n) == DOMAIN files[n].referrals \ {Zero}
EsRewarded(n) == EsGmxReceivers(files[n], Zero)
Rebate(n, a) == AffiliateAmount(files[n], a, RewardPrice(n))
Discount(n, t) == DiscountAmount(files[n], t, RewardPrice(n))
EsReward(n, a) == EsGmxAmount(files[n], a, Settings.gmxPrice)

ChecksPart(n) ==
    <<Tx("require", n, "signer", "signer", "wnt", NativeReferrals(n)),
      Tx("require", n, "wallet", "wallet", "esGmx", EsGmxReferrals(n)),
      Pay(n, "wallet", "wnt", NativeReferrals(n)),
      Tx("approve", n, "wallet", "wallet", "wnt", NativeReferrals(n))>>
RebatesPart(n) ==
    Each(Rebated(n), LAMBDA a : FromWallet(n, a, "wnt", Rebate(n, a)))
DiscountsPart(n) ==
    Each(Discounted(n), LAMBDA t : FromWallet(n, t, "wnt", Discount(n, t)))
ApprovalPart(n) ==
    <<Tx("approve", n, "wallet", "wallet", "esGmx", EsGmxReferrals(n))>>
EsPart(n) ==
    EachPair(EsRewarded(n), LAMBDA a : FromWallet(n, a, "esGmx", EsReward(n, a)),
             LAMBDA a : Tx("bonus", n, "wallet", a, "esGmx", EsReward(n, a)))

LEMMA ReferralParts ==
    ASSUME NEW n
    PROVE  Referrals(n) = (((ChecksPart(n) \o RebatesPart(n)) \o DiscountsPart(n))
                              \o ApprovalPart(n)) \o EsPart(n)
  BY DEF Referrals, ChecksPart, RebatesPart, DiscountsPart, ApprovalPart, EsPart,
         Rebated, Discounted, EsRewarded, Rebate, Discount, EsReward

LEMMA RewardedAccounts ==
    ASSUME Ready, NEW n \in Networks
    PROVE  /\ IsFiniteSet(Rebated(n)) /\ Rebated(n) \subseteq Recipients
           /\ IsFiniteSet(Discounted(n)) /\ Discounted(n) \subseteq Recipients
           /\ IsFiniteSet(EsRewarded(n)) /\ EsRewarded(n) \subseteq Recipients
           /\ \A a \in Rebated(n) : Rebate(n, a) \in Nat
           /\ \A a \in Discounted(n) : Discount(n, a) \in Nat
           /\ \A a \in EsRewarded(n) : EsReward(n, a) \in Nat
           /\ NativeReferrals(n) \in Nat /\ EsGmxReferrals(n) \in Nat
<1>1. /\ WellFormed(files[n]) /\ RewardPrice(n) \in Nat \ {0}
      /\ Settings.gmxPrice \in Nat \ {0}
  BY SettingsAssumption DEF Ready, RewardPrice
<1>2. /\ EsRewarded(n) \subseteq Rebated(n)
      /\ EsRewarded(n) \subseteq DOMAIN files[n].affiliates
  BY DEF EsRewarded, EsGmxReceivers, Rebated
<1>3. IsFiniteSet(DOMAIN files[n].affiliates) /\ IsFiniteSet(DOMAIN files[n].referrals)
  BY <1>1 DEF WellFormed
<1>4. Rebated(n) \subseteq Recipients /\ Discounted(n) \subseteq Recipients
  BY <1>1 DEF WellFormed, Rebated, Discounted
<1>5. IsFiniteSet(Rebated(n)) /\ IsFiniteSet(Discounted(n)) /\ IsFiniteSet(EsRewarded(n))
  <2>1. IsFiniteSet(Rebated(n)) /\ IsFiniteSet(Discounted(n))
    BY <1>3, FS_Subset DEF Rebated, Discounted
  <2>. QED  BY <1>2, <2>1, FS_Subset
<1>6. \A a \in DOMAIN files[n].affiliates : Rebate(n, a) \in Nat
  BY <1>1, RewardsTyped DEF Rebate
<1>7. \A a \in DOMAIN files[n].affiliates : EsReward(n, a) \in Nat
  BY <1>1, RewardsTyped DEF EsReward
<1>8. \A a \in DOMAIN files[n].referrals : Discount(n, a) \in Nat
  BY <1>1, RewardsTyped DEF Discount
<1>9. NativeReferrals(n) \in Nat
  BY <1>1, RewardsTyped DEF NativeReferrals
<1>10. EsGmxReferrals(n) \in Nat
  BY <1>1, RewardsTyped DEF EsGmxReferrals
<1>. QED
  BY <1>2, <1>4, <1>5, <1>6, <1>7, <1>8, <1>9, <1>10 DEF Rebated, Discounted

(* What is sent from the wallet.                                           *)
WalletSpends(n, token) ==
    {tx \in PlainTxs : /\ tx.kind = "spend" /\ tx.net = n /\ tx.from = "wallet"
                       /\ tx.token = token /\ tx.to \in Recipients}
WalletBonuses(n) ==
    {tx \in PlainTxs : /\ tx.kind = "bonus" /\ tx.net = n /\ tx.from = "wallet"
                       /\ tx.token = "esGmx" /\ tx.to \in Recipients}

LEMMA FromWalletTyped ==
    ASSUME NEW n \in Networks, NEW a \in Recipients, NEW m \in Nat,
           NEW token \in {"wnt", "esGmx"}
    PROVE  /\ FromWallet(n, a, token, m) \in WalletSpends(n, token)
           /\ FromWallet(n, a, token, m).amount = m
           /\ Tx("bonus", n, "wallet", a, "esGmx", m) \in WalletBonuses(n)
<1>1. /\ {"spend", "bonus"} \subseteq Kinds /\ "wallet" \in Sources /\ a \in Owners
      /\ {"wnt", "esGmx"} \subseteq Tokens /\ "wallet" \in Spenders /\ a # "wallet"
  BY AccountsApart DEF Kinds, Sources, Tokens, Spenders
<1>2. FromWallet(n, a, token, m) \in PlainTxs
  BY <1>1, PlainTx DEF FromWallet
<1>3. Tx("bonus", n, "wallet", a, "esGmx", m) \in PlainTxs
  BY <1>1, PlainTx
<1>4. /\ FromWallet(n, a, token, m).kind = "spend" /\ FromWallet(n, a, token, m).net = n
      /\ FromWallet(n, a, token, m).from = "wallet" /\ FromWallet(n, a, token, m).to = a
      /\ FromWallet(n, a, token, m).token = token /\ FromWallet(n, a, token, m).amount = m
  BY DEF FromWallet, Tx
<1>5. FromWallet(n, a, token, m) \in WalletSpends(n, token)
  BY <1>2, <1>4 DEF WalletSpends
<1>6. /\ Tx("bonus", n, "wallet", a, "esGmx", m).kind = "bonus"
      /\ Tx("bonus", n, "wallet", a, "esGmx", m).net = n
      /\ Tx("bonus", n, "wallet", a, "esGmx", m).from = "wallet"
      /\ Tx("bonus", n, "wallet", a, "esGmx", m).to = a
      /\ Tx("bonus", n, "wallet", a, "esGmx", m).token = "esGmx"
  BY DEF Tx
<1>7. Tx("bonus", n, "wallet", a, "esGmx", m) \in WalletBonuses(n)
  BY <1>3, <1>6 DEF WalletBonuses
<1>. QED  BY <1>4, <1>5, <1>7

(* A list over a set, entry by entry.                                      *)
LEMMA SpendsMade ==
    ASSUME Ready, NEW n \in Networks
    PROVE  /\ RebatesPart(n) \in Seq(WalletSpends(n, "wnt"))
           /\ Len(RebatesPart(n)) = Cardinality(Rebated(n))
           /\ \A i \in 1..Cardinality(Rebated(n)) :
                 RebatesPart(n)[i].amount = Rebate(n, SetToSeq(Rebated(n))[i])
           /\ DiscountsPart(n) \in Seq(WalletSpends(n, "wnt"))
           /\ Len(DiscountsPart(n)) = Cardinality(Discounted(n))
           /\ \A i \in 1..Cardinality(Discounted(n)) :
                 DiscountsPart(n)[i].amount = Discount(n, SetToSeq(Discounted(n))[i])
<1>1. ASSUME NEW S, IsFiniteSet(S), S \subseteq Recipients, NEW d,
             \A a \in S : d[a] \in Nat, NEW s,
             s = [i \in 1..Cardinality(S) |->
                     FromWallet(n, SetToSeq(S)[i], "wnt", d[SetToSeq(S)[i]])]
      PROVE  /\ s \in Seq(WalletSpends(n, "wnt")) /\ Len(s) = Cardinality(S)
             /\ \A i \in 1..Cardinality(S) : s[i].amount = d[SetToSeq(S)[i]]
  <2>1. PICK q, N : q = SetToSeq(S) /\ N = Cardinality(S)
    OBVIOUS
  <2>2. N \in Nat /\ q \in [1..N -> S]
    BY <1>1, <2>1, Listing
  <2>3. s = [i \in 1..N |-> FromWallet(n, q[i], "wnt", d[q[i]])]
    BY <1>1, <2>1
  <2>4. ASSUME NEW i \in 1..N
        PROVE  s[i] \in WalletSpends(n, "wnt") /\ s[i].amount = d[q[i]]
    <3>1. q[i] \in Recipients /\ d[q[i]] \in Nat /\ "wnt" \in {"wnt", "esGmx"}
      BY <1>1, <2>2
    <3>2. s[i] = FromWallet(n, q[i], "wnt", d[q[i]])
      BY <2>3
    <3>. QED  BY <3>1, <3>2, FromWalletTyped
  <2>5. s \in [1..N -> WalletSpends(n, "wnt")]
    BY <2>3, <2>4
  <2>6. s \in Seq(WalletSpends(n, "wnt")) /\ Len(s) = N
    BY <2>2, <2>5
  <2>. QED  BY <2>1, <2>4, <2>6
<1>2. /\ RebatesPart(n) \in Seq(WalletSpends(n, "wnt"))
      /\ Len(RebatesPart(n)) = Cardinality(Rebated(n))
      /\ \A i \in 1..Cardinality(Rebated(n)) :
             RebatesPart(n)[i].amount = Rebate(n, SetToSeq(Rebated(n))[i])
  <2>1. PICK S : S = Rebated(n)
    OBVIOUS
  <2>2. PICK d : d = [a \in S |-> Rebate(n, a)]
    OBVIOUS
  <2>3. /\ IsFiniteSet(S) /\ S \subseteq Recipients /\ \A a \in S : d[a] \in Nat
        /\ \A a \in S : d[a] = Rebate(n, a)
    BY <2>1, <2>2, RewardedAccounts
  <2>4. \A i \in 1..Cardinality(S) : d[SetToSeq(S)[i]] = Rebate(n, SetToSeq(S)[i])
    BY <2>3, Listing
  <2>5. PICK s : s = RebatesPart(n)
    OBVIOUS
  <2>6. s = [i \in 1..Cardinality(S) |->
                FromWallet(n, SetToSeq(S)[i], "wnt", Rebate(n, SetToSeq(S)[i]))]
    BY <2>1, <2>5 DEF RebatesPart, Each
  <2>7. s = [i \in 1..Cardinality(S) |->
                FromWallet(n, SetToSeq(S)[i], "wnt", d[SetToSeq(S)[i]])]
    BY <2>4, <2>6
  <2>8. /\ s \in Seq(WalletSpends(n, "wnt")) /\ Len(s) = Cardinality(S)
        /\ \A i \in 1..Cardinality(S) : s[i].amount = d[SetToSeq(S)[i]]
    BY <1>1, <2>3, <2>7
  <2>. QED  BY <2>1, <2>4, <2>5, <2>8
<1>3. /\ DiscountsPart(n) \in Seq(WalletSpends(n, "wnt"))
      /\ Len(DiscountsPart(n)) = Cardinality(Discounted(n))
      /\ \A i \in 1..Cardinality(Discounted(n)) :
             DiscountsPart(n)[i].amount = Discount(n, SetToSeq(Discounted(n))[i])
  <2>1. PICK S : S = Discounted(n)
    OBVIOUS
  <2>2. PICK d : d = [a \in S |-> Discount(n, a)]
    OBVIOUS
  <2>3. /\ IsFiniteSet(S) /\ S \subseteq Recipients /\ \A a \in S : d[a] \in Nat
        /\ \A a \in S : d[a] = Discount(n, a)
    BY <2>1, <2>2, RewardedAccounts
  <2>4. \A i \in 1..Cardinality(S) : d[SetToSeq(S)[i]] = Discount(n, SetToSeq(S)[i])
    BY <2>3, Listing
  <2>5. PICK s : s = DiscountsPart(n)
    OBVIOUS
  <2>6. s = [i \in 1..Cardinality(S) |->
                FromWallet(n, SetToSeq(S)[i], "wnt", Discount(n, SetToSeq(S)[i]))]
    BY <2>1, <2>5 DEF DiscountsPart, Each
  <2>7. s = [i \in 1..Cardinality(S) |->
                FromWallet(n, SetToSeq(S)[i], "wnt", d[SetToSeq(S)[i]])]
    BY <2>4, <2>6
  <2>8. /\ s \in Seq(WalletSpends(n, "wnt")) /\ Len(s) = Cardinality(S)
        /\ \A i \in 1..Cardinality(S) : s[i].amount = d[SetToSeq(S)[i]]
    BY <1>1, <2>3, <2>7
  <2>. QED  BY <2>1, <2>4, <2>5, <2>8
<1>. QED  BY <1>2, <1>3

LEMMA EsMade ==
    ASSUME Ready, NEW n \in Networks
    PROVE  /\ EsPart(n) \in Seq(WalletSpends(n, "esGmx") \cup WalletBonuses(n))
           /\ Len(EsPart(n)) = 2 * Cardinality(EsRewarded(n))
           /\ \A i \in 1..Len(EsPart(n)) :
                 IF i % 2 = 1
                 THEN /\ EsPart(n)[i].kind = "spend"
                      /\ EsPart(n)[i].amount
                            = EsReward(n, SetToSeq(EsRewarded(n))[(i + 1) \div 2])
                 ELSE EsPart(n)[i].kind = "bonus"
<1>1. PICK S, q, N : S = EsRewarded(n) /\ q = SetToSeq(S) /\ N = Cardinality(S)
  OBVIOUS
<1>2. /\ IsFiniteSet(S) /\ S \subseteq Recipients /\ \A a \in S : EsReward(n, a) \in Nat
  BY <1>1, RewardedAccounts
<1>3. N \in Nat /\ q \in [1..N -> S]
  BY <1>1, <1>2, Listing
<1>4. PICK s : s = EsPart(n)
  OBVIOUS
<1>5. s = [i \in 1..2 * N |->
              IF i % 2 = 1
              THEN FromWallet(n, q[(i + 1) \div 2], "esGmx", EsReward(n, q[(i + 1) \div 2]))
              ELSE Tx("bonus", n, "wallet", q[(i + 1) \div 2], "esGmx",
                      EsReward(n, q[(i + 1) \div 2]))]
  BY <1>1, <1>4 DEF EsPart, EachPair
<1>6. ASSUME NEW i \in 1..2 * N
      PROVE  /\ s[i] \in WalletSpends(n, "esGmx") \cup WalletBonuses(n)
             /\ IF i % 2 = 1
                THEN s[i].kind = "spend" /\ s[i].amount = EsReward(n, q[(i + 1) \div 2])
                ELSE s[i].kind = "bonus"
  <2>1. PICK j : j = (i + 1) \div 2
    OBVIOUS
  <2>2. j \in 1..N
    BY <1>3, <2>1
  <2>3. PICK a, m : a = q[j] /\ m = EsReward(n, a)
    OBVIOUS
  <2>4. a \in Recipients /\ m \in Nat /\ "esGmx" \in {"wnt", "esGmx"}
    BY <1>2, <1>3, <2>2, <2>3
  <2>5. s[i] = IF i % 2 = 1 THEN FromWallet(n, a, "esGmx", m)
               ELSE Tx("bonus", n, "wallet", a, "esGmx", m)
    BY <1>5, <2>1, <2>3
  <2>6. /\ FromWallet(n, a, "esGmx", m) \in WalletSpends(n, "esGmx")
        /\ FromWallet(n, a, "esGmx", m).amount = m
        /\ Tx("bonus", n, "wallet", a, "esGmx", m) \in WalletBonuses(n)
    BY <2>4, FromWalletTyped
  <2>. QED  BY <2>1, <2>3, <2>5, <2>6 DEF WalletSpends, WalletBonuses
<1>7. s \in Seq(WalletSpends(n, "esGmx") \cup WalletBonuses(n)) /\ Len(s) = 2 * N
  <2>1. s \in [1..2 * N -> WalletSpends(n, "esGmx") \cup WalletBonuses(n)]
    BY <1>5, <1>6
  <2>. QED  BY <1>3, <2>1
<1>. QED  BY <1>1, <1>4, <1>6, <1>7

(* The lists of distributeFees.                                            *)
WithinTxs(H) == {tx \in AllTxs : Within(tx, H)}

(* Two lists, one after the other.                                         *)
LEMMA Joined ==
    ASSUME NEW T, NEW s \in Seq(T), NEW t \in Seq(T), NEW u, Joins(u, s, t)
    PROVE  /\ u \in Seq(T) /\ Len(u) = Len(s) + Len(t) /\ Len(s) \in Nat /\ Len(t) \in Nat
           /\ \A k \in 1..Len(s) : u[k] = s[k]
           /\ \A k \in 1..Len(t) : u[Len(s) + k] = t[k]
  BY DEF Joins

LEMMA WithinWider ==
    ASSUME NEW s \in Seq(WithinTxs(Purse))
    PROVE  s \in Seq(WithinTxs(Held))
<1>1. WithinTxs(Purse) \subseteq WithinTxs(Held)
  BY HoldersFinite DEF WithinTxs, Within
<1>. QED  BY <1>1

LEMMA PlainWithin ==
    ASSUME NEW tx \in PlainTxs, NEW H, tx.kind \notin {"swap", "excess"},
           tx.to # "feeHandler",
           tx.token = "wnt" /\ tx.kind \in {"transfer", "claim", "spend"}
               => tx.from \in H /\ tx.to \in H
    PROVE  tx \in WithinTxs(H)
  BY DEF PlainTxs, WithinTxs, Within

(* Gas: unwrapped, and sent to each keeper that lacks some.                *)
LEMMA GasMade ==
    ASSUME Ready, NEW n \in Networks
    PROVE  /\ Fund(n) = <<Tx("unwrap", n, "signer", "signer", "wnt", Costs(balance, n))>>
                            \o SendGas(n)
           /\ Tx("unwrap", n, "signer", "signer", "wnt", Costs(balance, n)) \in PlainTxs
           /\ Costs(balance, n) \in Nat
           /\ IsFiniteSet(Lacking(n)) /\ Lacking(n) \subseteq Keepers
           /\ SendGas(n) \in Seq(AllTxs) /\ Len(SendGas(n)) = Cardinality(Lacking(n))
           /\ \A i \in 1..Len(SendGas(n)) :
                 /\ SendGas(n)[i].kind = "transfer" /\ SendGas(n)[i].net = n
                 /\ SendGas(n)[i].from = "signer" /\ SendGas(n)[i].token = "eth"
                 /\ SendGas(n)[i].to = SetToSeq(Lacking(n))[i]
                 /\ SendGas(n)[i].to \in Keepers
                 /\ SendGas(n)[i].amount
                       = TopUp(Fuel(n)[SendGas(n)[i].to], Target[SendGas(n)[i].to])
<1>1. Costs(balance, n) = KeeperCosts(Fuel(n), Target) /\ Costs(balance, n) \in Nat
  BY CostsOfFuel, GasTyped DEF Ready
<1>2. Fund(n) = <<Tx("unwrap", n, "signer", "signer", "wnt", Costs(balance, n))>>
                            \o SendGas(n)
  BY <1>1 DEF Fund
<1>3. Tx("unwrap", n, "signer", "signer", "wnt", Costs(balance, n)) \in PlainTxs
  <2>1. /\ "unwrap" \in Kinds /\ "signer" \in Sources /\ "signer" \in Owners
        /\ "wnt" \in Tokens
    BY DEF Kinds, Sources, Owners, Places, Tokens
  <2>. QED  BY <1>1, <2>1, PlainTx
<1>4. PICK S, q, N : S = Lacking(n) /\ q = SetToSeq(S) /\ N = Cardinality(S)
  OBVIOUS
<1>5. IsFiniteSet(S) /\ S \subseteq Keepers
  <2>1. S \subseteq Keepers
    BY <1>4 DEF Lacking
  <2>. QED  BY <2>1, AccountsAssumption, FS_Subset
<1>6. N \in Nat /\ q \in [1..N -> S]
  BY <1>4, <1>5, Listing
<1>7. PICK s : s = SendGas(n)
  OBVIOUS
<1>8. s = [i \in 1..N |-> Pay(n, q[i], "eth", TopUp(Fuel(n)[q[i]], Target[q[i]]))]
  BY <1>4, <1>7 DEF SendGas, Each
<1>9. ASSUME NEW i \in 1..N
      PROVE  /\ s[i] \in AllTxs /\ s[i].kind = "transfer" /\ s[i].net = n
             /\ s[i].from = "signer" /\ s[i].token = "eth"
             /\ s[i].to = q[i] /\ s[i].to \in Keepers
             /\ s[i].amount = TopUp(Fuel(n)[s[i].to], Target[s[i].to])
  <2>1. PICK k, m : k = q[i] /\ m = TopUp(Fuel(n)[k], Target[k])
    OBVIOUS
  <2>2. k \in Keepers /\ m \in Nat
    BY <1>5, <1>6, <2>1, CostsTyped DEF Ready
  <2>3. /\ k \in Owners /\ k # "signer" /\ "transfer" \in Kinds
        /\ "signer" \in Sources /\ "eth" \in Tokens
    BY <2>2, AccountsApart DEF Kinds, Sources, Tokens
  <2>4. s[i] = Pay(n, k, "eth", m)
    BY <1>8, <2>1
  <2>5. /\ s[i].kind = "transfer" /\ s[i].net = n /\ s[i].from = "signer"
        /\ s[i].to = k /\ s[i].token = "eth" /\ s[i].amount = m
        /\ s[i] \in [kind : Kinds, net : Networks, from : Sources, to : Owners,
                     token : Tokens, amount : Nat]
    BY <2>2, <2>3, <2>4 DEF Pay, Tx
  <2>. QED  BY <2>1, <2>2, <2>3, <2>5 DEF AllTxs, Sendable
<1>10. s \in Seq(AllTxs) /\ Len(s) = N
  <2>1. s \in [1..N -> AllTxs]
    BY <1>8, <1>9
  <2>. QED  BY <1>6, <2>1
<1>. QED  BY <1>1, <1>2, <1>3, <1>4, <1>5, <1>7, <1>9, <1>10

LEMMA FundWithin ==
    ASSUME Ready, NEW n \in Networks
    PROVE  Fund(n) \in Seq(WithinTxs(Purse))
<1>1. PICK x : x = Tx("unwrap", n, "signer", "signer", "wnt", Costs(balance, n))
  OBVIOUS
<1>2. x \in WithinTxs(Purse)
  <2>1. x \in PlainTxs /\ x.kind = "unwrap" /\ x.to = "signer"
    BY <1>1, GasMade DEF Tx
  <2>. QED  BY <2>1, PlainWithin
<1>3. PICK s : s = SendGas(n)
  OBVIOUS
<1>4. s \in Seq(WithinTxs(Purse))
  <2>1. s \in Seq(AllTxs)
    BY <1>3, GasMade
  <2>2. ASSUME NEW i \in 1..Len(s) PROVE s[i] \in WithinTxs(Purse)
    <3>1. s[i].kind = "transfer" /\ s[i].token = "eth" /\ s[i].to \in Keepers
      BY <1>3, <2>2, GasMade
    <3>3. s[i] \in AllTxs
      BY <2>1, <2>2
    <3>2. s[i].to # "feeHandler"
      BY <3>1, AccountsApart DEF Sources
    <3>. QED  BY <3>1, <3>2, <3>3 DEF WithinTxs, Within
  <2>. QED  BY <2>1, <2>2
<1>5. Fund(n) = <<x>> \o s
  BY <1>1, <1>3, GasMade
<1>. QED  BY <1>2, <1>4, <1>5

LEMMA ClaimWithin ==
    ASSUME Ready, NEW n \in Networks
    PROVE  /\ ClaimBuyback(n) \in Seq(WithinTxs(Purse)) /\ Len(ClaimBuyback(n)) = 2
           /\ IsClaim(ClaimBuyback(n)[2], n)
<1>1. PICK a, b : /\ a = Tx("claim", n, "feeHandler", "signer", "gmx", 0)
                  /\ b = Tx("claim", n, "feeHandler", "signer", "wnt", 0)
  OBVIOUS
<1>2. /\ "claim" \in Kinds /\ "feeHandler" \in Sources /\ "signer" \in Owners
      /\ "gmx" \in Tokens /\ "wnt" \in Tokens
  BY DEF Kinds, Sources, Owners, Places, Tokens
<1>3. a \in PlainTxs /\ b \in PlainTxs
  BY <1>1, <1>2, PlainTx
<1>4. /\ a.kind = "claim" /\ a.to = "signer" /\ a.token = "gmx"
      /\ b.kind = "claim" /\ b.to = "signer" /\ b.from = "feeHandler"
      /\ b.token = "wnt" /\ b.net = n
  BY <1>1 DEF Tx
<1>5. a \in WithinTxs(Purse)
  BY <1>3, <1>4, PlainWithin
<1>6. b \in WithinTxs(Purse)
  BY <1>3, <1>4, PlainWithin DEF Purse
<1>7. ClaimBuyback(n) = <<a, b>>
  BY <1>1 DEF ClaimBuyback
<1>. QED  BY <1>4, <1>5, <1>6, <1>7 DEF IsClaim

LEMMA RewardWithin ==
    ASSUME NEW n \in Networks, NEW tracker \in Trackers, NEW token \in {"gmx", "wnt"},
           NEW amount \in Nat, NEW weekly \in Nat, NEW H,
           token = "wnt" => "signer" \in H /\ tracker \in H
    PROVE  Reward(n, tracker, token, amount, weekly) \in Seq(WithinTxs(H))
<1>1. PICK a, b : /\ a = Tx("transfer", n, "signer", tracker, token, amount)
                  /\ b = Tx("rate", n, "signer", tracker, token, weekly)
  OBVIOUS
<1>2. /\ "transfer" \in Kinds /\ "rate" \in Kinds /\ "signer" \in Sources
      /\ tracker \in Owners /\ tracker # "signer" /\ tracker # "feeHandler"
      /\ token \in Tokens /\ token # "eth"
  BY AccountsApart DEF Kinds, Sources, Tokens, Trackers
<1>3. a \in PlainTxs
  BY <1>1, <1>2, PlainTx
<1>4. b \in PlainTxs
  BY <1>1, <1>2, PlainTx
<1>5. /\ a.kind = "transfer" /\ a.from = "signer" /\ a.to = tracker /\ a.token = token
      /\ b.kind = "rate" /\ b.to = tracker
  BY <1>1 DEF Tx
<1>6. a \in WithinTxs(H) /\ b \in WithinTxs(H)
  BY <1>2, <1>3, <1>4, <1>5, PlainWithin
<1>7. Reward(n, tracker, token, amount, weekly) = <<a, b>>
  BY <1>1 DEF Reward, Pay
<1>. QED  BY <1>6, <1>7

LEMMA PaymentsWithin ==
    ASSUME Ready, NEW n \in Networks
    PROVE  Payments(n) \in Seq(WithinTxs(Held))
<1>1. PICK a, b : /\ a = Tx("transfer", n, "signer", "treasury", "wnt", plan.treasury[n])
                  /\ b = Tx("transfer", n, "signer", "chainlink", "wnt", plan.chainlink[n])
  OBVIOUS
<1>2. /\ "transfer" \in Kinds /\ "signer" \in Sources /\ "wnt" \in Tokens
      /\ "treasury" \in Owners /\ "chainlink" \in Owners
      /\ plan.treasury[n] \in Nat /\ plan.chainlink[n] \in Nat
  BY DEF Kinds, Sources, Tokens, Owners, Places, Ready, PlanTyped
<1>3. a \in PlainTxs
  BY <1>1, <1>2, PlainTx
<1>4. b \in PlainTxs
  BY <1>1, <1>2, PlainTx
<1>5. /\ a.kind = "transfer" /\ a.from = "signer" /\ a.to = "treasury"
      /\ b.kind = "transfer" /\ b.from = "signer" /\ b.to = "chainlink"
  BY <1>1 DEF Tx
<1>6. "signer" \in Held /\ "treasury" \in Held /\ "chainlink" \in Held
  BY DEF Held, Purse, Payees
<1>7. a \in WithinTxs(Held) /\ b \in WithinTxs(Held)
  BY <1>3, <1>4, <1>5, <1>6, PlainWithin
<1>8. Payments(n) = <<a, b>>
  BY <1>1 DEF Payments, Pay
<1>. QED  BY <1>7, <1>8

LEMMA ReferralsWithin ==
    ASSUME Ready, NEW n \in Networks
    PROVE  Referrals(n) \in Seq(WithinTxs(Held))
<1>1. /\ {"require", "transfer", "approve"} \subseteq Kinds
      /\ {"signer", "wallet"} \subseteq Sources /\ {"signer", "wallet"} \subseteq Owners
      /\ {"wnt", "esGmx"} \subseteq Tokens /\ "wallet" \in Spenders
      /\ {"signer", "wallet"} \subseteq Held /\ Recipients \subseteq Held
  BY DEF Kinds, Sources, Owners, Places, Tokens, Spenders, Held, Purse, Payees
<1>2. NativeReferrals(n) \in Nat /\ EsGmxReferrals(n) \in Nat
  BY RewardedAccounts
<1>3. ChecksPart(n) \in Seq(WithinTxs(Held)) /\ ApprovalPart(n) \in Seq(WithinTxs(Held))
  <2>1. PICK a, b, c, d, e :
            /\ a = Tx("require", n, "signer", "signer", "wnt", NativeReferrals(n))
            /\ b = Tx("require", n, "wallet", "wallet", "esGmx", EsGmxReferrals(n))
            /\ c = Tx("transfer", n, "signer", "wallet", "wnt", NativeReferrals(n))
            /\ d = Tx("approve", n, "wallet", "wallet", "wnt", NativeReferrals(n))
            /\ e = Tx("approve", n, "wallet", "wallet", "esGmx", EsGmxReferrals(n))
    OBVIOUS
  <2>2. a \in PlainTxs /\ b \in PlainTxs
    BY <1>1, <1>2, <2>1, PlainTx
  <2>3. c \in PlainTxs
    BY <1>1, <1>2, <2>1, PlainTx
  <2>4. d \in PlainTxs /\ e \in PlainTxs
    BY <1>1, <1>2, <2>1, PlainTx
  <2>5. /\ a.kind = "require" /\ a.to = "signer" /\ b.kind = "require" /\ b.to = "wallet"
        /\ c.kind = "transfer" /\ c.from = "signer" /\ c.to = "wallet"
        /\ d.kind = "approve" /\ d.to = "wallet" /\ e.kind = "approve" /\ e.to = "wallet"
    BY <2>1 DEF Tx
  <2>6. a \in WithinTxs(Held) /\ b \in WithinTxs(Held) /\ d \in WithinTxs(Held)
        /\ e \in WithinTxs(Held)
    BY <2>2, <2>4, <2>5, PlainWithin
  <2>7. c \in WithinTxs(Held)
    BY <1>1, <2>3, <2>5, PlainWithin
  <2>8. ChecksPart(n) = <<a, b, c, d>> /\ ApprovalPart(n) = <<e>>
    BY <2>1 DEF ChecksPart, ApprovalPart, Pay
  <2>. QED  BY <2>6, <2>7, <2>8
<1>4. \A a \in Recipients : a # "feeHandler"
  BY AccountsApart DEF Sources
<1>5. /\ WalletSpends(n, "wnt") \subseteq WithinTxs(Held)
      /\ WalletSpends(n, "esGmx") \subseteq WithinTxs(Held)
      /\ WalletBonuses(n) \subseteq WithinTxs(Held)
  <2>1. ASSUME NEW tx \in WalletSpends(n, "wnt") PROVE tx \in WithinTxs(Held)
    BY <1>1, <1>4, PlainWithin DEF WalletSpends
  <2>2. ASSUME NEW tx \in WalletSpends(n, "esGmx") PROVE tx \in WithinTxs(Held)
    BY <1>1, <1>4, PlainWithin DEF WalletSpends
  <2>3. ASSUME NEW tx \in WalletBonuses(n) PROVE tx \in WithinTxs(Held)
    BY <1>1, <1>4, PlainWithin DEF WalletBonuses
  <2>. QED  BY <2>1, <2>2, <2>3
<1>6. PICK x, s, t, y, u :
          /\ x = ChecksPart(n) /\ s = RebatesPart(n) /\ t = DiscountsPart(n)
          /\ y = ApprovalPart(n) /\ u = EsPart(n)
  OBVIOUS
<1>7. s \in Seq(WalletSpends(n, "wnt")) /\ t \in Seq(WalletSpends(n, "wnt"))
      /\ u \in Seq(WalletSpends(n, "esGmx") \cup WalletBonuses(n))
  BY <1>6, SpendsMade, EsMade
<1>8. s \in Seq(WithinTxs(Held)) /\ t \in Seq(WithinTxs(Held)) /\ u \in Seq(WithinTxs(Held))
  BY <1>5, <1>7
<1>9. x \in Seq(WithinTxs(Held)) /\ y \in Seq(WithinTxs(Held))
  BY <1>3, <1>6
<1>10. Referrals(n) = (((x \o s) \o t) \o y) \o u
  BY <1>6, ReferralParts
<1>. QED  BY <1>8, <1>9, <1>10

LEMMA WeeklySteps ==
    ASSUME Weekly, next \in Nat \ {0}, next <= Len(Steps)
    PROVE  /\ \/ next = 1 /\ Step = "withdraw"
              \/ next = 2 /\ Step = "fund"
              \/ next = 3 /\ Step = "gmx"
              \/ next = 4 /\ Step = "payments"
              \/ next = 5 /\ Step = "glp"
              \/ next = 6 /\ Step = "referrals"
           /\ Len(Steps) = 6
  BY DEF Weekly, Step, Steps

LEMMA TransactionsWithin ==
    ASSUME Ready, Weekly, next \in Nat \ {0}, next <= Len(Steps)
    PROVE  /\ Transactions \in Seq(WithinTxs(Held))
           /\ next <= 3 => Transactions \in Seq(WithinTxs(Purse))
           /\ next = 1 => \A n \in Networks : \E i \in 1..Len(Transactions) :
                              IsClaim(Transactions[i], n)
<1>1. arb \in Networks /\ avax \in Networks /\ Networks = {arb, avax}
  BY DEF Networks
<1>2. PICK u : u = Transactions
  OBVIOUS
<1>3. CASE next = 1 /\ Step = "withdraw"
  <2>1. PICK s, t : s = ClaimBuyback(arb) /\ t = ClaimBuyback(avax)
    OBVIOUS
  <2>2. s \in Seq(WithinTxs(Purse)) /\ t \in Seq(WithinTxs(Purse))
    BY <1>1, <2>1, ClaimWithin
  <2>3. Len(s) = 2 /\ Len(t) = 2 /\ IsClaim(s[2], arb) /\ IsClaim(t[2], avax)
    BY <1>1, <2>1, ClaimWithin
  <2>4. u = s \o t
    BY <1>2, <1>3, <2>1 DEF Transactions, Withdraw, Both, Weekly
  <2>5. u \in Seq(WithinTxs(Purse)) /\ u[2] = s[2] /\ u[4] = t[2] /\ Len(u) = 4
    <3>1. Joins(u, s, t)
      BY <2>4 DEF Joins
    <3>2. /\ u \in Seq(WithinTxs(Purse)) /\ Len(u) = Len(s) + Len(t)
          /\ \A k \in 1..Len(s) : u[k] = s[k]
          /\ \A k \in 1..Len(t) : u[Len(s) + k] = t[k]
      BY <2>2, <3>1, Joined
    <3>. QED  BY <2>3, <3>2
  <2>6. \A n \in Networks : \E i \in 1..Len(u) : IsClaim(u[i], n)
    <3>1. IsClaim(u[2], arb) /\ IsClaim(u[4], avax) /\ 2 \in 1..Len(u) /\ 4 \in 1..Len(u)
      BY <2>3, <2>5
    <3>. QED  BY <1>1, <3>1
  <2>. QED  BY <1>2, <1>3, <2>5, <2>6, WithinWider
<1>4. CASE next = 2 /\ Step = "fund"
  <2>1. PICK s, t : s = Fund(arb) /\ t = Fund(avax)
    OBVIOUS
  <2>2. s \in Seq(WithinTxs(Purse)) /\ t \in Seq(WithinTxs(Purse))
    BY <1>1, <2>1, FundWithin
  <2>3. u = s \o t
    BY <1>2, <1>4, <2>1 DEF Transactions, FundAccounts, Both
  <2>. QED  BY <1>2, <1>4, <2>2, <2>3, WithinWider
<1>5. CASE next = 3 /\ Step = "gmx"
  <2>1. PICK s, t : s = BuybackRewards(arb) /\ t = BuybackRewards(avax)
    OBVIOUS
  <2>2. ASSUME NEW n \in Networks PROVE BuybackRewards(n) \in Seq(WithinTxs(Purse))
    <3>1. plan.gmx[n] \in Nat /\ "gmxDistributor" \in Trackers /\ "gmx" \in {"gmx", "wnt"}
      BY DEF Ready, PlanTyped, Trackers
    <3>. QED  BY <3>1, RewardWithin DEF BuybackRewards
  <2>3. s \in Seq(WithinTxs(Purse)) /\ t \in Seq(WithinTxs(Purse))
    BY <1>1, <2>1, <2>2
  <2>4. u = s \o t
    BY <1>2, <1>5, <2>1 DEF Transactions, Both
  <2>. QED  BY <1>2, <1>5, <2>3, <2>4, WithinWider
<1>6. CASE next = 4 /\ Step = "payments"
  <2>1. PICK s, t : s = Payments(arb) /\ t = Payments(avax)
    OBVIOUS
  <2>2. s \in Seq(WithinTxs(Held)) /\ t \in Seq(WithinTxs(Held))
    BY <1>1, <2>1, PaymentsWithin
  <2>3. u = s \o t
    BY <1>2, <1>6, <2>1 DEF Transactions, SendPayments, Both
  <2>. QED  BY <1>2, <1>6, <2>2, <2>3
<1>7. CASE next = 5 /\ Step = "glp"
  <2>1. PICK s, t : s = GlpRewards(arb) /\ t = GlpRewards(avax)
    OBVIOUS
  <2>2. ASSUME NEW n \in Networks PROVE GlpRewards(n) \in Seq(WithinTxs(Held))
    <3>1. /\ plan.glp[n] \in Nat /\ GlpRate(n) \in Nat /\ "glpDistributor" \in Trackers
          /\ "wnt" \in {"gmx", "wnt"} /\ "signer" \in Held /\ "glpDistributor" \in Held
      BY DEF Ready, PlanTyped, Trackers, GlpRate, Held, Purse, Payees
    <3>. QED  BY <3>1, RewardWithin DEF GlpRewards
  <2>3. s \in Seq(WithinTxs(Held)) /\ t \in Seq(WithinTxs(Held))
    BY <1>1, <2>1, <2>2
  <2>4. u = s \o t
    BY <1>2, <1>7, <2>1 DEF Transactions, Both
  <2>. QED  BY <1>2, <1>7, <2>3, <2>4
<1>8. CASE next = 6 /\ Step = "referrals"
  <2>1. PICK s, t : s = Referrals(arb) /\ t = Referrals(avax)
    OBVIOUS
  <2>2. s \in Seq(WithinTxs(Held)) /\ t \in Seq(WithinTxs(Held))
    BY <1>1, <2>1, ReferralsWithin
  <2>3. u = s \o t
    BY <1>2, <1>8, <2>1 DEF Transactions, SendReferralRewards, Both
  <2>. QED  BY <1>2, <1>8, <2>2, <2>3
<1>. QED  BY <1>3, <1>4, <1>5, <1>6, <1>7, <1>8, WeeklySteps

(* The process, its history, and what may be spent by others.              *)
Allowances == [Networks -> [Spenders -> [Tokens -> Nat]]]
ProcessInv ==
    /\ spent \in [Networks -> Nat] /\ allowance \in Allowances
    /\ crashes \in Nat /\ (crashes > 0 => repeated)
    /\ ~running => todo = <<>>
    /\ running => next <= Len(Steps) /\ plan # NoPlan
    /\ next > 2 => plan # NoPlan

LEMMA AllowanceUpdated ==
    ASSUME NEW b \in Allowances, NEW n \in Networks, NEW o \in Spenders, NEW t \in Tokens,
           NEW x \in Nat, NEW c, Updated(b, c, n, o, t, x)
    PROVE  /\ c \in Allowances /\ c[n][o][t] = x
           /\ \A m \in Networks : \A p \in Spenders : \A u \in Tokens :
                 m # n \/ p # o \/ u # t => c[m][p][u] = b[m][p][u]
<1>1. c = [b EXCEPT ![n] = [b[n] EXCEPT ![o] = [b[n][o] EXCEPT ![t] = x]]]
  BY DEF Updated
<1>2. b[n] \in [Spenders -> [Tokens -> Nat]] /\ b[n][o] \in [Tokens -> Nat]
  BY DEF Allowances
<1>. QED  BY <1>1, <1>2 DEF Allowances

(* Only a payment from an allowance and an approval change allowances.     *)
LEMMA AllowanceEffect ==
    ASSUME CreditInv, allowance \in Allowances, SendSpend \/ SendApprove,
           NEW tx, tx = Head(todo)
    PROVE  /\ tx.net \in Networks /\ tx.from \in Spenders /\ tx.token \in Tokens
           /\ tx.amount \in Nat /\ allowance[tx.net][tx.from][tx.token] \in Nat
           /\ \E x \in Nat :
                 /\ SendSpend => tx.kind = "spend"
                        /\ x = allowance[tx.net][tx.from][tx.token] - tx.amount
                 /\ SendApprove => tx.kind = "approve" /\ x = tx.amount
                 /\ Updated(allowance, allowance', tx.net, tx.from, tx.token, x)
<1>1. todo # <<>> /\ tx.kind \in {"spend", "approve"}
      /\ (SendSpend => tx.kind = "spend") /\ (SendApprove => tx.kind = "approve")
  BY DEF SendSpend, SendApprove, Sending
<1>2. /\ tx.net \in Networks /\ tx.from \in Spenders /\ tx.token \in Tokens
      /\ tx.amount \in Nat
  BY <1>1, HeadTyped DEF CreditInv, Sendable
<1>3. allowance[tx.net][tx.from][tx.token] \in Nat
  BY <1>2 DEF Allowances
<1>4. CASE SendSpend
  <2>1. tx.amount <= allowance[tx.net][tx.from][tx.token]
    BY <1>1, <1>2, <1>3, <1>4 DEF SendSpend, Affordable, Allowed
  <2>2. PICK x \in Nat : x = allowance[tx.net][tx.from][tx.token] - tx.amount
    BY <1>2, <1>3, <2>1
  <2>3. Updated(allowance, allowance', tx.net, tx.from, tx.token, x)
    BY <1>4, <2>2 DEF SendSpend, Updated
  <2>4. ~SendApprove
    BY <1>1, <1>4
  <2>. QED  BY <1>1, <1>2, <1>3, <1>4, <2>2, <2>3, <2>4
<1>5. CASE SendApprove
  <2>1. Updated(allowance, allowance', tx.net, tx.from, tx.token, tx.amount)
    BY <1>5 DEF SendApprove, Updated
  <2>2. ~SendSpend
    BY <1>1, <1>5
  <2>. QED  BY <1>1, <1>2, <1>3, <1>5, <2>1, <2>2
<1>. QED  BY <1>4, <1>5

LEMMA ProgramFixed ==
    ASSUME [Next]_vars
    PROVE  program' = program /\ Steps' = Steps
<1>1. program' = program
  BY DEF Next, Operator, Process, Environment, CreatePlan, Begin, Skip, Bridge, Send,
         SendTransfer, SendClaim, SendSpend, SendUnwrap, SendSwap, SendExcess,
         SendApprove, SendRate, SendBonus, SendNothing, Sent, Finish, Fail, SwapFails,
         Arrive, Crash, Burn, Tick, vars, planVars
<1>. QED  BY <1>1 DEF Steps

LEMMA ProcessKeeps ==
    ASSUME CreditInv, ProcessInv, [Next]_vars
    PROVE  ProcessInv'
<1>0. Steps' = Steps /\ next \in Nat \ {0} /\ Len(Steps) \in Nat
  <2>1. Len(Steps) \in Nat
    BY DEF Steps
  <2>. QED  BY <2>1, ProgramFixed DEF CreditInv, Typed
<1>1. CASE \E include \in BOOLEAN : \E data \in DataChoices : CreatePlan(include, data)
  <2>1. /\ ~running /\ next <= 2 /\ spent' = [n \in Networks |-> 0]
        /\ UNCHANGED <<allowance, running, todo, crashes, repeated, next>>
    BY <1>1 DEF CreatePlan, Idle, ledgerVars, processVars
  <2>. QED  BY <1>0, <2>1 DEF ProcessInv
<1>2. CASE Begin
  <2>1. /\ next <= Len(Steps) /\ plan # NoPlan /\ running'
        /\ UNCHANGED <<allowance, plan, crashes, repeated, spent, next>>
    BY <1>2 DEF Begin, ledgerVars, planVars, historyVars
  <2>. QED  BY <1>0, <2>1 DEF ProcessInv
<1>3. CASE Send
  <2>1. running /\ running' = running
    BY <1>3, SendOne DEF Send, SendTransfer, SendClaim, SendSpend, SendUnwrap, SendSwap,
       SendExcess, SendApprove, SendRate, SendBonus, SendNothing, Sending
  <2>2. UNCHANGED <<plan, crashes, repeated, spent, next>>
    BY <1>3, SendOne
  <2>3. allowance' \in Allowances
    <3>1. CASE SendSpend \/ SendApprove
      <4>1. PICK tx : tx = Head(todo)
        OBVIOUS
      <4>2. PICK x \in Nat : /\ tx.net \in Networks /\ tx.from \in Spenders
                             /\ tx.token \in Tokens
                             /\ Updated(allowance, allowance', tx.net, tx.from, tx.token, x)
        BY <3>1, <4>1, AllowanceEffect DEF ProcessInv
      <4>3. PICK b, c, n, o, t : b = allowance /\ c = allowance' /\ n = tx.net
                                    /\ o = tx.from /\ t = tx.token
        OBVIOUS
      <4>4. /\ b \in Allowances /\ n \in Networks /\ o \in Spenders /\ t \in Tokens
            /\ Updated(b, c, n, o, t, x)
        BY <4>2, <4>3 DEF ProcessInv
      <4>5. c \in Allowances
        BY <4>4, AllowanceUpdated
      <4>. QED  BY <4>3, <4>5
    <3>2. CASE ~(SendSpend \/ SendApprove)
      <4>1. UNCHANGED allowance
        BY <1>3, <3>2 DEF Send, SendTransfer, SendClaim, SendUnwrap, SendSwap,
           SendExcess, SendRate, SendBonus, SendNothing, ledgerVars
      <4>. QED  BY <4>1 DEF ProcessInv
    <3>. QED  BY <3>1, <3>2
  <2>. QED  BY <1>0, <2>1, <2>2, <2>3 DEF ProcessInv
<1>4. CASE Finish
  <2>1. /\ plan # NoPlan /\ next' = next + 1 /\ running' = FALSE /\ todo' = <<>>
        /\ UNCHANGED <<allowance, plan, crashes, repeated, spent>>
    BY <1>4 DEF Finish, Stop, ledgerVars, planVars, historyVars, ProcessInv
  <2>. QED  BY <1>0, <2>1 DEF ProcessInv
<1>5. CASE Skip
  <2>1. /\ plan # NoPlan /\ next' = next + 1 /\ ~running
        /\ UNCHANGED <<allowance, plan, crashes, repeated, spent, running, todo>>
    BY <1>5 DEF Skip, Idle, ledgerVars, planVars, historyVars, processVars
  <2>. QED  BY <1>0, <2>1 DEF ProcessInv
<1>6. CASE SwapFails
  <2>1. /\ running /\ UNCHANGED <<allowance, plan, crashes, repeated, spent, next>>
        /\ (running' = running) \/ (running' = FALSE /\ todo' = <<>>)
    BY <1>6 DEF SwapFails, Sending, Stop, ledgerVars, planVars, historyVars
  <2>. QED  BY <1>0, <2>1 DEF ProcessInv
<1>7. CASE Fail
  <2>1. /\ running' = FALSE /\ todo' = <<>>
        /\ UNCHANGED <<allowance, plan, crashes, repeated, spent, next>>
    BY <1>7 DEF Fail, Stop, ledgerVars, planVars, historyVars
  <2>. QED  BY <1>0, <2>1 DEF ProcessInv
<1>8. CASE Crash
  <2>1. /\ running' = FALSE /\ todo' = <<>> /\ crashes' = crashes + 1 /\ repeated'
        /\ UNCHANGED <<allowance, plan, spent, next>>
    BY <1>8 DEF Crash, Stop, ledgerVars, planVars
  <2>. QED  BY <1>0, <2>1 DEF ProcessInv
<1>9. CASE \E n \in Networks : \E k \in Keepers : Burn(n, k)
  <2>1. /\ \E n \in Networks : spent' = [spent EXCEPT ![n] = @ + 1]
        /\ UNCHANGED <<allowance, plan, crashes, repeated, next, running, todo>>
    BY <1>9 DEF Burn, planVars, processVars
  <2>2. spent' \in [Networks -> Nat]
    BY <2>1 DEF ProcessInv
  <2>. QED  BY <1>0, <2>1, <2>2 DEF ProcessInv
<1>10. CASE Bridge \/ Arrive \/ Tick \/ UNCHANGED vars
  <2>1. UNCHANGED <<allowance, plan, crashes, repeated, spent, next, running, todo>>
    BY <1>10 DEF Bridge, Arrive, Tick, vars, ledgerVars, planVars, processVars, historyVars
  <2>. QED  BY <1>0, <2>1 DEF ProcessInv
<1>. QED
  BY <1>1, <1>2, <1>3, <1>4, <1>5, <1>6, <1>7, <1>8, <1>9, <1>10
  DEF Next, Operator, Process, Environment

LEMMA ProcessStarts ==
    ASSUME Init
    PROVE  ProcessInv
<1>1. /\ next = 1 /\ running = FALSE /\ todo = <<>> /\ crashes = 0
      /\ spent = [n \in Networks |-> 0]
  BY DEF Init
<1>2. allowance \in Allowances
  <2>1. PICK limit \in InitAllowances :
            allowance = [n \in Networks |->
                          [o \in {"wallet", "feeAccount"} |->
                              [t \in Tokens |->
                                  IF o = "feeAccount" THEN limit ELSE 0]]]
    BY DEF Init
  <2>2. limit \in Nat
    BY InitialAssumption
  <2>. QED  BY <2>1, <2>2 DEF Allowances, Spenders
<1>. QED  BY <1>1, <1>2 DEF ProcessInv

(* What is bridged is GMX.                                                 *)
LEMMA BridgeEffect ==
    ASSUME CreditInv, Bridge \/ Arrive
    PROVE  /\ balance' \in Balances
           /\ \A n \in Networks : \A o \in Owners : \A t \in Tokens :
                 t # "gmx" => balance'[n][o][t] = balance[n][o][t]
           /\ UNCHANGED <<program, plan, files, todo, next, running, crashes, repeated,
                          spent, allowance>>
<1>1. CreditInv'
  BY BridgeKeeps
<1>2. PICK n, x : Updated(balance, balance', n, "signer", "gmx", x)
  <2>1. CASE Bridge
    <3>1. PICK n, x : n = BridgeFrom
                         /\ x = balance[BridgeFrom]["signer"]["gmx"] - Abs(plan.delta)
      OBVIOUS
    <3>2. Updated(balance, balance', n, "signer", "gmx", x)
      BY <2>1, <3>1 DEF Bridge, Updated
    <3>. QED  BY <3>2
  <2>2. CASE Arrive
    <3>1. PICK n, x : n = bridge.to
                         /\ x = balance[bridge.to]["signer"]["gmx"] + bridge.amount
      OBVIOUS
    <3>2. Updated(balance, balance', n, "signer", "gmx", x)
      BY <2>2, <3>1 DEF Arrive, Updated
    <3>. QED  BY <3>2
  <2>. QED  BY <2>1, <2>2
<1>3. PICK b, c : b = balance /\ c = balance'
  OBVIOUS
<1>4. b \in Balances /\ c \in Balances /\ Updated(b, c, n, "signer", "gmx", x)
  BY <1>1, <1>2, <1>3 DEF CreditInv, Typed
<1>5. \A m \in Networks : \A o \in Owners : \A t \in Tokens :
                 t # "gmx" => c[m][o][t] = b[m][o][t]
  <2>1. c = [b EXCEPT ![n]["signer"]["gmx"] = x]
    BY <1>4 DEF Updated
  <2>. QED  BY <1>4, <2>1 DEF Balances
<1>6. UNCHANGED <<program, plan, files, todo, next, running, crashes, repeated,
                  spent, allowance>>
  BY DEF Bridge, Arrive, planVars, processVars, historyVars
<1>. QED  BY <1>3, <1>4, <1>5, <1>6

LEMMA BurnEffect ==
    ASSUME CreditInv, NEW n \in Networks, NEW k \in Keepers, Burn(n, k)
    PROVE  /\ balance' \in Balances /\ balance[n][k]["eth"] \in Nat
           /\ balance[n][k]["eth"] > 0 /\ balance'[n][k]["eth"] = balance[n][k]["eth"] - 1
           /\ KeptElsewhere(balance, balance', n, k, "eth")
           /\ spent' = [spent EXCEPT ![n] = @ + 1]
           /\ UNCHANGED <<program, plan, files, todo, next, running, crashes, repeated,
                          allowance>>
<1>1. k \in Owners /\ "eth" \in Tokens /\ balance \in Balances
  BY AccountsApart DEF Tokens, CreditInv, Typed
<1>2. balance[n][k]["eth"] \in Nat
  BY <1>1, BalanceTyped
<1>3. PICK x \in Nat : x = balance[n][k]["eth"] - 1
  BY <1>2 DEF Burn
<1>4. Updated(balance, balance', n, k, "eth", x)
  BY <1>3 DEF Burn, Updated
<1>5. /\ balance' \in Balances /\ balance'[n][k]["eth"] = x
      /\ KeptElsewhere(balance, balance', n, k, "eth")
  BY <1>1, <1>4, AccountUpdated
<1>. QED  BY <1>2, <1>3, <1>5 DEF Burn, planVars, processVars

-----------------------------------------------------------------------------
(* What the lists of distributeFees hold, and that the handler is emptied  *)
(* by the first step.                                                      *)
Emptied(n) == balance[n]["feeHandler"]["wnt"] = 0
Claimed(s, n) == \E i \in 1..Len(s) : IsClaim(s[i], n)
HandlerInv ==
    Weekly =>
        /\ ListWithin(todo, Held) /\ (next <= 3 => ListWithin(todo, Purse))
        /\ next > 1 => \A n \in Networks : Emptied(n)
        /\ running /\ next = 1 => \A n \in Networks : Emptied(n) \/ Claimed(todo, n)

LEMMA ListWithinNone == ASSUME NEW H PROVE ListWithin(<<>>, H)
  BY DEF ListWithin

LEMMA ListWithinTail ==
    ASSUME NEW s \in Seq(AllTxs), s # <<>>, NEW H, ListWithin(s, H), NEW u, u = Tail(s)
    PROVE  ListWithin(u, H) /\ Within(s[1], H)
<1>1. Len(s) = Len(u) + 1 /\ Len(u) \in Nat /\ \A i \in 1..Len(u) : u[i] = s[i + 1]
  OBVIOUS
<1>2. \A i \in 1..Len(u) : i + 1 \in 1..Len(s)
  BY <1>1
<1>. QED  BY <1>1, <1>2 DEF ListWithin

LEMMA HandlerKeeps ==
    ASSUME CreditInv, ProcessInv, HandlerInv, Weekly, [Next]_vars
    PROVE  HandlerInv'
<1>0. /\ next \in Nat \ {0} /\ todo \in Seq(AllTxs) /\ balance \in Balances
      /\ "wnt" \in Tokens /\ "feeHandler" \in Owners
      /\ ListWithin(todo, Held) /\ (next <= 3 => ListWithin(todo, Purse))
  BY DEF CreditInv, Typed, HandlerInv, Tokens, Owners, Places
<1>1. ASSUME todo' = <<>>, ~running', UNCHANGED balance, next' = next
      PROVE  HandlerInv'
  BY <1>1, ListWithinNone DEF HandlerInv, Emptied
<1>2. ASSUME UNCHANGED <<todo, running, next>>,
             \A n \in Networks : balance'[n]["feeHandler"]["wnt"] = balance[n]["feeHandler"]["wnt"]
      PROVE  HandlerInv'
  BY <1>2 DEF HandlerInv, Emptied
<1>3. CASE \E include \in BOOLEAN : \E data \in DataChoices : CreatePlan(include, data)
  BY <1>2, <1>3 DEF CreatePlan, ledgerVars, processVars
<1>4. CASE Tick \/ UNCHANGED vars
  BY <1>2, <1>4 DEF Tick, vars, ledgerVars, processVars
<1>5. CASE Bridge \/ Arrive
  <2>1. \A n \in Networks : balance'[n]["feeHandler"]["wnt"] = balance[n]["feeHandler"]["wnt"]
    BY <1>0, <1>5, BridgeEffect
  <2>. QED  BY <1>2, <1>5, <2>1, BridgeEffect
<1>6. CASE \E n \in Networks : \E k \in Keepers : Burn(n, k)
  <2>1. PICK n \in Networks, k \in Keepers : Burn(n, k)
    BY <1>6
  <2>2. KeptElsewhere(balance, balance', n, k, "eth") /\ UNCHANGED <<todo, running, next>>
    BY <2>1, BurnEffect
  <2>3. \A m \in Networks : balance'[m]["feeHandler"]["wnt"] = balance[m]["feeHandler"]["wnt"]
    BY <1>0, <2>2 DEF KeptElsewhere
  <2>. QED  BY <1>2, <2>2, <2>3
<1>7. CASE Fail \/ Crash
  BY <1>1, <1>7 DEF Fail, Crash, Stop, ledgerVars
<1>8. CASE SwapFails
  <2>1. todo # <<>> /\ Head(todo).kind = "swap" /\ Head(todo) = todo[1]
    BY <1>0, <1>8, HeadTyped DEF SwapFails, Sending, CreditInv
  <2>2. Within(todo[1], Held)
    BY <1>0, <2>1, ListWithinTail
  <2>. QED  BY <2>1, <2>2 DEF Within
<1>9. CASE Finish
  <2>1. /\ todo = <<>> /\ running /\ next' = next + 1 /\ ~running' /\ todo' = <<>>
        /\ UNCHANGED balance
    BY <1>9 DEF Finish, Stop, ledgerVars
  <2>2. \A n \in Networks : ~Claimed(todo, n)
    BY <2>1 DEF Claimed
  <2>3. \A n \in Networks : Emptied(n)
    BY <1>0, <2>1, <2>2 DEF HandlerInv
  <2>4. \A n \in Networks : Emptied(n)'
    BY <2>1, <2>3 DEF Emptied
  <2>. QED  BY <2>1, <2>4, ListWithinNone DEF HandlerInv
<1>10. CASE Skip
  <2>1. /\ ~AcceptsStep(Steps[next]) /\ next' = next + 1 /\ ~running /\ next < Len(Steps)
        /\ UNCHANGED <<balance, todo, running>>
    BY <1>10 DEF Skip, Idle, ledgerVars, processVars
  <2>2. next # 1
    <3>1. ASSUME next = 1 PROVE FALSE
      <4>1. Steps[next] = "withdraw"
        BY <3>1 DEF Steps, Weekly
      <4>2. \A n \in Networks : Accepts("withdraw", n)
        BY DEF Accepts
      <4>. QED  BY <2>1, <4>1, <4>2 DEF AcceptsStep
    <3>. QED  BY <3>1
  <2>3. todo' = <<>>
    BY <2>1 DEF ProcessInv
  <2>4. \A n \in Networks : Emptied(n)'
    BY <1>0, <2>1, <2>2 DEF HandlerInv, Emptied
  <2>. QED  BY <2>1, <2>3, <2>4, ListWithinNone DEF HandlerInv
<1>11. CASE Begin
  <2>1. /\ todo' = Transactions /\ next <= Len(Steps) /\ plan # NoPlan
        /\ UNCHANGED <<balance, next>>
    BY <1>11 DEF Begin, ledgerVars
  <2>2. Ready
    BY <2>1 DEF CreditInv, Typed, Ready
  <2>3. PICK u : u = Transactions
    OBVIOUS
  <2>4. /\ u \in Seq(WithinTxs(Held)) /\ (next <= 3 => u \in Seq(WithinTxs(Purse)))
        /\ (next = 1 => \A n \in Networks : Claimed(u, n))
    BY <1>0, <2>1, <2>2, <2>3, TransactionsWithin DEF Claimed
  <2>5. ListWithin(u, Held) /\ (next <= 3 => ListWithin(u, Purse))
    BY <2>4 DEF ListWithin, WithinTxs
  <2>. QED  BY <2>1, <2>3, <2>4, <2>5 DEF HandlerInv, Emptied
<1>12. CASE Send
  <2>1. PICK s, u : s = todo /\ u = todo'
    OBVIOUS
  <2>2. /\ s \in Seq(AllTxs) /\ s # <<>> /\ u = Tail(s) /\ UNCHANGED <<next, running>>
    BY <1>0, <1>12, <2>1, SendOne
  <2>3. Within(s[1], Held) /\ ListWithin(u, Held) /\ (next <= 3 => ListWithin(u, Purse))
    BY <1>0, <2>1, <2>2, ListWithinTail
  <2>4. \A n \in Networks :
           /\ balance[n]["feeHandler"]["wnt"] \in Nat
           /\ balance'[n]["feeHandler"]["wnt"] \in Nat
           /\ balance'[n]["feeHandler"]["wnt"] <= balance[n]["feeHandler"]["wnt"]
           /\ IsClaim(s[1], n) => balance'[n]["feeHandler"]["wnt"] = 0
    BY <1>12, <2>1, <2>3, HandlerLoses
  <2>5. \A n \in Networks : Emptied(n) => Emptied(n)'
    BY <2>4 DEF Emptied
  <2>6. ASSUME NEW n \in Networks, Claimed(s, n) PROVE Emptied(n)' \/ Claimed(u, n)
    <3>1. PICK i \in 1..Len(s) : IsClaim(s[i], n)
      BY <2>6 DEF Claimed
    <3>2. CASE i = 1
      BY <2>4, <3>1, <3>2 DEF Emptied
    <3>3. CASE i # 1
      <4>1. i - 1 \in 1..Len(u) /\ u[i - 1] = s[i]
        BY <2>2, <3>3
      <4>. QED  BY <3>1, <4>1 DEF Claimed
    <3>. QED  BY <3>2, <3>3
  <2>. QED  BY <2>1, <2>2, <2>3, <2>5, <2>6 DEF HandlerInv
<1>. QED
  BY <1>3, <1>4, <1>5, <1>6, <1>7, <1>8, <1>9, <1>10, <1>11, <1>12
  DEF Next, Operator, Process, Environment

(* The promises of a plan and the gas that keepers lack, and x more, are   *)
(* covered by what the accounts of H hold and what keepers burned.         *)
Covers(n, H, x) ==
    Promised(n) + Costs(balance, n) + x <= spent[n] + NativeHeld(balance, n, H)

LEMMA PromisedTyped ==
    ASSUME CreditInv, plan # NoPlan, NEW n \in Networks
    PROVE  Promised(n) \in Nat
<1>1. /\ plan.treasury[n] \in Nat /\ plan.chainlink[n] \in Nat
      /\ plan.glp[n] \in Nat /\ plan.referral[n] \in Nat
  BY DEF CreditInv, Typed, PlanTyped
<1>. QED  BY <1>1 DEF Promised

(* Whatever is done with a plan keeps it covered.                          *)
LEMMA CoverKept ==
    ASSUME CreditInv, GasList, ProcessInv, [Next]_vars, plan # NoPlan,
           ~ \E include \in BOOLEAN : \E data \in DataChoices : CreatePlan(include, data),
           NEW H, Holders(H), Send => Within(todo[1], H),
           NEW n \in Networks, NEW x \in Nat, Covers(n, H, x)
    PROVE  Covers(n, H, x)'
<1>1. balance \in Balances /\ balance' \in Balances
  BY StepKeeps DEF CreditInv, Typed
<1>2. PICK b, c : b = balance /\ c = balance'
  OBVIOUS
<1>3. b \in Balances /\ c \in Balances
  BY <1>1, <1>2
<1>4. /\ NativeHeld(b, n, H) \in Nat /\ NativeHeld(c, n, H) \in Nat
      /\ Costs(b, n) \in Nat /\ Costs(c, n) \in Nat
  BY <1>3, NativeTyped, GasTyped
<1>5. Promised(n) \in Nat /\ spent[n] \in Nat
  BY PromisedTyped DEF ProcessInv
<1>6. Promised(n) + Costs(b, n) + x <= spent[n] + NativeHeld(b, n, H)
  BY <1>2 DEF Covers
<1>7. ASSUME plan' = plan, spent'[n] \in Nat,
             Costs(c, n) + spent[n] + NativeHeld(b, n, H)
                 <= Costs(b, n) + spent'[n] + NativeHeld(c, n, H)
      PROVE  Covers(n, H, x)'
  <2>1. Promised(n)' = Promised(n)
    BY <1>7 DEF Promised
  <2>2. PICK p : p = Promised(n)
    OBVIOUS
  <2>3. Promised(n)' = p /\ p \in Nat
    BY <1>5, <2>1, <2>2
  <2>4. p + Costs(c, n) + x <= spent'[n] + NativeHeld(c, n, H)
    BY <1>4, <1>5, <1>6, <1>7, <2>2
  <2>. QED  BY <1>2, <2>3, <2>4 DEF Covers
<1>8. CASE UNCHANGED <<balance, plan, spent>>
  BY <1>2, <1>4, <1>5, <1>7, <1>8
<1>9. CASE Send
  <2>1. Balanced(balance, balance', H)
    BY <1>9, SendBalanced
  <2>2. NativeHeld(c, n, H) - Costs(c, n) = NativeHeld(b, n, H) - Costs(b, n)
    BY <1>2, <2>1 DEF Balanced
  <2>3. plan' = plan /\ spent' = spent
    BY <1>9, SendOne
  <2>. QED  BY <1>4, <1>5, <1>7, <2>2, <2>3
<1>10. CASE Bridge \/ Arrive
  <2>1. /\ \A m \in Networks : \A o \in Owners : \A t \in Tokens :
                t # "gmx" => balance'[m][o][t] = balance[m][o][t]
        /\ plan' = plan /\ spent' = spent
    BY <1>10, BridgeEffect
  <2>2. "wnt" \in Tokens /\ "eth" \in Tokens /\ H \subseteq Owners
    BY DEF Tokens, Holders
  <2>3. \A m \in Networks : \A o \in H : Native(c, m)[o] = Native(b, m)[o]
    BY <1>2, <2>1, <2>2 DEF Native
  <2>4. \A m \in Networks : \A k \in Keepers : c[m][k]["eth"] = b[m][k]["eth"]
    BY <1>2, <2>1, <2>2, AccountsApart
  <2>5. Balanced(b, c, H)
    BY <1>3, <2>3, <2>4, BalancedSame
  <2>6. NativeHeld(c, n, H) - Costs(c, n) = NativeHeld(b, n, H) - Costs(b, n)
    BY <2>5 DEF Balanced
  <2>. QED  BY <1>4, <1>5, <1>7, <2>1, <2>6
<1>11. CASE \E m \in Networks : \E k \in Keepers : Burn(m, k)
  <2>1. PICK m \in Networks, k \in Keepers : Burn(m, k)
    BY <1>11
  <2>2. /\ balance[m][k]["eth"] > 0 /\ balance'[m][k]["eth"] = balance[m][k]["eth"] - 1
        /\ KeptElsewhere(balance, balance', m, k, "eth")
        /\ spent' = [spent EXCEPT ![m] = @ + 1] /\ plan' = plan
    BY <2>1, BurnEffect
  <2>3. /\ NativeHeld(c, n, H) = NativeHeld(b, n, H)
        /\ Costs(c, n) <= Costs(b, n) + (IF n = m THEN 1 ELSE 0)
    BY <1>2, <1>3, <2>2, BurnBalance
  <2>4. spent'[n] = spent[n] + (IF n = m THEN 1 ELSE 0)
    BY <1>5, <2>2 DEF ProcessInv
  <2>. QED  BY <1>4, <1>5, <1>7, <2>2, <2>3, <2>4
<1>12. CASE Begin \/ Skip \/ Finish \/ Fail \/ SwapFails \/ Crash \/ Tick \/ UNCHANGED vars
  BY <1>8, <1>12 DEF Begin, Skip, Finish, Fail, SwapFails, Crash, Tick, vars,
     ledgerVars, planVars, historyVars
<1>. QED
  BY <1>9, <1>10, <1>11, <1>12 DEF Next, Operator, Process, Environment

(* A plan promises what the fee keeper has, but for the gas.               *)
LEMMA PlanMakesCover ==
    ASSUME CreditInv, NEW include \in BOOLEAN, NEW data \in DataChoices,
           CreatePlan(include, data), NEW n \in Networks
    PROVE  /\ Promised(n)' \in Nat /\ spent'[n] = 0 /\ balance' = balance
           /\ Promised(n)' + Costs(balance, n)
                 <= balance[n]["feeHandler"]["wnt"] + balance[n]["signer"]["wnt"]
<1> DEFINE saved == [m \in Networks |-> Saved(files[m], data[m])]
<1>1. /\ NativePlannable(NativeValues(n, include, saved))
      /\ plan' = PlanFor(include, saved)
      /\ spent' = [m \in Networks |-> 0] /\ balance' = balance
  BY DEF CreatePlan, ledgerVars
<1>2. WellFormed(saved[n])
  <2>1. saved[n] = Saved(files[n], data[n])
    OBVIOUS
  <2>2. WellFormed(files[n])
    BY DEF CreditInv, Typed
  <2>. QED  BY <2>1, <2>2, FileWellFormed DEF Saved
<1>. HIDE DEF saved
<1>3. balance \in Balances
  BY DEF CreditInv, Typed
<1> DEFINE v == NativeValues(n, include, saved)
<1>4. /\ v \in NativeInputs /\ v.total = AtHand(n, "wnt", include)
      /\ v.keeperCosts = Costs(balance, n)
  <2>1. /\ AtHand(n, "wnt", include) \in Nat
        /\ FeesV1(Stats[n].v1, FeePeriod(now)) \in Nat
        /\ FeesV2(Stats[n].v2, FeePeriod(now)) \in Nat
        /\ KeeperCosts(Fuel(n), Target) \in Nat
    BY <1>3, AtHandTyped, StatsTyped, CostsTyped DEF Tokens
  <2>2. PlannedUsd(saved[n]) \in Nat
    <3>1. Settings.price[n] \in Nat \ {0}
      BY SettingsAssumption
    <3>. QED  BY <1>2, <3>1, RewardsTyped
  <2>3. v.total = AtHand(n, "wnt", include) /\ v.keeperCosts = Costs(balance, n)
    BY CostsOfFuel DEF NativeValues
  <2>. QED  BY <2>1, <2>2, <2>3, SettingsAssumption DEF NativeValues, NativeInputs
<1>. HIDE DEF v
<1>5. /\ Treasury(v) \in Nat /\ Chainlink(v) \in Nat /\ Glp(v) \in Nat /\ Referral(v) \in Nat
  BY <1>1, <1>4, PlannableTyped DEF v
<1>6. Promised(n)' = Treasury(v) + Chainlink(v) + Glp(v) + Referral(v)
  <2>1. /\ PlanFor(include, saved).treasury[n] = Treasury(v)
        /\ PlanFor(include, saved).chainlink[n] = Chainlink(v)
        /\ PlanFor(include, saved).glp[n] = Glp(v)
        /\ PlanFor(include, saved).referral[n] = Referral(v)
    BY DEF PlanFor, NativePlan, v
  <2>2. /\ plan'.treasury[n] = Treasury(v) /\ plan'.chainlink[n] = Chainlink(v)
        /\ plan'.glp[n] = Glp(v) /\ plan'.referral[n] = Referral(v)
    BY <1>1, <2>1
  <2>. QED  BY <2>2 DEF Promised
<1>7. v.total <= balance[n]["feeHandler"]["wnt"] + balance[n]["signer"]["wnt"]
  <2>1. balance[n]["feeHandler"]["wnt"] \in Nat /\ balance[n]["signer"]["wnt"] \in Nat
    BY <1>3, BalanceTyped DEF Owners, Places, Tokens
  <2>. QED  BY <1>4, <2>1 DEF AtHand
<1>8. /\ balance[n]["feeHandler"]["wnt"] \in Nat /\ balance[n]["signer"]["wnt"] \in Nat
      /\ v.total \in Nat /\ v.keeperCosts \in Nat /\ Costs(balance, n) \in Nat
  BY <1>3, <1>4, BalanceTyped, NativeTypes, GasTyped DEF Owners, Places, Tokens
<1>9. Treasury(v) + Chainlink(v) + Glp(v) + Referral(v) + v.keeperCosts = v.total
  BY <1>5, <1>8 DEF Glp
<1>. QED  BY <1>1, <1>4, <1>5, <1>6, <1>7, <1>8, <1>9

(* The fee keeper's own accounts are among those that hold its money.      *)
LEMMA PurseHeld ==
    ASSUME NEW b \in Balances, NEW n \in Networks
    PROVE  /\ NativeHeld(b, n, Purse) = b[n]["feeHandler"]["wnt"]
                                           + b[n]["signer"]["wnt"] + b[n]["signer"]["eth"]
           /\ {b[n]["feeHandler"]["wnt"], b[n]["signer"]["wnt"],
               b[n]["signer"]["eth"]} \subseteq Nat
           /\ NativeHeld(b, n, Purse) <= NativeHeld(b, n, Held)
<1>1. {b[n]["feeHandler"]["wnt"], b[n]["signer"]["wnt"], b[n]["signer"]["eth"]} \subseteq Nat
  BY BalanceTyped DEF Owners, Places, Tokens
<1>2. PICK f : f = Native(b, n)
  OBVIOUS
<1>3. /\ f["feeHandler"] = b[n]["feeHandler"]["wnt"]
      /\ f["signer"] = b[n]["signer"]["wnt"] + b[n]["signer"]["eth"]
  BY <1>1, <1>2 DEF Native, Owners, Places
<1>4. /\ IsFiniteSet(Purse) /\ IsFiniteSet(Held) /\ Purse \subseteq Held
      /\ \A o \in Held : f[o] \in Nat /\ f[o] \in Int
  BY <1>2, HoldersFinite, NativeTyped DEF Holders
<1>5. SumFunctionOnSet(f, Purse) = f["feeHandler"] + f["signer"]
  <2>1. PICK y, z : y = "feeHandler" /\ z = "signer"
    OBVIOUS
  <2>2. Purse = {y, z} /\ y # z
    BY <2>1 DEF Purse
  <2>3. SumFunctionOnSet(f, Purse) = f[y] + SumFunctionOnSet(f, Purse \ {y})
    <3>1. y \in Purse /\ \A x \in Purse : f[x] \in Int
      BY <1>4, <2>2
    <3>. QED  BY <1>4, <3>1, SumRemove
  <2>4. PICK R : R = Purse \ {y}
    OBVIOUS
  <2>5. R = {z} /\ IsFiniteSet(R) /\ z \in R
    BY <2>2, <2>4, FS_Singleton
  <2>6. SumFunctionOnSet(f, R) = f[z]
    <3>1. f[z] \in Int /\ \A x \in R : f[x] = IF x = z THEN f[z] ELSE 0
      BY <1>4, <2>2, <2>5
    <3>. QED  BY <2>5, <3>1, SumOne
  <2>. QED  BY <2>1, <2>3, <2>4, <2>6
<1>6. SumFunctionOnSet(f, Purse) <= SumFunctionOnSet(f, Held)
  <2>1. SumFunctionOnSet(f, Held)
            = SumFunctionOnSet(f, Purse) + SumFunctionOnSet(f, Held \ Purse)
    BY <1>4, SumSplit
  <2>2. IsFiniteSet(Held \ Purse)
    BY <1>4, FS_Subset
  <2>3. SumFunctionOnSet(f, Purse) \in Nat
    BY <1>4, SumType
  <2>4. \A x \in Held \ Purse : f[x] \in Nat
    BY <1>4
  <2>5. SumFunctionOnSet(f, Held \ Purse) \in Nat
    BY <2>2, <2>4, SumType
  <2>. QED  BY <2>1, <2>3, <2>5
<1>7. NativeHeld(b, n, Purse) = b[n]["feeHandler"]["wnt"]
                                           + b[n]["signer"]["wnt"] + b[n]["signer"]["eth"]
  BY <1>1, <1>2, <1>3, <1>5 DEF NativeHeld
<1>. QED  BY <1>1, <1>2, <1>6, <1>7 DEF NativeHeld

-----------------------------------------------------------------------------
CoverInv == Weekly /\ plan # NoPlan => \A n \in Networks : Covers(n, Held, 0)

LEMMA CoverKeeps ==
    ASSUME CreditInv, GasList, ProcessInv, HandlerInv, CoverInv, Weekly, [Next]_vars
    PROVE  CoverInv'
<1>1. CASE \E include \in BOOLEAN : \E data \in DataChoices : CreatePlan(include, data)
  <2>1. PICK include \in BOOLEAN, data \in DataChoices : CreatePlan(include, data)
    BY <1>1
  <2>2. ASSUME NEW n \in Networks PROVE Covers(n, Held, 0)'
    <3>1. PICK p : p = Promised(n)'
      OBVIOUS
    <3>2. /\ p \in Nat /\ spent'[n] = 0 /\ balance' = balance
          /\ p + Costs(balance, n)
                <= balance[n]["feeHandler"]["wnt"] + balance[n]["signer"]["wnt"]
      BY <2>1, <3>1, PlanMakesCover
    <3>3. balance \in Balances
      BY DEF CreditInv, Typed
    <3>4. /\ NativeHeld(balance, n, Purse) = balance[n]["feeHandler"]["wnt"]
                          + balance[n]["signer"]["wnt"] + balance[n]["signer"]["eth"]
          /\ {balance[n]["feeHandler"]["wnt"], balance[n]["signer"]["wnt"],
              balance[n]["signer"]["eth"]} \subseteq Nat
          /\ NativeHeld(balance, n, Purse) <= NativeHeld(balance, n, Held)
      BY <3>3, PurseHeld
    <3>5. Costs(balance, n) \in Nat /\ NativeHeld(balance, n, Held) \in Nat
      BY <3>3, GasTyped, NativeTyped, HoldersFinite
    <3>6. p + Costs(balance, n) + 0 <= 0 + NativeHeld(balance, n, Held)
      BY <3>2, <3>4, <3>5
    <3>. QED  BY <3>1, <3>2, <3>6 DEF Covers
  <2>. QED  BY <2>2 DEF CoverInv
<1>2. CASE ~ \E include \in BOOLEAN : \E data \in DataChoices : CreatePlan(include, data)
  <2>1. plan' = plan
    BY <1>2 DEF Next, Operator, Process, Environment, Begin, Skip, Bridge, Send,
         SendTransfer, SendClaim, SendSpend, SendUnwrap, SendSwap, SendExcess,
         SendApprove, SendRate, SendBonus, SendNothing, Sent, Finish, Fail, SwapFails,
         Arrive, Crash, Burn, Tick, vars, planVars
  <2>2. Send => Within(todo[1], Held)
    <3>1. ASSUME Send PROVE Within(todo[1], Held)
      <4>1. todo # <<>> /\ todo \in Seq(AllTxs) /\ ListWithin(todo, Held)
        BY <3>1, SendOne DEF CreditInv, Typed, HandlerInv
      <4>. QED  BY <4>1, ListWithinTail
    <3>. QED  BY <3>1
  <2>3. ASSUME plan # NoPlan, NEW n \in Networks PROVE Covers(n, Held, 0)'
    <3>1. Covers(n, Held, 0) /\ Holders(Held) /\ 0 \in Nat
      BY <2>3, HoldersFinite DEF CoverInv
    <3>. QED  BY <1>2, <2>2, <2>3, <3>1, CoverKept
  <2>. QED  BY <2>1, <2>3 DEF CoverInv
<1>. QED  BY <1>1, <1>2

(* What is at hand or was paid, once the handler is empty.                 *)
LEMMA CoveredPlan ==
    ASSUME CreditInv, ProcessInv, HandlerInv, CoverInv
    PROVE  PlanCovered
<1>1. SUFFICES ASSUME Weekly, next > 2, NEW n \in Networks
      PROVE  Promised(n) <= spent[n]
                 + balance[n]["signer"]["wnt"] + balance[n]["signer"]["eth"]
                 + SumFunctionOnSet([o \in Owners |-> balance[n][o]["wnt"]], Payees)
  BY DEF PlanCovered, Weekly
<1>2. plan # NoPlan /\ Covers(n, Held, 0) /\ balance[n]["feeHandler"]["wnt"] = 0
  BY <1>1 DEF ProcessInv, CoverInv, HandlerInv, Emptied, CreditInv, Typed
<1>3. PICK b : b = balance
  OBVIOUS
<1>4. b \in Balances
  BY <1>3 DEF CreditInv, Typed
<1>5. /\ NativeHeld(b, n, Purse) = b[n]["feeHandler"]["wnt"]
                          + b[n]["signer"]["wnt"] + b[n]["signer"]["eth"]
      /\ {b[n]["feeHandler"]["wnt"], b[n]["signer"]["wnt"], b[n]["signer"]["eth"]}
            \subseteq Nat
  BY <1>4, PurseHeld
<1> DEFINE f == Native(b, n)
           g == [o \in Owners |-> b[n][o]["wnt"]]
<1>6. Held \ Purse = Payees /\ Payees \subseteq Owners /\ "signer" \notin Payees
  <2>1. \A a \in Recipients : a # "feeHandler" /\ a # "signer" /\ a \in Owners
    BY AccountsApart DEF Sources
  <2>. QED  BY <2>1 DEF Held, Purse, Payees, Owners, Places
<1>7. \A o \in Payees : g[o] \in Nat /\ f[o] = g[o]
  <2>1. ASSUME NEW o \in Payees PROVE g[o] \in Nat /\ f[o] = g[o]
    <3>1. o \in Owners /\ o # "signer" /\ b[n][o]["wnt"] \in Nat
      BY <1>4, <1>6, BalanceTyped DEF Tokens
    <3>. QED  BY <3>1 DEF Native
  <2>. QED  BY <2>1
<1>8. /\ IsFiniteSet(Held) /\ Purse \subseteq Held /\ \A o \in Held : f[o] \in Int
  BY <1>4, HoldersFinite, NativeTyped DEF Holders
<1>9. IsFiniteSet(Payees)
  BY <1>6, <1>8, FS_Subset
<1>10. /\ NativeHeld(b, n, Held) = SumFunctionOnSet(f, Held)
       /\ NativeHeld(b, n, Purse) = SumFunctionOnSet(f, Purse)
  BY DEF NativeHeld
<1>11. g = [o \in Owners |-> balance[n][o]["wnt"]]
  BY <1>3
<1>. HIDE DEF f, g
<1>12. SumFunctionOnSet(f, Held) = SumFunctionOnSet(f, Purse) + SumFunctionOnSet(f, Payees)
  <2>1. SumFunctionOnSet(f, Held)
            = SumFunctionOnSet(f, Purse) + SumFunctionOnSet(f, Held \ Purse)
    BY <1>8, SumSplit
  <2>. QED  BY <1>6, <2>1
<1>13. SumFunctionOnSet(f, Payees) = SumFunctionOnSet(g, Payees)
  <2>1. \A o \in Payees : g[o] \in Int /\ f[o] = g[o]
    BY <1>7
  <2>. QED  BY <1>9, <2>1, SumEqual
<1>14. SumFunctionOnSet(g, Payees) \in Nat
  BY <1>7, <1>9, SumType
<1>15. Promised(n) \in Nat /\ spent[n] \in Nat /\ Costs(b, n) \in Nat
  BY <1>2, <1>4, PromisedTyped, GasTyped DEF ProcessInv
<1>16. Promised(n) + Costs(b, n) + 0 <= spent[n] + NativeHeld(b, n, Held)
  BY <1>2, <1>3 DEF Covers
<1>17. b[n]["feeHandler"]["wnt"] = 0
  BY <1>2, <1>3
<1>18. Promised(n) <= spent[n] + b[n]["signer"]["wnt"] + b[n]["signer"]["eth"]
                         + SumFunctionOnSet(g, Payees)
  BY <1>5, <1>10, <1>12, <1>13, <1>14, <1>15, <1>16, <1>17
<1>. QED  BY <1>3, <1>11, <1>18

LEMMA CoverInvariant ==
    Spec => [](CreditInv /\ GasList /\ ProcessInv /\ HandlerInv /\ CoverInv)
<1> DEFINE Inv == CreditInv /\ GasList /\ ProcessInv /\ HandlerInv /\ CoverInv
<1>1. Init => Inv
  <2>1. Init => CreditInv /\ GasList /\ ProcessInv
    BY InitFits, ProcessStarts
  <2>2. Init => HandlerInv /\ CoverInv
    <3>1. ASSUME Init PROVE HandlerInv /\ CoverInv
      <4>1. /\ todo = <<>> /\ next = 1 /\ running = FALSE
            /\ plan = IF program = "processFees" THEN ReferencePlan ELSE NoPlan
        BY <3>1 DEF Init
      <4>. QED  BY <4>1, ListWithinNone DEF HandlerInv, CoverInv, Weekly
    <3>. QED  BY <3>1
  <2>. QED  BY <2>1, <2>2
<1>2. Inv /\ [Next]_vars => Inv'
  <2>1. ASSUME Inv, [Next]_vars PROVE Inv'
    <3>1. CreditInv' /\ GasList' /\ ProcessInv'
      BY <2>1, StepKeeps, ProcessKeeps DEF GasKept
    <3>2. HandlerInv' /\ CoverInv'
      <4>1. CASE Weekly
        BY <2>1, <4>1, HandlerKeeps, CoverKeeps
      <4>2. CASE ~Weekly
        <5>1. ~Weekly'
          BY <2>1, <4>2, ProgramFixed DEF Weekly
        <5>. QED  BY <5>1 DEF HandlerInv, CoverInv
      <4>. QED  BY <4>1, <4>2
    <3>. QED  BY <3>1, <3>2
  <2>. QED  BY <2>1
<1>. HIDE DEF Inv
<1>3. Spec => []Inv
  BY <1>1, <1>2, PTL DEF Spec
<1>. QED  BY <1>3 DEF Inv

(* Wherever a run is interrupted and whichever steps are repeated or left  *)
(* out, the native tokens that a plan promises are at hand or have been    *)
(* paid, but for the gas that keepers burned since.                        *)
THEOREM PlanStaysCovered == Spec => []PlanCovered
<1>1. CreditInv /\ GasList /\ ProcessInv /\ HandlerInv /\ CoverInv => PlanCovered
  BY CoveredPlan
<1>. QED  BY <1>1, CoverInvariant, PTL

-----------------------------------------------------------------------------
(* What a transaction takes from an account, and what it brings to one;    *)
(* and a list of them.                                                     *)
Takes(n, o, t) ==
    [tx \in AllTxs |-> IF tx.kind \in {"transfer", "spend"} /\ tx.net = n
                             /\ tx.from = o /\ tx.token = t THEN tx.amount ELSE 0]
Brings(n, o, t) ==
    [tx \in AllTxs |-> IF tx.kind \in {"transfer", "spend"} /\ tx.net = n
                             /\ tx.to = o /\ tx.token = t THEN tx.amount ELSE 0]
Outgo(s, n, o, t) == Total(Takes(n, o, t), s)
Income(s, n, o, t) == Total(Brings(n, o, t), s)

LEMMA TotalTail ==
    ASSUME NEW T, NEW f \in [T -> Nat], NEW s \in Seq(T), s # <<>>, NEW u, u = Tail(s)
    PROVE  /\ Total(f, s) = f[s[1]] + Total(f, u)
           /\ Total(f, s) \in Nat /\ Total(f, u) \in Nat /\ f[s[1]] \in Nat
<1>1. Len(u) \in Nat /\ Len(s) = Len(u) + 1 /\ Len(u) + 1 \in 1..(Len(u) + 1)
  OBVIOUS
<1>2. PICK i \in 1..(Len(u) + 1) : i = Len(u) + 1
  BY <1>1
<1>3. /\ Before(f, s, i + 1) = f[s[1]] + Before(f, u, i)
      /\ Before(f, s, i + 1) \in Nat /\ Before(f, u, i) \in Nat /\ f[s[1]] \in Nat
  BY BeforeTail
<1>4. (i + 1) - 1 = Len(s) /\ i - 1 = Len(u)
  BY <1>1, <1>2
<1>5. Before(f, s, i + 1) = Total(f, s) /\ Before(f, u, i) = Total(f, u)
  BY <1>4 DEF Before, Total
<1>. QED  BY <1>3, <1>5

LEMMA TotalNone ==
    ASSUME NEW T, NEW f \in [T -> Nat], NEW s \in Seq(T), \A j \in 1..Len(s) : f[s[j]] = 0
    PROVE  Total(f, s) = 0
<1>1. PICK i : i = Len(s) + 1
  OBVIOUS
<1>2. i \in 1..(Len(s) + 1) /\ i - 1 = Len(s) /\ \A j \in 1..(i - 1) : f[s[j]] = 0
  BY <1>1
<1>3. Before(f, s, i) = 0
  BY <1>2, BeforeNone
<1>. QED  BY <1>2, <1>3 DEF Before, Total

LEMMA TakesTyped ==
    ASSUME NEW n, NEW o, NEW t
    PROVE  Takes(n, o, t) \in [AllTxs -> Nat] /\ Brings(n, o, t) \in [AllTxs -> Nat]
<1>1. \A tx \in AllTxs : tx.amount \in Nat
  BY DEF AllTxs
<1>. QED  BY <1>1 DEF Takes, Brings

(* u is s without its head.                                                *)
Shorter(s, u, n, o, t) ==
    /\ Outgo(s, n, o, t) = Takes(n, o, t)[s[1]] + Outgo(u, n, o, t)
    /\ Income(s, n, o, t) = Brings(n, o, t)[s[1]] + Income(u, n, o, t)
    /\ Outgo(s, n, o, t) \in Nat /\ Outgo(u, n, o, t) \in Nat
    /\ Income(s, n, o, t) \in Nat /\ Income(u, n, o, t) \in Nat
    /\ Takes(n, o, t)[s[1]] \in Nat /\ Brings(n, o, t)[s[1]] \in Nat
LEMMA OutgoTail ==
    ASSUME NEW s \in Seq(AllTxs), s # <<>>, NEW u, u = Tail(s), NEW n, NEW o, NEW t
    PROVE  Shorter(s, u, n, o, t)
<1>1. PICK f, g : f = Takes(n, o, t) /\ g = Brings(n, o, t)
  OBVIOUS
<1>2. f \in [AllTxs -> Nat] /\ g \in [AllTxs -> Nat]
  BY <1>1, TakesTyped
<1>3. /\ Total(f, s) = f[s[1]] + Total(f, u)
      /\ Total(f, s) \in Nat /\ Total(f, u) \in Nat /\ f[s[1]] \in Nat
  BY <1>2, TotalTail
<1>4. /\ Total(g, s) = g[s[1]] + Total(g, u)
      /\ Total(g, s) \in Nat /\ Total(g, u) \in Nat /\ g[s[1]] \in Nat
  BY <1>2, TotalTail
<1>. QED  BY <1>1, <1>3, <1>4 DEF Outgo, Income, Shorter

-----------------------------------------------------------------------------
(* The transactions of the steps that check first. They are paid for by    *)
(* the fee keeper and by the wallet.                                       *)
Payers == {"signer", "wallet"}
Simple(tx) ==
    /\ tx.kind \in {"transfer", "spend", "require", "rate", "bonus", "approve"}
    /\ tx.from \in Payers
    /\ tx.kind \in {"spend", "approve"} => tx.from = "wallet"
(* In an orderly list nothing is needed before it comes in, taken before   *)
(* it is looked for, or spent before it is allowed.                        *)
Clash(x, y) ==
    /\ x.net = y.net /\ x.token = y.token
    /\ \/ /\ x.kind \in {"transfer", "spend", "require"}
          /\ y.kind \in {"transfer", "spend"} /\ y.to = x.from
       \/ /\ x.kind \in {"transfer", "spend"}
          /\ y.kind = "require" /\ y.from = x.from
       \/ x.kind = "spend" /\ y.kind = "approve" /\ y.from = x.from
Orderly(s) ==
    /\ \A i \in 1..Len(s) : Simple(s[i])
    /\ \A i, j \in 1..Len(s) : i < j => ~Clash(s[i], s[j])
Approves(s, n, t) ==
    \E i \in 1..Len(s) : s[i].kind = "approve" /\ s[i].net = n /\ s[i].token = t

(* The ledger b and the allowances a are enough for the list: for all it   *)
(* takes, looks for and has allowed.                                       *)
Provided(s, b) ==
    \A n \in Networks : \A o \in Payers : \A t \in Tokens :
        Outgo(s, n, o, t) <= b[n][o][t] + Income(s, n, o, t)
Required(s) ==
    \A i \in 1..Len(s) : s[i].kind = "require" =>
        s[i].amount <= Outgo(s, s[i].net, s[i].from, s[i].token)
Permitted(s, a) ==
    /\ \A i \in 1..Len(s) : s[i].kind = "approve" =>
          Outgo(s, s[i].net, "wallet", s[i].token) <= s[i].amount
    /\ \A n \in Networks : \A t \in Tokens :
          Approves(s, n, t) \/ Outgo(s, n, "wallet", t) <= a[n]["wallet"][t]
Ample(s, b, a) == Orderly(s) /\ Provided(s, b) /\ Required(s) /\ Permitted(s, a)

(* u is what comes behind the head of s.                                   *)
Behind(s, u) ==
    \A j \in 1..Len(u) :
        j + 1 \in 1..Len(s) /\ u[j] = s[j + 1] /\ ~Clash(s[1], u[j])
LEMMA OrderlyTail ==
    ASSUME NEW s \in Seq(AllTxs), s # <<>>, NEW u, u = Tail(s), Orderly(s)
    PROVE  Orderly(u) /\ Simple(s[1]) /\ Len(u) \in Nat /\ Behind(s, u)
<1>1. Len(s) = Len(u) + 1 /\ Len(u) \in Nat /\ \A i \in 1..Len(u) : u[i] = s[i + 1]
  OBVIOUS
<1>2. \A i \in 1..Len(u) : i + 1 \in 1..Len(s)
  BY <1>1
<1>3. 1 \in 1..Len(s)
  BY <1>1
<1>4. \A j \in 1..Len(u) : ~Clash(s[1], u[j])
  <2>1. TAKE j \in 1..Len(u)
  <2>2. j + 1 \in 1..Len(s) /\ 1 < j + 1
    BY <1>2
  <2>. QED  BY <1>1, <1>3, <2>2 DEF Orderly
<1>5. Simple(s[1])
  BY <1>3 DEF Orderly
<1>6. \A i \in 1..Len(u) : Simple(u[i])
  BY <1>1, <1>2 DEF Orderly
<1>7. ASSUME NEW i \in 1..Len(u), NEW j \in 1..Len(u), i < j PROVE ~Clash(u[i], u[j])
  <2>1. i + 1 < j + 1 /\ i + 1 \in 1..Len(s) /\ j + 1 \in 1..Len(s)
    BY <1>2, <1>7
  <2>. QED  BY <1>1, <2>1 DEF Orderly
<1>8. Orderly(u)
  BY <1>6, <1>7 DEF Orderly
<1>. QED  BY <1>1, <1>2, <1>4, <1>5, <1>8 DEF Behind

LEMMA TxTyped ==
    ASSUME NEW s \in Seq(AllTxs), NEW i \in 1..Len(s)
    PROVE  /\ s[i] \in AllTxs /\ s[i].net \in Networks /\ s[i].from \in Owners
           /\ s[i].to \in Owners /\ s[i].token \in Tokens /\ s[i].amount \in Nat
           /\ Sendable(s[i])
<1>1. s[i] \in AllTxs
  OBVIOUS
<1>2. \A o \in Sources : o \in Owners
  BY DEF Sources, Owners, Places
<1>. QED  BY <1>1, <1>2 DEF AllTxs

LEMMA OutgoTyped ==
    ASSUME NEW s \in Seq(AllTxs), NEW n, NEW o, NEW t
    PROVE  /\ Outgo(s, n, o, t) \in Nat /\ Income(s, n, o, t) \in Nat
           /\ \A i \in 1..Len(s) : Takes(n, o, t)[s[i]] <= Outgo(s, n, o, t)
<1>1. PICK f, g : f = Takes(n, o, t) /\ g = Brings(n, o, t)
  OBVIOUS
<1>2. f \in [AllTxs -> Nat] /\ g \in [AllTxs -> Nat]
  BY <1>1, TakesTyped
<1>3. Total(f, s) \in Nat /\ Total(g, s) \in Nat
  <2>1. 1..Len(s) \in SUBSET (1..Len(s))
    OBVIOUS
  <2>. QED  BY <1>2, <2>1, AlongType DEF Total
<1>4. ASSUME NEW i \in 1..Len(s) PROVE f[s[i]] <= Total(f, s)
  <2>1. Before(f, s, i) \in Nat /\ f[s[i]] \in Nat /\ Before(f, s, i) + f[s[i]] <= Total(f, s)
    BY <1>2, BeforeBound
  <2>. QED  BY <1>3, <2>1
<1>. QED  BY <1>1, <1>3, <1>4 DEF Outgo, Income

(* Nothing comes in any more for what the head of an orderly list needs.   *)
LEMMA HeadAlone ==
    ASSUME NEW s \in Seq(AllTxs), s # <<>>, Orderly(s),
           s[1].kind \in {"transfer", "spend", "require"}
    PROVE  /\ Income(s, s[1].net, s[1].from, s[1].token) = 0
           /\ s[1].kind = "spend" => ~Approves(s, s[1].net, s[1].token)
<1>1. PICK u : u = Tail(s)
  OBVIOUS
<1>2. PICK n, o, t : n = s[1].net /\ o = s[1].from /\ t = s[1].token
  OBVIOUS
<1>3. Orderly(u) /\ Simple(s[1]) /\ Len(u) \in Nat /\ Behind(s, u)
  BY <1>1, OrderlyTail
<1>4. 1 \in 1..Len(s) /\ Len(s) = Len(u) + 1
  BY <1>1
<1>5. ASSUME NEW i \in 1..Len(s) PROVE Brings(n, o, t)[s[i]] = 0
  <2>1. s[i] \in AllTxs /\ Sendable(s[i])
    BY TxTyped
  <2>2. CASE i = 1
    <3>1. s[1].kind \in {"transfer", "spend"} => s[1].to # o
      BY <1>2, <2>1, <2>2 DEF Sendable
    <3>. QED  BY <2>1, <2>2, <3>1 DEF Brings
  <2>3. CASE i # 1
    <3>1. PICK j \in 1..Len(u) : i = j + 1
      <4>1. i - 1 \in 1..Len(u) /\ i = (i - 1) + 1
        BY <1>3, <1>4, <2>3
      <4>. QED  BY <4>1
    <3>2. ~Clash(s[1], s[i])
      BY <1>3, <3>1 DEF Behind
    <3>3. ~(s[i].net = n /\ s[i].token = t /\ s[i].kind \in {"transfer", "spend"} /\ s[i].to = o)
      BY <1>2, <3>2 DEF Clash
    <3>. QED  BY <2>1, <3>3 DEF Brings
  <2>. QED  BY <2>2, <2>3
<1>6. Income(s, n, o, t) = 0
  <2>1. PICK g : g = Brings(n, o, t)
    OBVIOUS
  <2>2. g \in [AllTxs -> Nat] /\ \A i \in 1..Len(s) : g[s[i]] = 0
    BY <1>5, <2>1, TakesTyped
  <2>3. Total(g, s) = 0
    BY <2>2, TotalNone
  <2>. QED  BY <2>1, <2>3 DEF Income
<1>7. ASSUME s[1].kind = "spend", Approves(s, n, t) PROVE FALSE
  <2>1. PICK i \in 1..Len(s) : s[i].kind = "approve" /\ s[i].net = n /\ s[i].token = t
    BY <1>7 DEF Approves
  <2>2. i # 1
    BY <1>7, <2>1
  <2>3. i - 1 \in 1..Len(u) /\ (i - 1) + 1 = i
    BY <1>3, <1>4, <2>2
  <2>4. ~Clash(s[1], s[i])
    <3>1. PICK j \in 1..Len(u) : j + 1 = i
      BY <2>3
    <3>. QED  BY <1>3, <3>1 DEF Behind
  <2>5. s[i].from = "wallet" /\ o = "wallet"
    <3>1. Simple(s[i]) /\ Simple(s[1])
      BY <1>4 DEF Orderly
    <3>. QED  BY <1>2, <1>7, <2>1, <3>1 DEF Simple
  <2>. QED  BY <1>2, <1>7, <2>1, <2>4, <2>5 DEF Clash
<1>. QED  BY <1>2, <1>6, <1>7

LEMMA AmpleHead ==
    ASSUME NEW s \in Seq(AllTxs), s # <<>>, NEW b \in Balances, NEW a \in Allowances,
           Ample(s, b, a)
    PROVE  /\ s[1].kind \in {"transfer", "spend", "require"}
                 => s[1].amount <= b[s[1].net][s[1].from][s[1].token]
           /\ s[1].kind = "spend" => s[1].amount <= a[s[1].net][s[1].from][s[1].token]
           /\ s[1].kind \notin {"unwrap", "swap"}
<1>1. 1 \in 1..Len(s)
  OBVIOUS
<1>2. PICK n, o, t, m : n = s[1].net /\ o = s[1].from /\ t = s[1].token /\ m = s[1].amount
  OBVIOUS
<1>3. /\ s[1] \in AllTxs /\ n \in Networks /\ o \in Owners /\ t \in Tokens /\ m \in Nat
  BY <1>1, <1>2, TxTyped
<1>4. Simple(s[1]) /\ Orderly(s) /\ Provided(s, b) /\ Required(s) /\ Permitted(s, a)
  BY <1>1 DEF Ample, Orderly
<1>5. ASSUME s[1].kind \in {"transfer", "spend", "require"}
      PROVE  /\ m <= Outgo(s, n, o, t) /\ Outgo(s, n, o, t) <= b[n][o][t]
             /\ Outgo(s, n, o, t) \in Nat
             /\ s[1].kind = "spend" => ~Approves(s, n, t)
  <2>1. Outgo(s, n, o, t) \in Nat /\ Takes(n, o, t)[s[1]] <= Outgo(s, n, o, t)
    BY <1>1, OutgoTyped
  <2>2. Income(s, n, o, t) = 0 /\ (s[1].kind = "spend" => ~Approves(s, n, t))
    BY <1>2, <1>4, <1>5, HeadAlone
  <2>3. o \in Payers
    BY <1>2, <1>4 DEF Simple
  <2>4. Outgo(s, n, o, t) <= b[n][o][t] + Income(s, n, o, t)
    BY <1>3, <1>4, <2>3 DEF Provided
  <2>5. b[n][o][t] \in Nat
    BY <1>3, BalanceTyped
  <2>6. CASE s[1].kind = "require"
    <3>1. m <= Outgo(s, n, o, t)
      BY <1>1, <1>2, <1>4, <2>6 DEF Required
    <3>. QED  BY <2>1, <2>2, <2>4, <2>5, <3>1
  <2>7. CASE s[1].kind \in {"transfer", "spend"}
    <3>1. Takes(n, o, t)[s[1]] = m
      BY <1>2, <1>3, <2>7 DEF Takes
    <3>. QED  BY <2>1, <2>2, <2>4, <2>5, <3>1
  <2>. QED  BY <1>5, <2>6, <2>7
<1>6. ASSUME s[1].kind \in {"transfer", "spend", "require"} PROVE m <= b[n][o][t]
  <2>1. b[n][o][t] \in Nat
    BY <1>3, BalanceTyped
  <2>. QED  BY <1>3, <1>5, <1>6, <2>1
<1>7. ASSUME s[1].kind = "spend" PROVE m <= a[n][o][t]
  <2>1. o = "wallet"
    BY <1>2, <1>4, <1>7 DEF Simple
  <2>2. a[n]["wallet"][t] \in Nat
    BY <1>3 DEF Allowances, Spenders
  <2>3. Outgo(s, n, "wallet", t) <= a[n]["wallet"][t]
    BY <1>3, <1>4, <1>5, <1>7 DEF Permitted
  <2>. QED  BY <1>3, <1>5, <1>7, <2>1, <2>2, <2>3
<1>. QED  BY <1>2, <1>4, <1>6, <1>7 DEF Simple

LEMMA AmpleSuffices ==
    ASSUME CreditInv, allowance \in Allowances, todo # <<>>, Ample(todo, balance, allowance)
    PROVE  Affordable(Head(todo))
<1>1. PICK s, b, a : s = todo /\ b = balance /\ a = allowance
  OBVIOUS
<1>2. /\ s \in Seq(AllTxs) /\ s # <<>> /\ b \in Balances /\ a \in Allowances
      /\ Ample(s, b, a)
  BY <1>1 DEF CreditInv, Typed
<1>3. /\ s[1].kind \in {"transfer", "spend", "require"}
                 => s[1].amount <= b[s[1].net][s[1].from][s[1].token]
      /\ s[1].kind = "spend" => s[1].amount <= a[s[1].net][s[1].from][s[1].token]
      /\ s[1].kind \notin {"unwrap", "swap"}
  BY <1>2, AmpleHead
<1>4. 1 \in 1..Len(s)
  BY <1>2
<1>5. PICK tx : tx = s[1]
  OBVIOUS
<1>6. tx.net \in Networks /\ tx.from \in Owners /\ tx.token \in Tokens /\ tx.amount \in Nat
  BY <1>2, <1>4, <1>5, TxTyped
<1>7. b[tx.net][tx.from][tx.token] \in Nat
  BY <1>2, <1>6, BalanceTyped
<1>8. tx.kind = "spend" => a[tx.net][tx.from][tx.token] \in Nat
  <2>1. tx.kind = "spend" => tx.from \in Spenders
    BY <1>2, <1>4, <1>5, TxTyped DEF Sendable
  <2>. QED  BY <1>2, <1>6, <2>1 DEF Allowances
<1>9. Head(todo) = tx
  BY <1>1, <1>2, <1>5
<1>10. Affordable(tx)
  <2>1. SUFFICES ASSUME tx.kind \in {"transfer", "unwrap", "spend", "swap", "require"}
                 PROVE  Enough(tx) /\ Allowed(tx)
    BY DEF Affordable
  <2>2. tx.kind \in {"transfer", "spend", "require"}
    BY <1>3, <1>5, <2>1
  <2>3. Enough(tx)
    BY <1>1, <1>3, <1>5, <1>6, <1>7, <2>2 DEF Enough
  <2>4. Allowed(tx)
    BY <1>1, <1>3, <1>5, <1>6, <1>8 DEF Allowed
  <2>. QED  BY <2>3, <2>4
<1>. QED  BY <1>9, <1>10

LEMMA SimpleEffect ==
    ASSUME CreditInv, Send, NEW h, h = todo[1], Simple(h)
    PROVE  /\ balance' \in Balances /\ h \in AllTxs
           /\ \A n \in Networks : \A o \in Owners : \A t \in Tokens :
                 balance'[n][o][t] = balance[n][o][t] - Takes(n, o, t)[h] + Brings(n, o, t)[h]
<1>1. PICK tx : tx = Head(todo)
  OBVIOUS
<1>2. /\ todo # <<>> /\ tx = h /\ Sendable(tx) /\ balance \in Balances
      /\ tx.net \in Networks /\ tx.from \in Owners /\ tx.to \in Owners
      /\ tx.token \in Tokens /\ tx.amount \in Nat
  BY <1>1, SendOne, HeadTyped DEF CreditInv, Typed
<1>3. h \in AllTxs
  <2>1. 1 \in 1..Len(todo) /\ todo \in Seq(AllTxs)
    BY <1>2 DEF CreditInv, Typed
  <2>. QED  BY <2>1, TxTyped
<1>4. CASE Paying
  <2>1. /\ tx.kind \in {"transfer", "claim", "spend"} /\ balance' \in Balances
        /\ \E m \in Nat :
                 /\ m <= balance[tx.net][tx.from][tx.token]
                 /\ tx.kind \in {"transfer", "spend"} => m = tx.amount
                 /\ tx.kind = "claim" => m = balance[tx.net][tx.from][tx.token]
                 /\ Flows(balance, balance', tx.net, tx.from, tx.to, tx.token, m)
    BY <1>1, <1>4, PayingFlows
  <2>2. tx.kind \in {"transfer", "spend"}
    BY <1>2, <2>1 DEF Simple
  <2>3. Flows(balance, balance', tx.net, tx.from, tx.to, tx.token, tx.amount)
    BY <2>1, <2>2
  <2>4. ASSUME NEW n \in Networks, NEW o \in Owners, NEW t \in Tokens
        PROVE  balance'[n][o][t] = balance[n][o][t] - Takes(n, o, t)[h] + Brings(n, o, t)[h]
    <3>1. balance'[n][o][t] = balance[n][o][t]
                        - (IF n = tx.net /\ o = tx.from /\ t = tx.token THEN tx.amount ELSE 0)
                        + (IF n = tx.net /\ o = tx.to /\ t = tx.token THEN tx.amount ELSE 0)
      BY <2>3 DEF Flows
    <3>2. Takes(n, o, t)[h]
             = IF n = tx.net /\ o = tx.from /\ t = tx.token THEN tx.amount ELSE 0
      BY <1>2, <1>3, <2>2 DEF Takes
    <3>3. Brings(n, o, t)[h]
             = IF n = tx.net /\ o = tx.to /\ t = tx.token THEN tx.amount ELSE 0
      BY <1>2, <1>3, <2>2 DEF Brings
    <3>. QED  BY <3>1, <3>2, <3>3
  <2>. QED  BY <1>3, <2>1, <2>4
<1>5. CASE SendUnwrap \/ SendSwap \/ SendExcess
  <2>1. tx.kind \in {"unwrap", "swap", "excess"}
    BY <1>1, <1>5 DEF SendUnwrap, SendSwap, SendExcess, Sending
  <2>. QED  BY <1>2, <2>1 DEF Simple
<1>6. CASE Crediting
  <2>1. balance' = balance /\ tx.kind \notin {"transfer", "spend"}
    BY <1>1, <1>6
    DEF Crediting, SendApprove, SendRate, SendBonus, SendNothing, ledgerVars, Sending
  <2>2. ASSUME NEW n \in Networks, NEW o \in Owners, NEW t \in Tokens
        PROVE  balance'[n][o][t] = balance[n][o][t] - Takes(n, o, t)[h] + Brings(n, o, t)[h]
    <3>1. balance[n][o][t] \in Nat
      BY <1>2, BalanceTyped
    <3>2. Takes(n, o, t)[h] = 0 /\ Brings(n, o, t)[h] = 0
      BY <1>2, <1>3, <2>1 DEF Takes, Brings
    <3>. QED  BY <2>1, <3>1, <3>2
  <2>. QED  BY <1>2, <1>3, <2>1, <2>2
<1>7. Paying \/ SendUnwrap \/ SendSwap \/ SendExcess \/ Crediting
  BY SendOne
<1>. QED  BY <1>4, <1>5, <1>6, <1>7

(* An approval replaces what the wallet may spend, a payment takes from it. *)
LEMMA WalletAllowance ==
    ASSUME CreditInv, allowance \in Allowances, Send, NEW h, h = todo[1], Simple(h),
           NEW n \in Networks, NEW t \in Tokens
    PROVE  /\ allowance[n]["wallet"][t] \in Nat
           /\ allowance'[n]["wallet"][t]
                 = IF h.kind = "approve" /\ h.net = n /\ h.token = t THEN h.amount
                   ELSE IF h.kind = "spend" /\ h.net = n /\ h.token = t
                   THEN allowance[n]["wallet"][t] - h.amount
                   ELSE allowance[n]["wallet"][t]
<1>1. PICK tx : tx = Head(todo)
  OBVIOUS
<1>2. todo # <<>> /\ tx = h /\ Sendable(tx)
  BY <1>1, SendOne, HeadTyped DEF CreditInv, Typed
<1>3. allowance[n]["wallet"][t] \in Nat /\ "wallet" \in Spenders
  BY DEF Allowances, Spenders
<1>4. CASE SendSpend \/ SendApprove
  <2>1. PICK x \in Nat :
                 /\ SendSpend => tx.kind = "spend"
                        /\ x = allowance[tx.net][tx.from][tx.token] - tx.amount
                 /\ SendApprove => tx.kind = "approve" /\ x = tx.amount
                 /\ Updated(allowance, allowance', tx.net, tx.from, tx.token, x)
    BY <1>1, <1>4, AllowanceEffect
  <2>2. tx.net \in Networks /\ tx.from = "wallet" /\ tx.token \in Tokens
    BY <1>2, <1>4, <2>1, AllowanceEffect DEF Simple, Sendable
  <2>3. PICK b, c, k, o, u : b = allowance /\ c = allowance' /\ k = tx.net
                                /\ o = tx.from /\ u = tx.token
    OBVIOUS
  <2>4. /\ b \in Allowances /\ k \in Networks /\ o \in Spenders /\ u \in Tokens
        /\ Updated(b, c, k, o, u, x)
    BY <1>3, <2>1, <2>2, <2>3
  <2>5. /\ c[k][o][u] = x
        /\ \A m \in Networks : \A p \in Spenders : \A v \in Tokens :
              m # k \/ p # o \/ v # u => c[m][p][v] = b[m][p][v]
    BY <2>4, AllowanceUpdated
  <2>6. CASE n = k /\ t = u
    <3>1. allowance'[n]["wallet"][t] = x
      BY <2>2, <2>3, <2>5, <2>6
    <3>. QED  BY <1>2, <1>3, <1>4, <2>1, <2>2, <2>3, <2>6, <3>1
  <2>7. CASE n # k \/ t # u
    <3>1. allowance'[n]["wallet"][t] = allowance[n]["wallet"][t]
      BY <1>3, <2>3, <2>5, <2>7
    <3>. QED  BY <1>2, <1>3, <2>3, <2>7, <3>1
  <2>. QED  BY <2>6, <2>7
<1>5. CASE ~(SendSpend \/ SendApprove)
  <2>1. UNCHANGED allowance
    BY <1>5 DEF Send, SendTransfer, SendClaim, SendUnwrap, SendSwap,
       SendExcess, SendRate, SendBonus, SendNothing, ledgerVars
  <2>2. tx.kind \notin {"spend", "approve"}
    BY <1>1, <1>5 DEF Send, SendTransfer, SendClaim, SendUnwrap, SendSwap,
       SendExcess, SendRate, SendBonus, SendNothing, Sending
  <2>. QED  BY <1>2, <1>3, <2>1, <2>2
<1>. QED  BY <1>4, <1>5

(* Sending the first transaction leaves enough for the others.             *)
LEMMA AmpleSent ==
    ASSUME CreditInv, allowance \in Allowances, Send, Ample(todo, balance, allowance)
    PROVE  Ample(todo', balance', allowance')
<1>1. PICK s, u, b, c, a, d, h :
          /\ s = todo /\ u = todo' /\ b = balance /\ c = balance'
          /\ a = allowance /\ d = allowance' /\ h = todo[1]
  OBVIOUS
<1>2. /\ s \in Seq(AllTxs) /\ s # <<>> /\ u = Tail(s) /\ h = s[1] /\ Ample(s, b, a)
      /\ b \in Balances /\ a \in Allowances
  BY <1>1, SendOne DEF CreditInv, Typed
<1>3. Orderly(s) /\ Provided(s, b) /\ Required(s) /\ Permitted(s, a)
  BY <1>2 DEF Ample
<1>4. Orderly(u) /\ Simple(h) /\ Len(u) \in Nat /\ Behind(s, u)
  BY <1>2, <1>3, OrderlyTail
<1>5. /\ c \in Balances /\ h \in AllTxs
      /\ \A n \in Networks : \A o \in Owners : \A t \in Tokens :
            c[n][o][t] = b[n][o][t] - Takes(n, o, t)[h] + Brings(n, o, t)[h]
  BY <1>1, <1>4, SimpleEffect
<1>6. ASSUME NEW n, NEW o, NEW t
      PROVE  /\ Outgo(s, n, o, t) = Takes(n, o, t)[h] + Outgo(u, n, o, t)
             /\ Income(s, n, o, t) = Brings(n, o, t)[h] + Income(u, n, o, t)
             /\ {Outgo(s, n, o, t), Outgo(u, n, o, t), Takes(n, o, t)[h],
                 Income(s, n, o, t), Income(u, n, o, t), Brings(n, o, t)[h]} \subseteq Nat
  <2>0. s \in Seq(AllTxs) /\ s # <<>> /\ u = Tail(s)
    BY <1>2
  <2>1. Shorter(s, u, n, o, t)
    BY <2>0, OutgoTail
  <2>. QED  BY <1>2, <2>1 DEF Shorter
<1>7. Provided(u, c)
  <2>1. ASSUME NEW n \in Networks, NEW o \in Payers, NEW t \in Tokens
        PROVE  Outgo(u, n, o, t) <= c[n][o][t] + Income(u, n, o, t)
    <3>1. Outgo(s, n, o, t) <= b[n][o][t] + Income(s, n, o, t)
      BY <1>3 DEF Provided
    <3>2. o \in Owners
      BY DEF Payers, Owners, Places
    <3>3. b[n][o][t] \in Nat
      BY <1>2, <3>2, BalanceTyped
    <3>4. c[n][o][t] = b[n][o][t] - Takes(n, o, t)[h] + Brings(n, o, t)[h]
      BY <1>5, <3>2
    <3>5. PICK x1, x2, x3, y1, y2, y3 :
              /\ x1 = Outgo(s, n, o, t) /\ x2 = Takes(n, o, t)[h] /\ x3 = Outgo(u, n, o, t)
              /\ y1 = Income(s, n, o, t) /\ y2 = Brings(n, o, t)[h] /\ y3 = Income(u, n, o, t)
      OBVIOUS
    <3>6. x1 = x2 + x3 /\ y1 = y2 + y3 /\ {x1, x2, x3, y1, y2, y3} \subseteq Nat
      BY <1>6, <3>5
    <3>. QED  BY <3>1, <3>3, <3>4, <3>5, <3>6
  <2>. QED  BY <2>1 DEF Provided
<1>8. Required(u)
  <2>1. ASSUME NEW j \in 1..Len(u), u[j].kind = "require"
        PROVE  u[j].amount <= Outgo(u, u[j].net, u[j].from, u[j].token)
    <3>1. PICK n, o, t : n = u[j].net /\ o = u[j].from /\ t = u[j].token
      OBVIOUS
    <3>2. j + 1 \in 1..Len(s) /\ u[j] = s[j + 1] /\ ~Clash(h, u[j])
      BY <1>2, <1>4 DEF Behind
    <3>3. u[j].amount <= Outgo(s, n, o, t)
      <4>1. PICK i : i = j + 1
        OBVIOUS
      <4>2. s[i].kind = "require" /\ i \in 1..Len(s)
        BY <2>1, <3>2, <4>1
      <4>3. s[i].amount <= Outgo(s, s[i].net, s[i].from, s[i].token)
        BY <1>3, <4>2 DEF Required
      <4>. QED  BY <3>1, <3>2, <4>1, <4>3
    <3>4. Takes(n, o, t)[h] = 0
      BY <1>5, <2>1, <3>1, <3>2 DEF Takes, Clash
    <3>5. Outgo(s, n, o, t) = Outgo(u, n, o, t)
      BY <1>6, <3>4
    <3>. QED  BY <3>1, <3>3, <3>5
  <2>. QED  BY <2>1 DEF Required
<1>9. Permitted(u, d)
  <2>1. ASSUME NEW j \in 1..Len(u), u[j].kind = "approve"
        PROVE  Outgo(u, u[j].net, "wallet", u[j].token) <= u[j].amount
    <3>1. PICK n, t : n = u[j].net /\ t = u[j].token
      OBVIOUS
    <3>2. PICK i \in 1..Len(s) : s[i] = u[j]
      BY <1>4 DEF Behind
    <3>3. Outgo(s, n, "wallet", t) <= u[j].amount /\ u[j].amount \in Nat
      BY <1>2, <1>3, <2>1, <3>1, <3>2, TxTyped DEF Permitted
    <3>4. Outgo(u, n, "wallet", t) <= Outgo(s, n, "wallet", t)
          /\ Outgo(u, n, "wallet", t) \in Nat /\ Outgo(s, n, "wallet", t) \in Nat
      BY <1>6
    <3>. QED  BY <3>1, <3>3, <3>4
  <2>2. ASSUME NEW n \in Networks, NEW t \in Tokens
        PROVE  Approves(u, n, t) \/ Outgo(u, n, "wallet", t) <= d[n]["wallet"][t]
    <3>1. PICK o, x, y, z : /\ o = "wallet" /\ x = Outgo(s, n, "wallet", t)
                            /\ y = Outgo(u, n, "wallet", t) /\ z = Takes(n, "wallet", t)[h]
      OBVIOUS
    <3>2. x = z + y /\ x \in Nat /\ y \in Nat /\ z \in Nat
      BY <1>6, <3>1
    <3>3. /\ a[n]["wallet"][t] \in Nat
          /\ d[n]["wallet"][t]
                 = IF h.kind = "approve" /\ h.net = n /\ h.token = t THEN h.amount
                   ELSE IF h.kind = "spend" /\ h.net = n /\ h.token = t
                   THEN a[n]["wallet"][t] - h.amount
                   ELSE a[n]["wallet"][t]
      BY <1>1, <1>4, WalletAllowance
    <3>4. h.amount \in Nat /\ 1 \in 1..Len(s)
      BY <1>2, <1>5 DEF AllTxs
    <3>5. CASE h.kind = "approve" /\ h.net = n /\ h.token = t
      <4>1. x <= h.amount
        BY <1>2, <1>3, <3>1, <3>4, <3>5 DEF Permitted
      <4>2. d[n]["wallet"][t] = h.amount
        BY <3>3, <3>5
      <4>. QED  BY <3>1, <3>2, <3>4, <4>1, <4>2
    <3>6. CASE ~(h.kind = "approve" /\ h.net = n /\ h.token = t)
      <4>1. CASE x <= a[n]["wallet"][t]
        <5>1. CASE h.kind = "spend" /\ h.net = n /\ h.token = t
          <6>1. h.from = "wallet"
            BY <1>4, <5>1 DEF Simple
          <6>2. z = h.amount
            BY <1>5, <3>1, <5>1, <6>1 DEF Takes
          <6>3. d[n]["wallet"][t] = a[n]["wallet"][t] - h.amount
            BY <3>3, <3>6, <5>1
          <6>. QED  BY <3>1, <3>2, <3>3, <3>4, <4>1, <6>2, <6>3
        <5>2. CASE ~(h.kind = "spend" /\ h.net = n /\ h.token = t)
          <6>1. d[n]["wallet"][t] = a[n]["wallet"][t]
            BY <3>3, <3>6, <5>2
          <6>. QED  BY <3>1, <3>2, <3>3, <4>1, <6>1
        <5>. QED  BY <5>1, <5>2
      <4>2. CASE Approves(s, n, t)
        <5>1. PICK i \in 1..Len(s) : s[i].kind = "approve" /\ s[i].net = n /\ s[i].token = t
          BY <4>2 DEF Approves
        <5>2. i # 1
          BY <1>2, <3>6, <5>1
        <5>3. PICK j \in 1..Len(u) : j + 1 = i
          <6>1. Len(s) = Len(u) + 1
            BY <1>2
          <6>2. i - 1 \in 1..Len(u) /\ (i - 1) + 1 = i
            BY <1>4, <5>2, <6>1
          <6>. QED  BY <6>2
        <5>4. u[j] = s[i]
          BY <1>4, <5>3 DEF Behind
        <5>. QED  BY <5>1, <5>4 DEF Approves
      <4>. QED  BY <1>3, <3>1, <4>1, <4>2 DEF Permitted
    <3>. QED  BY <3>5, <3>6
  <2>. QED  BY <2>1, <2>2 DEF Permitted
<1>10. Ample(u, c, d)
  BY <1>4, <1>7, <1>8, <1>9 DEF Ample
<1>. QED  BY <1>1, <1>10

-----------------------------------------------------------------------------
(* Lists in which the fee keeper pays others, and nothing else is asked    *)
(* of the ledger.                                                          *)
Pays(tx) ==
    tx.kind \in {"transfer", "rate"} /\ tx.from = "signer" /\ tx.to \notin Payers
PayList(s) == s \in Seq({tx \in AllTxs : Pays(tx)})

LEMMA AmplePayments ==
    ASSUME NEW s, PayList(s), NEW b \in Balances, NEW a \in Allowances,
           \A n \in Networks : \A t \in Tokens : Outgo(s, n, "signer", t) <= b[n]["signer"][t]
    PROVE  Ample(s, b, a) /\ s \in Seq(AllTxs)
<1>1. s \in Seq(AllTxs) /\ \A i \in 1..Len(s) : s[i] \in AllTxs /\ Pays(s[i])
  BY DEF PayList
<1>2. Orderly(s)
  BY <1>1 DEF Orderly, Pays, Simple, Clash, Payers
<1>3. ASSUME NEW n, NEW t PROVE Outgo(s, n, "wallet", t) = 0
  <2>1. PICK f : f = Takes(n, "wallet", t)
    OBVIOUS
  <2>2. f \in [AllTxs -> Nat]
    BY <2>1, TakesTyped
  <2>3. \A i \in 1..Len(s) : f[s[i]] = 0
    BY <1>1, <2>1 DEF Takes, Pays
  <2>4. Total(f, s) = 0
    BY <1>1, <2>2, <2>3, TotalNone
  <2>. QED  BY <2>1, <2>4 DEF Outgo
<1>4. Provided(s, b)
  <2>1. ASSUME NEW n \in Networks, NEW o \in Payers, NEW t \in Tokens
        PROVE  Outgo(s, n, o, t) <= b[n][o][t] + Income(s, n, o, t)
    <3>1. Income(s, n, o, t) \in Nat /\ Outgo(s, n, o, t) \in Nat
      BY <1>1, OutgoTyped
    <3>2. b[n][o][t] \in Nat
      <4>1. o \in Owners
        BY DEF Payers, Owners, Places
      <4>. QED  BY <4>1, BalanceTyped
    <3>3. Outgo(s, n, o, t) <= b[n][o][t]
      <4>1. CASE o = "signer"
        BY <4>1
      <4>2. CASE o = "wallet"
        BY <1>3, <3>2, <4>2
      <4>. QED  BY <4>1, <4>2 DEF Payers
    <3>. QED  BY <3>1, <3>2, <3>3
  <2>. QED  BY <2>1 DEF Provided
<1>5. Required(s)
  BY <1>1 DEF Required, Pays
<1>6. Permitted(s, a)
  <2>1. \A n \in Networks : \A t \in Tokens : a[n]["wallet"][t] \in Nat
    BY DEF Allowances, Spenders
  <2>. QED  BY <1>1, <1>3, <2>1 DEF Permitted, Pays
<1>. QED  BY <1>1, <1>2, <1>4, <1>5, <1>6 DEF Ample

LEMMA PayListJoined ==
    ASSUME NEW s, PayList(s), NEW r, PayList(r), NEW u, Joins(u, s, r)
    PROVE  PayList(u)
  BY DEF PayList, Joins

LEMMA OutgoJoined ==
    ASSUME NEW s \in Seq(AllTxs), NEW r \in Seq(AllTxs), NEW u, Joins(u, s, r),
           NEW n, NEW o, NEW t
    PROVE  /\ Outgo(u, n, o, t) = Outgo(s, n, o, t) + Outgo(r, n, o, t)
           /\ Income(u, n, o, t) = Income(s, n, o, t) + Income(r, n, o, t)
           /\ u \in Seq(AllTxs)
<1>1. PICK f, g : f = Takes(n, o, t) /\ g = Brings(n, o, t)
  OBVIOUS
<1>2. f \in [AllTxs -> Nat] /\ g \in [AllTxs -> Nat]
  BY <1>1, TakesTyped
<1>3. Total(f, u) = Total(f, s) + Total(f, r)
  BY <1>2, BeforeConcat
<1>4. Total(g, u) = Total(g, s) + Total(g, r)
  BY <1>2, BeforeConcat
<1>5. u \in Seq(AllTxs)
  BY DEF Joins
<1>. QED  BY <1>1, <1>3, <1>4, <1>5 DEF Outgo, Income

(* What two transactions of the fee keeper take.                           *)
LEMMA TwoPayments ==
    ASSUME NEW x \in AllTxs, Pays(x), NEW y \in AllTxs, Pays(y), NEW s, s = <<x, y>>
    PROVE  /\ PayList(s) /\ s \in Seq(AllTxs)
           /\ \A n, t : Outgo(s, n, "signer", t)
                           = Takes(n, "signer", t)[x] + Takes(n, "signer", t)[y]
<1>1. PayList(s) /\ s \in Seq(AllTxs)
  BY DEF PayList
<1>2. ASSUME NEW n, NEW t
      PROVE  Outgo(s, n, "signer", t) = Takes(n, "signer", t)[x] + Takes(n, "signer", t)[y]
  <2>1. PICK f : f = Takes(n, "signer", t)
    OBVIOUS
  <2>2. f \in [AllTxs -> Nat]
    BY <2>1, TakesTyped
  <2>3. Total(f, <<x, y>>) = f[x] + f[y]
    BY <2>2, TotalTwo
  <2>. QED  BY <2>1, <2>3 DEF Outgo
<1>. QED  BY <1>1, <1>2

RewardTokens == {"gmx", "wnt"}
LEMMA TransferTakes ==
    ASSUME NEW n \in Networks, NEW to \in Places, to \notin {"signer", "wallet"},
           NEW token \in RewardTokens, NEW amount \in Nat, NEW x, x = Pay(n, to, token, amount)
    PROVE  /\ x \in AllTxs /\ Pays(x)
           /\ \A k, t : Takes(k, "signer", t)[x] = IF n = k /\ token = t THEN amount ELSE 0
<1>1. /\ x.kind = "transfer" /\ x.net = n /\ x.from = "signer" /\ x.to = to
      /\ x.token = token /\ x.amount = amount
  BY DEF Pay, Tx
<1>2. x \in AllTxs
  BY DEF Pay, Tx, AllTxs, Sendable, Kinds, Sources, Owners, Places, Tokens, RewardTokens
<1>. QED  BY <1>1, <1>2 DEF Pays, Payers, Takes

LEMMA RateTakes ==
    ASSUME NEW n \in Networks, NEW tracker \in Trackers,
           NEW token \in RewardTokens, NEW weekly \in Nat,
           NEW x, x = Tx("rate", n, "signer", tracker, token, weekly)
    PROVE  /\ x \in AllTxs /\ Pays(x)
           /\ \A k, t : Takes(k, "signer", t)[x] = 0
<1>1. /\ x.kind = "rate" /\ x.from = "signer" /\ x.to = tracker
  BY DEF Tx
<1>2. x \in AllTxs
  BY DEF Tx, AllTxs, Sendable, Kinds, Sources, Owners, Places, Tokens, Trackers,
      RewardTokens
<1>. QED  BY <1>1, <1>2 DEF Pays, Payers, Takes, Trackers

(* What a list of payments on network n takes from the fee keeper.         *)
PaysOut(s, n, token, amount) ==
    /\ PayList(s) /\ s \in Seq(AllTxs)
    /\ \A k, t : Outgo(s, k, "signer", t) = IF n = k /\ token = t THEN amount ELSE 0
LEMMA RewardPaid ==
    ASSUME NEW n \in Networks, NEW tracker \in Trackers, NEW token \in RewardTokens,
           NEW amount \in Nat, NEW weekly \in Nat,
           NEW s, s = Reward(n, tracker, token, amount, weekly)
    PROVE  PaysOut(s, n, token, amount)
<1>1. PICK x, y : /\ x = Pay(n, tracker, token, amount)
                  /\ y = Tx("rate", n, "signer", tracker, token, weekly)
  OBVIOUS
<1>2. tracker \in Places /\ tracker \notin {"signer", "wallet"}
  BY DEF Trackers, Places
<1>3. /\ x \in AllTxs /\ Pays(x)
      /\ \A k, t : Takes(k, "signer", t)[x] = IF n = k /\ token = t THEN amount ELSE 0
  BY <1>1, <1>2, TransferTakes
<1>4. y \in AllTxs /\ Pays(y) /\ \A k, t : Takes(k, "signer", t)[y] = 0
  BY <1>1, RateTakes
<1>5. s = <<x, y>>
  BY <1>1 DEF Reward
<1>6. /\ PayList(s) /\ s \in Seq(AllTxs)
      /\ \A k, t : Outgo(s, k, "signer", t)
                           = Takes(k, "signer", t)[x] + Takes(k, "signer", t)[y]
  BY <1>3, <1>4, <1>5, TwoPayments
<1>. QED  BY <1>3, <1>4, <1>6 DEF PaysOut

LEMMA PaymentsPaid ==
    ASSUME PlanTyped(plan), NEW n \in Networks, NEW s, s = Payments(n)
    PROVE  PaysOut(s, n, "wnt", plan.treasury[n] + plan.chainlink[n])
<1>1. PICK x, y : /\ x = Pay(n, "treasury", "wnt", plan.treasury[n])
                  /\ y = Pay(n, "chainlink", "wnt", plan.chainlink[n])
  OBVIOUS
<1>2. plan.treasury[n] \in Nat /\ plan.chainlink[n] \in Nat
  BY DEF PlanTyped
<1>7. /\ {"treasury", "chainlink"} \subseteq Places \ {"signer", "wallet"}
      /\ "wnt" \in RewardTokens
  BY DEF Places, RewardTokens
<1>3. /\ x \in AllTxs /\ Pays(x)
      /\ \A k, t : Takes(k, "signer", t)[x] = IF n = k /\ "wnt" = t THEN plan.treasury[n] ELSE 0
  BY <1>1, <1>2, <1>7, TransferTakes
<1>4. /\ y \in AllTxs /\ Pays(y)
      /\ \A k, t : Takes(k, "signer", t)[y] = IF n = k /\ "wnt" = t THEN plan.chainlink[n] ELSE 0
  BY <1>1, <1>2, <1>7, TransferTakes
<1>5. s = <<x, y>>
  BY <1>1 DEF Payments
<1>6. /\ PayList(s) /\ s \in Seq(AllTxs)
      /\ \A k, t : Outgo(s, k, "signer", t)
                           = Takes(k, "signer", t)[x] + Takes(k, "signer", t)[y]
  BY <1>3, <1>4, <1>5, TwoPayments
<1>. QED  BY <1>2, <1>3, <1>4, <1>6 DEF PaysOut

LEMMA NetworksApart ==
    /\ arb \in Networks /\ avax \in Networks /\ arb # avax
    /\ \A n \in Networks : n = arb \/ n = avax
  BY AccountsAssumption DEF Networks

(* A step that pays the same token on both networks.                       *)
LEMMA AmpleBoth ==
    ASSUME NEW token \in Tokens, NEW x \in [Networks -> Nat],
           NEW p, PaysOut(p, arb, token, x[arb]), NEW q, PaysOut(q, avax, token, x[avax]),
           NEW u, Joins(u, p, q), NEW b \in Balances, NEW a \in Allowances,
           \A n \in Networks : x[n] <= b[n]["signer"][token]
    PROVE  /\ Ample(u, b, a)
           /\ \A n \in Networks : Outgo(u, n, "signer", token) = x[n]
<1>1. PayList(p) /\ p \in Seq(AllTxs) /\ PayList(q) /\ q \in Seq(AllTxs)
  BY DEF PaysOut
<1>2. PayList(u)
  BY <1>1, PayListJoined
<1>3. ASSUME NEW n \in Networks, NEW t \in Tokens
      PROVE  Outgo(u, n, "signer", t) = IF token = t THEN x[n] ELSE 0
  <2>1. Outgo(u, n, "signer", t) = Outgo(p, n, "signer", t) + Outgo(q, n, "signer", t)
    BY <1>1, OutgoJoined
  <2>2. /\ Outgo(p, n, "signer", t) = IF arb = n /\ token = t THEN x[arb] ELSE 0
        /\ Outgo(q, n, "signer", t) = IF avax = n /\ token = t THEN x[avax] ELSE 0
    BY DEF PaysOut
  <2>3. x[arb] \in Nat /\ x[avax] \in Nat
    BY NetworksApart
  <2>4. CASE n = arb
    BY <2>1, <2>2, <2>3, <2>4, NetworksApart
  <2>5. CASE n = avax
    BY <2>1, <2>2, <2>3, <2>5, NetworksApart
  <2>. QED  BY <2>4, <2>5, NetworksApart
<1>4. ASSUME NEW n \in Networks, NEW t \in Tokens
      PROVE  Outgo(u, n, "signer", t) <= b[n]["signer"][t]
  <2>1. b[n]["signer"][t] \in Nat
    BY BalanceTyped DEF Owners, Places
  <2>. QED  BY <1>3, <2>1
<1>5. Ample(u, b, a)
  BY <1>2, <1>4, AmplePayments
<1>. QED  BY <1>3, <1>5

LEMMA GmxAmple ==
    ASSUME Ready, allowance \in Allowances, AcceptsStep("gmx")
    PROVE  Ample(Both(BuybackRewards), balance, allowance)
<1>1. PICK p, q, u, b, a, x :
          /\ p = BuybackRewards(arb) /\ q = BuybackRewards(avax)
          /\ u = Both(BuybackRewards) /\ b = balance /\ a = allowance
          /\ x = [n \in Networks |-> plan.gmx[n]]
  OBVIOUS
<1>2. \A n \in Networks : plan.gmx[n] \in Nat
  BY DEF Ready, PlanTyped
<1>3. b \in Balances /\ a \in Allowances /\ x \in [Networks -> Nat]
  BY <1>1, <1>2 DEF Ready
<1>4. "gmxDistributor" \in Trackers /\ "gmx" \in RewardTokens /\ "gmx" \in Tokens
  BY DEF Trackers, RewardTokens, Tokens
<1>5. PaysOut(p, arb, "gmx", x[arb])
  <2>1. p = Reward(arb, "gmxDistributor", "gmx", x[arb], x[arb]) /\ x[arb] \in Nat
    BY <1>1, <1>3, NetworksApart DEF BuybackRewards
  <2>. QED  BY <1>4, <2>1, NetworksApart, RewardPaid
<1>6. PaysOut(q, avax, "gmx", x[avax])
  <2>1. q = Reward(avax, "gmxDistributor", "gmx", x[avax], x[avax]) /\ x[avax] \in Nat
    BY <1>1, <1>3, NetworksApart DEF BuybackRewards
  <2>. QED  BY <1>4, <2>1, NetworksApart, RewardPaid
<1>7. Joins(u, p, q)
  BY <1>1 DEF Both, Joins
<1>8. ASSUME NEW n \in Networks PROVE x[n] <= b[n]["signer"]["gmx"]
  <2>1. Holds(n, "gmx", plan.gmx[n])
    BY DEF AcceptsStep, Accepts
  <2>2. b[n]["signer"]["gmx"] \in Nat
    BY <1>3, BalanceTyped DEF Owners, Places, Tokens
  <2>. QED  BY <1>1, <1>2, <2>1, <2>2 DEF Holds
<1>9. Ample(u, b, a)
  BY <1>3, <1>4, <1>5, <1>6, <1>7, <1>8, AmpleBoth
<1>. QED  BY <1>1, <1>9

LEMMA GlpAmple ==
    ASSUME Ready, allowance \in Allowances, AcceptsStep("glp")
    PROVE  Ample(Both(GlpRewards), balance, allowance)
<1>1. PICK p, q, u, b, a, x :
          /\ p = GlpRewards(arb) /\ q = GlpRewards(avax)
          /\ u = Both(GlpRewards) /\ b = balance /\ a = allowance
          /\ x = [n \in Networks |-> plan.glp[n]]
  OBVIOUS
<1>2. \A n \in Networks : plan.glp[n] \in Nat /\ GlpRate(n) \in Nat
  BY DEF Ready, PlanTyped, GlpRate
<1>3. b \in Balances /\ a \in Allowances /\ x \in [Networks -> Nat]
  BY <1>1, <1>2 DEF Ready
<1>4. "glpDistributor" \in Trackers /\ "wnt" \in RewardTokens /\ "wnt" \in Tokens
  BY DEF Trackers, RewardTokens, Tokens
<1>5. PaysOut(p, arb, "wnt", x[arb])
  <2>1. p = Reward(arb, "glpDistributor", "wnt", x[arb], GlpRate(arb)) /\ x[arb] \in Nat
    BY <1>1, <1>3, NetworksApart DEF GlpRewards
  <2>. QED  BY <1>2, <1>4, <2>1, NetworksApart, RewardPaid
<1>6. PaysOut(q, avax, "wnt", x[avax])
  <2>1. q = Reward(avax, "glpDistributor", "wnt", x[avax], GlpRate(avax)) /\ x[avax] \in Nat
    BY <1>1, <1>3, NetworksApart DEF GlpRewards
  <2>. QED  BY <1>2, <1>4, <2>1, NetworksApart, RewardPaid
<1>7. Joins(u, p, q)
  BY <1>1 DEF Both, Joins
<1>8. ASSUME NEW n \in Networks PROVE x[n] <= b[n]["signer"]["wnt"]
  <2>1. Holds(n, "wnt", plan.glp[n])
    BY DEF AcceptsStep, Accepts
  <2>2. b[n]["signer"]["wnt"] \in Nat
    BY <1>3, BalanceTyped DEF Owners, Places, Tokens
  <2>. QED  BY <1>1, <1>2, <2>1, <2>2 DEF Holds
<1>9. Ample(u, b, a)
  BY <1>3, <1>4, <1>5, <1>6, <1>7, <1>8, AmpleBoth
<1>. QED  BY <1>1, <1>9

LEMMA PaymentsAmple ==
    ASSUME Ready, allowance \in Allowances,
           \A n \in Networks : plan.treasury[n] + plan.chainlink[n] <= balance[n]["signer"]["wnt"]
    PROVE  Ample(SendPayments, balance, allowance)
<1>1. PICK p, q, u, b, a, x :
          /\ p = Payments(arb) /\ q = Payments(avax)
          /\ u = SendPayments /\ b = balance /\ a = allowance
          /\ x = [n \in Networks |-> plan.treasury[n] + plan.chainlink[n]]
  OBVIOUS
<1>2. \A n \in Networks : plan.treasury[n] \in Nat /\ plan.chainlink[n] \in Nat
  BY DEF Ready, PlanTyped
<1>3. b \in Balances /\ a \in Allowances /\ x \in [Networks -> Nat]
  BY <1>1, <1>2 DEF Ready
<1>4. "wnt" \in Tokens
  BY DEF Tokens
<1>5. \A n \in Networks : x[n] = plan.treasury[n] + plan.chainlink[n]
  BY <1>1
<1>6. PaysOut(p, arb, "wnt", x[arb]) /\ PaysOut(q, avax, "wnt", x[avax])
  BY <1>1, <1>5, NetworksApart, PaymentsPaid DEF Ready
<1>7. Joins(u, p, q)
  BY <1>1 DEF SendPayments, Both, Joins
<1>8. \A n \in Networks : x[n] <= b[n]["signer"]["wnt"]
  BY <1>1, <1>5
<1>9. Ample(u, b, a)
  BY <1>3, <1>4, <1>6, <1>7, <1>8, AmpleBoth
<1>. QED  BY <1>1, <1>9

(* The rewards of processFees: with what the check wants, the payments can *)
(* be made as well.                                                        *)
LEMMA StakingPaid ==
    ASSUME PlanTyped(plan), NEW n \in Networks, NEW s, s = StakingRewards(n)
    PROVE  PaysOut(s, n, "wnt", plan.gmx[n] + plan.glp[n])
<1>1. PICK p, q, x, y :
          /\ x = plan.gmx[n] /\ y = plan.glp[n]
          /\ p = Reward(n, "gmxDistributor", "wnt", plan.gmx[n], plan.gmx[n])
          /\ q = Reward(n, "glpDistributor", "wnt", plan.glp[n], plan.glp[n])
  OBVIOUS
<1>2. x \in Nat /\ y \in Nat
  BY <1>1 DEF PlanTyped
<1>3. /\ "gmxDistributor" \in Trackers /\ "glpDistributor" \in Trackers
      /\ "wnt" \in RewardTokens
  BY DEF Trackers, RewardTokens
<1>4. PaysOut(p, n, "wnt", x)
  <2>1. p = Reward(n, "gmxDistributor", "wnt", x, x)
    BY <1>1
  <2>. QED  BY <1>2, <1>3, <2>1, RewardPaid
<1>5. PaysOut(q, n, "wnt", y)
  <2>1. q = Reward(n, "glpDistributor", "wnt", y, y)
    BY <1>1
  <2>. QED  BY <1>2, <1>3, <2>1, RewardPaid
<1>6. Joins(s, p, q)
  BY <1>1 DEF StakingRewards, Joins
<1>7. PayList(p) /\ p \in Seq(AllTxs) /\ PayList(q) /\ q \in Seq(AllTxs)
  BY <1>4, <1>5 DEF PaysOut
<1>8. PayList(s)
  BY <1>6, <1>7, PayListJoined
<1>9. s \in Seq(AllTxs)
  BY <1>6, <1>7 DEF Joins
<1>10. ASSUME NEW k, NEW t
       PROVE  Outgo(s, k, "signer", t) = IF n = k /\ "wnt" = t THEN x + y ELSE 0
  <2>1. Outgo(s, k, "signer", t) = Outgo(p, k, "signer", t) + Outgo(q, k, "signer", t)
    BY <1>6, <1>7, OutgoJoined
  <2>. QED  BY <1>2, <1>4, <1>5, <2>1 DEF PaysOut
<1>. QED  BY <1>1, <1>8, <1>9, <1>10 DEF PaysOut

LEMMA RewardsAmple ==
    ASSUME Ready, allowance \in Allowances, AcceptsStep("rewards")
    PROVE  /\ Ample(UpdateRewards, balance, allowance)
           /\ \A n \in Networks :
                 plan.treasury[n] + plan.chainlink[n] + Outgo(UpdateRewards, n, "signer", "wnt")
                     <= balance[n]["signer"]["wnt"]
<1>1. PICK p, q, u, b, a, x :
          /\ p = StakingRewards(arb) /\ q = StakingRewards(avax)
          /\ u = UpdateRewards /\ b = balance /\ a = allowance
          /\ x = [n \in Networks |-> plan.gmx[n] + plan.glp[n]]
  OBVIOUS
<1>2. \A n \in Networks : /\ plan.treasury[n] \in Nat /\ plan.chainlink[n] \in Nat
                          /\ plan.gmx[n] \in Nat /\ plan.glp[n] \in Nat
                          /\ plan.referral[n] \in Nat
  BY DEF Ready, PlanTyped
<1>3. b \in Balances /\ a \in Allowances /\ x \in [Networks -> Nat]
  BY <1>1, <1>2 DEF Ready
<1>4. "wnt" \in Tokens
  BY DEF Tokens
<1>5. \A n \in Networks : x[n] = plan.gmx[n] + plan.glp[n]
  BY <1>1
<1>6. PaysOut(p, arb, "wnt", x[arb]) /\ PaysOut(q, avax, "wnt", x[avax])
  BY <1>1, <1>5, NetworksApart, StakingPaid DEF Ready
<1>7. Joins(u, p, q)
  BY <1>1 DEF UpdateRewards, Both, Joins
<1>8. ASSUME NEW n \in Networks
      PROVE  /\ plan.treasury[n] + plan.chainlink[n] + x[n] <= b[n]["signer"]["wnt"]
             /\ x[n] <= b[n]["signer"]["wnt"]
  <2>1. Holds(n, "wnt", Due(n))
    BY DEF AcceptsStep, Accepts
  <2>2. b[n]["signer"]["wnt"] \in Nat
    BY <1>3, <1>4, BalanceTyped DEF Owners, Places
  <2>. QED  BY <1>1, <1>2, <1>5, <2>1, <2>2 DEF Holds, Due
<1>9. \A n \in Networks : x[n] <= b[n]["signer"]["wnt"]
  BY <1>8
<1>10. /\ Ample(u, b, a)
       /\ \A n \in Networks : Outgo(u, n, "signer", "wnt") = x[n]
  BY <1>3, <1>4, <1>6, <1>7, <1>9, AmpleBoth
<1>. QED  BY <1>1, <1>8, <1>10

-----------------------------------------------------------------------------
(* More money does no harm.                                                *)
NoLess(b, c) ==
    \A n \in Networks : \A o \in Payers : \A t \in Tokens : b[n][o][t] <= c[n][o][t]
LEMMA AmpleWider ==
    ASSUME NEW s \in Seq(AllTxs), NEW b \in Balances, NEW c \in Balances, NEW a,
           Ample(s, b, a), NoLess(b, c)
    PROVE  Ample(s, c, a)
<1>1. ASSUME NEW n \in Networks, NEW o \in Payers, NEW t \in Tokens
      PROVE  Outgo(s, n, o, t) <= c[n][o][t] + Income(s, n, o, t)
  <2>1. Outgo(s, n, o, t) \in Nat /\ Income(s, n, o, t) \in Nat
    BY OutgoTyped
  <2>2. o \in Owners
    BY DEF Payers, Owners, Places
  <2>3. b[n][o][t] \in Nat /\ c[n][o][t] \in Nat
    BY <2>2, BalanceTyped
  <2>4. Outgo(s, n, o, t) <= b[n][o][t] + Income(s, n, o, t)
    BY DEF Ample, Provided
  <2>5. b[n][o][t] <= c[n][o][t]
    BY DEF NoLess
  <2>. QED  BY <2>1, <2>3, <2>4, <2>5
<1>2. Provided(s, c)
  BY <1>1 DEF Provided
<1>. QED  BY <1>2 DEF Ample

LEMMA Listed1to1 ==
    ASSUME NEW S, IsFiniteSet(S), NEW z \in S
    PROVE  \E i \in 1..Cardinality(S) : z = SetToSeq(S)[i]
<1> DEFINE N == Cardinality(S)
           f == SetToSeq(S)
<1>1. /\ N \in Nat /\ f \in [1..N -> S]
      /\ \A i, j \in 1..N : f[i] = f[j] => i = j
  BY Listing
<1>2. f \in Injection(1..N, S)
  BY <1>1 DEF Injection, IsInjective
<1>3. Cardinality(1..N) = N
  BY <1>1, FS_Interval
<1>4. f \in Surjection(1..N, S)
  <2> HIDE DEF f, N
  <2>1. Cardinality(1..N) = Cardinality(S)
    BY <1>3 DEF N
  <2>. QED  BY <1>2, <2>1, FS_Injection
<1>. QED  BY <1>4 DEF Surjection

-----------------------------------------------------------------------------
(* Nothing of S is looked for or spent after something of R it clashes     *)
(* with.                                                                   *)
Free(S, R) == \A x \in S : \A y \in R : ~Clash(x, y)
LEMMA OrderlyJoined ==
    ASSUME NEW S, NEW R, NEW s \in Seq(S), NEW r \in Seq(R), Orderly(s), Orderly(r),
           Free(S, R), NEW u, Joins(u, s, r)
    PROVE  Orderly(u)
<1>1. /\ Len(u) = Len(s) + Len(r) /\ Len(s) \in Nat /\ Len(r) \in Nat
      /\ \A k \in 1..Len(s) : u[k] = s[k] /\ s[k] \in S
      /\ \A k \in 1..Len(r) : u[Len(s) + k] = r[k] /\ r[k] \in R
  BY DEF Joins
<1>2. ASSUME NEW i \in 1..Len(u)
      PROVE  \/ i \in 1..Len(s) /\ u[i] = s[i] /\ u[i] \in S
             \/ /\ i > Len(s) /\ i - Len(s) \in 1..Len(r) /\ u[i] = r[i - Len(s)]
                /\ u[i] \in R
  <2>1. CASE i <= Len(s)
    BY <1>1, <2>1
  <2>2. CASE i > Len(s)
    <3>1. PICK k : k = i - Len(s)
      OBVIOUS
    <3>2. k \in 1..Len(r) /\ i = Len(s) + k
      BY <1>1, <2>2, <3>1
    <3>. QED  BY <1>1, <2>2, <3>1, <3>2
  <2>. QED  BY <1>1, <2>1, <2>2
<1>3. ASSUME NEW i \in 1..Len(u) PROVE Simple(u[i])
  BY <1>2 DEF Orderly
<1>4. ASSUME NEW i \in 1..Len(u), NEW j \in 1..Len(u), i < j PROVE ~Clash(u[i], u[j])
  <2>1. CASE j \in 1..Len(s)
    <3>1. i \in 1..Len(s)
      BY <1>4, <2>1
    <3>. QED  BY <1>1, <1>4, <2>1, <3>1 DEF Orderly
  <2>2. CASE j \notin 1..Len(s) /\ i \in 1..Len(s)
    <3>1. u[i] \in S /\ u[j] \in R
      BY <1>1, <1>2, <2>2
    <3>. QED  BY <3>1 DEF Free
  <2>3. CASE j \notin 1..Len(s) /\ i \notin 1..Len(s)
    <3>1. PICK k, l : k = i - Len(s) /\ l = j - Len(s)
      OBVIOUS
    <3>2. k \in 1..Len(r) /\ l \in 1..Len(r) /\ u[i] = r[k] /\ u[j] = r[l]
      BY <1>2, <2>3, <3>1
    <3>3. k < l
      BY <1>1, <1>4, <3>1
    <3>. QED  BY <3>2, <3>3 DEF Orderly
  <2>. QED  BY <2>1, <2>2, <2>3
<1>. QED  BY <1>3, <1>4 DEF Orderly

LEMMA OrderlyAll ==
    ASSUME NEW S, NEW s \in Seq(S), Free(S, S), \A x \in S : Simple(x)
    PROVE  Orderly(s)
<1>1. \A i \in 1..Len(s) : s[i] \in S
  OBVIOUS
<1>. QED  BY <1>1 DEF Orderly, Free

(* The transactions of a referral step, in three groups: the checks and    *)
(* the transfer to the wallet, what the wallet sends, and how much esGMX   *)
(* it may.                                                                 *)
Openings(n) ==
    {tx \in AllTxs :
        /\ tx.net = n
        /\ \/ tx.kind = "require" /\ tx.from = "signer"
           \/ tx.kind = "require" /\ tx.from = "wallet" /\ tx.token = "esGmx"
           \/ tx.kind = "transfer" /\ tx.from = "signer" /\ tx.to = "wallet"
              /\ tx.token = "wnt"
           \/ tx.kind = "approve" /\ tx.from = "wallet"}
EsApprovals(n) ==
    {tx \in AllTxs : /\ tx.net = n /\ tx.kind = "approve" /\ tx.from = "wallet"
                     /\ tx.token = "esGmx"}
EsTxs(n) == WalletSpends(n, "esGmx") \cup WalletBonuses(n)
Natives(n) == Openings(n) \cup WalletSpends(n, "wnt")

LEMMA ReferralsFree ==
    ASSUME NEW n \in Networks
    PROVE  /\ Free(WalletSpends(n, "wnt"), WalletSpends(n, "wnt"))
           /\ Free(EsTxs(n), EsTxs(n))
           /\ Free(Openings(n), WalletSpends(n, "wnt"))
           /\ Free(Natives(n), WalletSpends(n, "wnt"))
           /\ Free(Natives(n), EsApprovals(n))
           /\ Free(Natives(n) \cup EsApprovals(n), EsTxs(n))
           /\ \A x \in Natives(n) \cup EsApprovals(n) \cup EsTxs(n) :
                 Simple(x) /\ x.net = n /\ x \in AllTxs
<1>0. "wallet" \notin Recipients /\ "signer" \notin Recipients
  BY AccountsAssumption DEF Places
<1>1. \A x \in Openings(n) :
          /\ x \in AllTxs /\ x.net = n
          /\ x.kind \in {"require", "approve"} \/ (x.kind = "transfer" /\ x.to = "wallet"
                                                    /\ x.token = "wnt")
          /\ x.from \in Payers /\ (x.kind \in {"spend", "approve"} => x.from = "wallet")
          /\ x.kind = "transfer" => x.from = "signer"
  BY DEF Openings, Payers
<1>2. \A x \in WalletSpends(n, "wnt") :
          /\ x \in AllTxs /\ x.net = n /\ x.kind = "spend" /\ x.from = "wallet"
          /\ x.token = "wnt" /\ x.to \in Recipients
  BY DEF WalletSpends, PlainTxs
<1>3. \A x \in EsTxs(n) :
          /\ x \in AllTxs /\ x.net = n /\ x.kind \in {"spend", "bonus"} /\ x.from = "wallet"
          /\ x.token = "esGmx" /\ x.to \in Recipients
  BY DEF EsTxs, WalletSpends, WalletBonuses, PlainTxs
<1>4. \A x \in EsApprovals(n) :
          /\ x \in AllTxs /\ x.net = n /\ x.kind = "approve" /\ x.from = "wallet"
          /\ x.token = "esGmx"
  BY DEF EsApprovals
<1>5. Free(WalletSpends(n, "wnt"), WalletSpends(n, "wnt"))
  BY <1>0, <1>2 DEF Free, Clash
<1>6. Free(EsTxs(n), EsTxs(n))
  BY <1>0, <1>3 DEF Free, Clash
<1>7. Free(Openings(n), WalletSpends(n, "wnt"))
  BY <1>0, <1>1, <1>2 DEF Free, Clash, Payers
<1>8. Free(Natives(n), WalletSpends(n, "wnt"))
  BY <1>5, <1>7 DEF Free, Natives
<1>9. Free(Natives(n), EsApprovals(n))
  <2>1. Free(Openings(n), EsApprovals(n))
    BY <1>1, <1>4 DEF Free, Clash
  <2>2. Free(WalletSpends(n, "wnt"), EsApprovals(n))
    BY <1>2, <1>4 DEF Free, Clash
  <2>. QED  BY <2>1, <2>2 DEF Free, Natives
<1>10. Free(Natives(n) \cup EsApprovals(n), EsTxs(n))
  <2>1. Free(Openings(n), EsTxs(n))
    BY <1>0, <1>1, <1>3 DEF Free, Clash, Payers
  <2>2. Free(WalletSpends(n, "wnt"), EsTxs(n))
    BY <1>2, <1>3 DEF Free, Clash
  <2>3. Free(EsApprovals(n), EsTxs(n))
    BY <1>3, <1>4 DEF Free, Clash
  <2>. QED  BY <2>1, <2>2, <2>3 DEF Free, Natives
<1>11. \A x \in Natives(n) \cup EsApprovals(n) \cup EsTxs(n) :
           Simple(x) /\ x.net = n /\ x \in AllTxs
  BY <1>1, <1>2, <1>3, <1>4 DEF Natives, Simple, Payers
<1>. QED  BY <1>5, <1>6, <1>7, <1>8, <1>9, <1>10, <1>11

-----------------------------------------------------------------------------
(* What a part of a referral step moves: g from the fee keeper to the      *)
(* wallet, and from there w native tokens and e esGMX.                     *)
SumsTo(s, n, g, w, e) ==
    /\ s \in Seq(AllTxs)
    /\ \A k, t : Outgo(s, k, "signer", t) = IF k = n /\ t = "wnt" THEN g ELSE 0
    /\ \A k, t : Outgo(s, k, "wallet", t)
                    = IF k = n /\ t = "wnt" THEN w ELSE IF k = n /\ t = "esGmx" THEN e ELSE 0
    /\ \A k : Income(s, k, "wallet", "wnt") = IF k = n THEN g ELSE 0

LEMMA SumsJoined ==
    ASSUME NEW n, NEW s, NEW g \in Nat, NEW w \in Nat, NEW e \in Nat, SumsTo(s, n, g, w, e),
           NEW r, NEW h \in Nat, NEW x \in Nat, NEW y \in Nat, SumsTo(r, n, h, x, y),
           NEW u, Joins(u, s, r)
    PROVE  SumsTo(u, n, g + h, w + x, e + y)
<1>1. s \in Seq(AllTxs) /\ r \in Seq(AllTxs)
  BY DEF SumsTo
<1>2. ASSUME NEW k, NEW o, NEW t
      PROVE  /\ Outgo(u, k, o, t) = Outgo(s, k, o, t) + Outgo(r, k, o, t)
             /\ Income(u, k, o, t) = Income(s, k, o, t) + Income(r, k, o, t)
             /\ u \in Seq(AllTxs)
  BY <1>1, OutgoJoined
<1>3. u \in Seq(AllTxs)
  BY <1>2
<1>4. ASSUME NEW k, NEW t
      PROVE  /\ Outgo(u, k, "signer", t) = IF k = n /\ t = "wnt" THEN g + h ELSE 0
             /\ Outgo(u, k, "wallet", t)
                   = IF k = n /\ t = "wnt" THEN w + x
                     ELSE IF k = n /\ t = "esGmx" THEN e + y ELSE 0
             /\ Income(u, k, "wallet", "wnt") = IF k = n THEN g + h ELSE 0
  <2>1. /\ Outgo(s, k, "signer", t) = IF k = n /\ t = "wnt" THEN g ELSE 0
        /\ Outgo(r, k, "signer", t) = IF k = n /\ t = "wnt" THEN h ELSE 0
        /\ Outgo(u, k, "signer", t) = Outgo(s, k, "signer", t) + Outgo(r, k, "signer", t)
    BY <1>2 DEF SumsTo
  <2>2. /\ Outgo(s, k, "wallet", t)
              = IF k = n /\ t = "wnt" THEN w ELSE IF k = n /\ t = "esGmx" THEN e ELSE 0
        /\ Outgo(r, k, "wallet", t)
              = IF k = n /\ t = "wnt" THEN x ELSE IF k = n /\ t = "esGmx" THEN y ELSE 0
        /\ Outgo(u, k, "wallet", t) = Outgo(s, k, "wallet", t) + Outgo(r, k, "wallet", t)
    BY <1>2 DEF SumsTo
  <2>3. /\ Income(s, k, "wallet", "wnt") = IF k = n THEN g ELSE 0
        /\ Income(r, k, "wallet", "wnt") = IF k = n THEN h ELSE 0
        /\ Income(u, k, "wallet", "wnt")
              = Income(s, k, "wallet", "wnt") + Income(r, k, "wallet", "wnt")
    BY <1>2 DEF SumsTo
  <2>4. Outgo(u, k, "signer", t) = IF k = n /\ t = "wnt" THEN g + h ELSE 0
    BY <2>1
  <2>5. Outgo(u, k, "wallet", t) = IF k = n /\ t = "wnt" THEN w + x
                                   ELSE IF k = n /\ t = "esGmx" THEN e + y ELSE 0
    BY <2>2
  <2>6. Income(u, k, "wallet", "wnt") = IF k = n THEN g + h ELSE 0
    BY <2>3
  <2>. QED  BY <2>4, <2>5, <2>6
<1>. QED  BY <1>3, <1>4 DEF SumsTo

(* Two transactions, and transactions that move nothing.                   *)
LEMMA OutgoTwo ==
    ASSUME NEW x \in AllTxs, NEW y \in AllTxs, NEW s, s = <<x, y>>, NEW n, NEW o, NEW t
    PROVE  /\ Outgo(s, n, o, t) = Takes(n, o, t)[x] + Takes(n, o, t)[y]
           /\ Income(s, n, o, t) = Brings(n, o, t)[x] + Brings(n, o, t)[y]
           /\ s \in Seq(AllTxs)
<1>1. PICK f, g : f = Takes(n, o, t) /\ g = Brings(n, o, t)
  OBVIOUS
<1>2. f \in [AllTxs -> Nat] /\ g \in [AllTxs -> Nat]
  BY <1>1, TakesTyped
<1>3. Total(f, <<x, y>>) = f[x] + f[y]
  BY <1>2, TotalTwo
<1>4. Total(g, <<x, y>>) = g[x] + g[y]
  BY <1>2, TotalTwo
<1>. QED  BY <1>1, <1>3, <1>4 DEF Outgo, Income

LEMMA OutgoNone ==
    ASSUME NEW s \in Seq(AllTxs), NEW n, NEW o, NEW t
    PROVE  /\ (\A i \in 1..Len(s) : Takes(n, o, t)[s[i]] = 0) => Outgo(s, n, o, t) = 0
           /\ (\A i \in 1..Len(s) : Brings(n, o, t)[s[i]] = 0) => Income(s, n, o, t) = 0
<1>1. PICK f, g : f = Takes(n, o, t) /\ g = Brings(n, o, t)
  OBVIOUS
<1>2. f \in [AllTxs -> Nat] /\ g \in [AllTxs -> Nat]
  BY <1>1, TakesTyped
<1>3. (\A i \in 1..Len(s) : f[s[i]] = 0) => Total(f, s) = 0
  BY <1>2, TotalNone
<1>4. (\A i \in 1..Len(s) : g[s[i]] = 0) => Total(g, s) = 0
  BY <1>2, TotalNone
<1>. QED  BY <1>1, <1>3, <1>4 DEF Outgo, Income

(* A list with one transaction for each member of S, amounts[a] for a.     *)
LEMMA SpendsTotal ==
    ASSUME NEW f \in [AllTxs -> Nat], NEW s \in Seq(AllTxs), NEW S, IsFiniteSet(S),
           Len(s) = Cardinality(S), NEW amounts,
           \A i \in 1..Len(s) : f[s[i]] = amounts[SetToSeq(S)[i]]
    PROVE  Total(f, s) = SumFunctionOnSet(amounts, S)
<1>1. PICK N, h, g : /\ N = Cardinality(S) /\ h = SetToSeq(S)
                     /\ g = [i \in 1..Len(s) |-> f[s[i]]]
  OBVIOUS
<1>2. /\ N \in Nat /\ h \in [1..N -> S] /\ N = Len(s)
      /\ \A i, j \in 1..N : h[i] = h[j] => i = j
      /\ \A z \in S : \E i \in 1..N : z = h[i]
  BY <1>1, Listing, Listed1to1
<1>3. \A i \in 1..N : s[i] \in AllTxs /\ g[i] = f[s[i]] /\ g[i] \in Int
  BY <1>1, <1>2
<1>4. \A i \in 1..N : g[i] = amounts[h[i]]
  BY <1>1, <1>2, <1>3
<1>5. Renames(h, 1..N, S, g, amounts)
  BY <1>2, <1>3, <1>4 DEF Renames
<1>6. IsFiniteSet(1..N)
  <2>1. N \in Int /\ 1 \in Int
    BY <1>2
  <2>. QED  BY <2>1, FS_Interval
<1>7. SumFunctionOnSet(amounts, S) = SumFunctionOnSet(g, 1..N)
  BY <1>5, <1>6, SumRenamed
<1>. QED  BY <1>1, <1>2, <1>7 DEF Total, Along

(* A list with two transactions for each member, of which the first counts.*)
LEMMA PairsTotal ==
    ASSUME NEW f \in [AllTxs -> Nat], NEW s \in Seq(AllTxs), NEW S, IsFiniteSet(S),
           Len(s) = 2 * Cardinality(S), NEW amounts,
           \A i \in 1..Len(s) :
               f[s[i]] = IF i % 2 = 1 THEN amounts[SetToSeq(S)[(i + 1) \div 2]] ELSE 0
    PROVE  Total(f, s) = SumFunctionOnSet(amounts, S)
<1>1. PICK N, h, g, A, k :
          /\ N = Cardinality(S) /\ h = SetToSeq(S) /\ g = [i \in 1..Len(s) |-> f[s[i]]]
          /\ A = {i \in 1..2 * Cardinality(S) : i % 2 = 1}
          /\ k = [i \in A |-> h[(i + 1) \div 2]]
  OBVIOUS
<1>2. /\ N \in Nat /\ h \in [1..N -> S] /\ 2 * N = Len(s)
      /\ \A i, j \in 1..N : h[i] = h[j] => i = j
      /\ \A z \in S : \E i \in 1..N : z = h[i]
  BY <1>1, Listing, Listed1to1
<1>3. \A i \in 1..2 * N : s[i] \in AllTxs /\ g[i] = f[s[i]] /\ g[i] \in Int
  BY <1>1, <1>2
<1>4. /\ \A i \in A : i \in 1..2 * N /\ i % 2 = 1 /\ (i + 1) \div 2 \in 1..N
                      /\ i = 2 * ((i + 1) \div 2) - 1
      /\ \A j \in 1..N : 2 * j - 1 \in A /\ ((2 * j - 1) + 1) \div 2 = j
  <2>1. N \in Nat /\ A = {i \in 1..2 * N : i % 2 = 1}
    BY <1>1, <1>2
  <2>2. ASSUME NEW i \in A
        PROVE  /\ i \in 1..2 * N /\ i % 2 = 1 /\ (i + 1) \div 2 \in 1..N
               /\ i = 2 * ((i + 1) \div 2) - 1
    BY <2>1
  <2>3. ASSUME NEW j \in 1..N
        PROVE  2 * j - 1 \in A /\ ((2 * j - 1) + 1) \div 2 = j
    <3>1. j \in Nat /\ 1 <= j /\ j <= N
      BY <2>1
    <3>2. 2 * j - 1 \in 1..2 * N /\ (2 * j - 1) % 2 = 1 /\ ((2 * j - 1) + 1) \div 2 = j
      BY <2>1, <3>1
    <3>. QED  BY <2>1, <3>2
  <2>. QED  BY <2>2, <2>3
<1>5. \A i \in A : k[i] = h[(i + 1) \div 2] /\ k[i] \in S
  BY <1>1, <1>2, <1>4
<1>6. \A i \in A : g[i] = amounts[k[i]] /\ g[i] \in Int
  BY <1>1, <1>2, <1>3, <1>4, <1>5
<1>7. \A i, j \in A : k[i] = k[j] => i = j
  BY <1>2, <1>4, <1>5
<1>8. \A z \in S : \E i \in A : z = k[i]
  <2>1. TAKE z \in S
  <2>2. PICK j \in 1..N : z = h[j]
    BY <1>2
  <2>3. PICK i \in A : i = 2 * j - 1
    BY <1>4
  <2>. QED  BY <1>4, <1>5, <2>2, <2>3
<1>9. IsFiniteSet(1..2 * N) /\ A \subseteq 1..2 * N
  BY <1>1, <1>2, FS_Interval
<1>10. IsFiniteSet(A) /\ (1..2 * N) \cap A = A
  BY <1>9, FS_Subset
<1>11. Renames(k, A, S, g, amounts)
  BY <1>5, <1>6, <1>7, <1>8 DEF Renames
<1>12. SumFunctionOnSet(amounts, S) = SumFunctionOnSet(g, A)
  BY <1>10, <1>11, SumRenamed
<1>13. \A i \in (1..2 * N) \ A : g[i] = 0
  BY <1>1, <1>2, <1>3
<1>14. \A i \in 1..2 * N : g[i] \in Int
  BY <1>3
<1>15. SumFunctionOnSet(g, 1..2 * N) = SumFunctionOnSet(g, (1..2 * N) \cap A)
  BY <1>9, <1>13, <1>14, SumRestrict
<1>. QED  BY <1>1, <1>2, <1>10, <1>12, <1>15 DEF Total, Along

-----------------------------------------------------------------------------
(* What the wallet sends, native tokens or esGMX, with or without bonuses. *)
LEMMA WalletSums ==
    ASSUME NEW n \in Networks, NEW s, NEW x \in Nat
    PROVE  /\ /\ s \in Seq(WalletSpends(n, "wnt")) /\ Outgo(s, n, "wallet", "wnt") = x
              => SumsTo(s, n, 0, x, 0)
           /\ /\ s \in Seq(EsTxs(n)) /\ Outgo(s, n, "wallet", "esGmx") = x
              => SumsTo(s, n, 0, 0, x)
<1>0. "wallet" \notin Recipients /\ "signer" \notin Recipients
  BY AccountsAssumption DEF Places
<1>1. /\ WalletSpends(n, "wnt") \subseteq AllTxs
      /\ \A tx \in WalletSpends(n, "wnt") :
            tx.net = n /\ tx.from = "wallet" /\ tx.token = "wnt" /\ tx.to # "wallet"
  BY <1>0 DEF WalletSpends, PlainTxs
<1>2. /\ EsTxs(n) \subseteq AllTxs
      /\ \A tx \in EsTxs(n) :
            tx.net = n /\ tx.from = "wallet" /\ tx.token = "esGmx" /\ tx.to # "wallet"
  BY <1>0 DEF EsTxs, WalletSpends, WalletBonuses, PlainTxs
<1>3. ASSUME s \in Seq(WalletSpends(n, "wnt")), Outgo(s, n, "wallet", "wnt") = x
      PROVE  SumsTo(s, n, 0, x, 0)
  <2>1. s \in Seq(AllTxs) /\ \A i \in 1..Len(s) : s[i] \in WalletSpends(n, "wnt")
    BY <1>1, <1>3
  <2>2. ASSUME NEW k, NEW t
        PROVE  /\ Outgo(s, k, "signer", t) = 0
               /\ k # n \/ t # "wnt" => Outgo(s, k, "wallet", t) = 0
               /\ Income(s, k, "wallet", "wnt") = 0
    <3>1. /\ \A i \in 1..Len(s) : Takes(k, "signer", t)[s[i]] = 0
          /\ k # n \/ t # "wnt" => \A i \in 1..Len(s) : Takes(k, "wallet", t)[s[i]] = 0
          /\ \A i \in 1..Len(s) : Brings(k, "wallet", "wnt")[s[i]] = 0
      BY <1>1, <2>1 DEF Takes, Brings
    <3>. QED  BY <2>1, <3>1, OutgoNone
  <2>. QED  BY <1>3, <2>1, <2>2 DEF SumsTo
<1>4. ASSUME s \in Seq(EsTxs(n)), Outgo(s, n, "wallet", "esGmx") = x
      PROVE  SumsTo(s, n, 0, 0, x)
  <2>1. s \in Seq(AllTxs) /\ \A i \in 1..Len(s) : s[i] \in EsTxs(n)
    BY <1>2, <1>4
  <2>2. ASSUME NEW k, NEW t
        PROVE  /\ Outgo(s, k, "signer", t) = 0
               /\ k # n \/ t # "esGmx" => Outgo(s, k, "wallet", t) = 0
               /\ Income(s, k, "wallet", "wnt") = 0
    <3>1. /\ \A i \in 1..Len(s) : Takes(k, "signer", t)[s[i]] = 0
          /\ k # n \/ t # "esGmx" => \A i \in 1..Len(s) : Takes(k, "wallet", t)[s[i]] = 0
          /\ \A i \in 1..Len(s) : Brings(k, "wallet", "wnt")[s[i]] = 0
      BY <1>2, <2>1 DEF Takes, Brings
    <3>. QED  BY <2>1, <3>1, OutgoNone
  <2>. QED  BY <1>4, <2>1, <2>2 DEF SumsTo
<1>. QED  BY <1>3, <1>4

RebateTotal(n) == SumFunctionOnSet([a \in Rebated(n) |-> Rebate(n, a)], Rebated(n))
DiscountTotal(n) == SumFunctionOnSet([t \in Discounted(n) |-> Discount(n, t)], Discounted(n))
LEMMA ReferralTotals ==
    ASSUME Ready, NEW n \in Networks
    PROVE  /\ RebateTotal(n) \in Nat /\ DiscountTotal(n) \in Nat
           /\ NativeReferrals(n) = RebateTotal(n) + DiscountTotal(n)
           /\ EsGmxReferrals(n)
                 = SumFunctionOnSet([a \in EsRewarded(n) |-> EsReward(n, a)], EsRewarded(n))
           /\ NativeReferrals(n) \in Nat /\ EsGmxReferrals(n) \in Nat
<1>1. PICK R, D, f, g :
          /\ R = Rebated(n) /\ D = Discounted(n)
          /\ f = [a \in R |-> Rebate(n, a)] /\ g = [t \in D |-> Discount(n, t)]
  OBVIOUS
<1>2. /\ IsFiniteSet(R) /\ IsFiniteSet(D)
      /\ \A a \in R : f[a] \in Nat
      /\ \A a \in D : g[a] \in Nat
      /\ NativeReferrals(n) \in Nat /\ EsGmxReferrals(n) \in Nat
  BY <1>1, RewardedAccounts
<1>3. SumFunctionOnSet(f, R) \in Nat /\ SumFunctionOnSet(g, D) \in Nat
  BY <1>2, SumType
<1>4. NativeReferrals(n) = RebateTotal(n) + DiscountTotal(n)
  BY DEF NativeReferrals, NativeTotal, RebateTotal, DiscountTotal, Rebated, Discounted,
      Rebate, Discount, SumFunction
<1>5. EsGmxReferrals(n)
          = SumFunctionOnSet([a \in EsRewarded(n) |-> EsReward(n, a)], EsRewarded(n))
  BY DEF EsGmxReferrals, EsGmxTotalAmount, EsRewarded, EsReward, SumFunction
<1>. QED  BY <1>1, <1>2, <1>3, <1>4, <1>5 DEF RebateTotal, DiscountTotal

LEMMA SpendsSum ==
    ASSUME Ready, NEW n \in Networks
    PROVE  /\ SumsTo(RebatesPart(n), n, 0, RebateTotal(n), 0)
           /\ SumsTo(DiscountsPart(n), n, 0, DiscountTotal(n), 0)
           /\ SumsTo(EsPart(n), n, 0, 0, EsGmxReferrals(n))
<1>1. PICK r, d, e, R, D, E, x, y, z :
          /\ r = RebatesPart(n) /\ d = DiscountsPart(n) /\ e = EsPart(n)
          /\ R = Rebated(n) /\ D = Discounted(n) /\ E = EsRewarded(n)
          /\ x = [a \in R |-> Rebate(n, a)] /\ y = [t \in D |-> Discount(n, t)]
          /\ z = [a \in E |-> EsReward(n, a)]
  OBVIOUS
<1>2. PICK f, g : f = Takes(n, "wallet", "wnt") /\ g = Takes(n, "wallet", "esGmx")
  OBVIOUS
<1>3. f \in [AllTxs -> Nat] /\ g \in [AllTxs -> Nat]
  BY <1>2, TakesTyped
<1>4. IsFiniteSet(R) /\ IsFiniteSet(D) /\ IsFiniteSet(E)
  BY <1>1, RewardedAccounts
<1>5. /\ Cardinality(R) \in Nat /\ SetToSeq(R) \in [1..Cardinality(R) -> R]
      /\ Cardinality(D) \in Nat /\ SetToSeq(D) \in [1..Cardinality(D) -> D]
      /\ Cardinality(E) \in Nat /\ SetToSeq(E) \in [1..Cardinality(E) -> E]
  BY <1>4, Listing
<1>6. /\ r \in Seq(WalletSpends(n, "wnt")) /\ Len(r) = Cardinality(R)
      /\ \A i \in 1..Cardinality(R) : r[i].amount = Rebate(n, SetToSeq(R)[i])
      /\ d \in Seq(WalletSpends(n, "wnt")) /\ Len(d) = Cardinality(D)
      /\ \A i \in 1..Cardinality(D) : d[i].amount = Discount(n, SetToSeq(D)[i])
  BY <1>1, SpendsMade
<1>7. /\ e \in Seq(EsTxs(n)) /\ Len(e) = 2 * Cardinality(E)
      /\ \A i \in 1..Len(e) :
            IF i % 2 = 1
            THEN e[i].kind = "spend"
                 /\ e[i].amount = EsReward(n, SetToSeq(E)[(i + 1) \div 2])
            ELSE e[i].kind = "bonus"
  BY <1>1, EsMade DEF EsTxs
<1>8. /\ \A tx \in WalletSpends(n, "wnt") : tx \in AllTxs /\ f[tx] = tx.amount
      /\ \A tx \in EsTxs(n) :
            tx \in AllTxs /\ g[tx] = IF tx.kind = "spend" THEN tx.amount ELSE 0
  BY <1>2 DEF Takes, WalletSpends, EsTxs, WalletBonuses, PlainTxs
<1>9. r \in Seq(AllTxs) /\ d \in Seq(AllTxs) /\ e \in Seq(AllTxs)
  BY <1>6, <1>7, <1>8
<1>10. Total(f, r) = SumFunctionOnSet(x, R)
  <2>1. Len(r) = Cardinality(R) /\ r \in Seq(AllTxs)
    BY <1>6, <1>9
  <2>2. ASSUME NEW i \in 1..Len(r) PROVE f[r[i]] = x[SetToSeq(R)[i]]
    <3>1. r[i] \in WalletSpends(n, "wnt") /\ r[i].amount = Rebate(n, SetToSeq(R)[i])
      BY <1>6, <2>1
    <3>2. SetToSeq(R)[i] \in R
      BY <1>5, <2>1
    <3>3. x[SetToSeq(R)[i]] = Rebate(n, SetToSeq(R)[i])
      BY <1>1, <3>2
    <3>. QED  BY <1>8, <3>1, <3>3
  <2>. QED  BY <1>3, <1>4, <2>1, <2>2, SpendsTotal
<1>11. Total(f, d) = SumFunctionOnSet(y, D)
  <2>1. Len(d) = Cardinality(D) /\ d \in Seq(AllTxs)
    BY <1>6, <1>9
  <2>2. ASSUME NEW i \in 1..Len(d) PROVE f[d[i]] = y[SetToSeq(D)[i]]
    <3>1. d[i] \in WalletSpends(n, "wnt") /\ d[i].amount = Discount(n, SetToSeq(D)[i])
      BY <1>6, <2>1
    <3>2. SetToSeq(D)[i] \in D
      BY <1>5, <2>1
    <3>3. y[SetToSeq(D)[i]] = Discount(n, SetToSeq(D)[i])
      BY <1>1, <3>2
    <3>. QED  BY <1>8, <3>1, <3>3
  <2>. QED  BY <1>3, <1>4, <2>1, <2>2, SpendsTotal
<1>12. Total(g, e) = SumFunctionOnSet(z, E)
  <2>1. ASSUME NEW i \in 1..Len(e)
        PROVE  g[e[i]] = IF i % 2 = 1 THEN z[SetToSeq(E)[(i + 1) \div 2]] ELSE 0
    <3>1. e[i] \in EsTxs(n)
      BY <1>7
    <3>2. CASE i % 2 = 1
      <4>1. (i + 1) \div 2 \in 1..Cardinality(E)
        BY <1>5, <1>7, <3>2
      <4>2. SetToSeq(E)[(i + 1) \div 2] \in E
        BY <1>5, <4>1
      <4>3. e[i].kind = "spend" /\ e[i].amount = EsReward(n, SetToSeq(E)[(i + 1) \div 2])
        BY <1>7, <3>2
      <4>4. z[SetToSeq(E)[(i + 1) \div 2]] = EsReward(n, SetToSeq(E)[(i + 1) \div 2])
        BY <1>1, <4>2
      <4>. QED  BY <1>8, <3>1, <3>2, <4>3, <4>4
    <3>3. CASE i % 2 # 1
      BY <1>7, <1>8, <3>1, <3>3
    <3>. QED  BY <3>2, <3>3
  <2>. QED  BY <1>3, <1>4, <1>7, <1>9, <2>1, PairsTotal
<1>13. /\ Outgo(r, n, "wallet", "wnt") = RebateTotal(n)
       /\ Outgo(d, n, "wallet", "wnt") = DiscountTotal(n)
       /\ Outgo(e, n, "wallet", "esGmx") = EsGmxReferrals(n)
       /\ {RebateTotal(n), DiscountTotal(n), EsGmxReferrals(n)} \subseteq Nat
  BY <1>1, <1>2, <1>10, <1>11, <1>12, ReferralTotals DEF Outgo, RebateTotal, DiscountTotal
<1>14. PICK v, w, q : v = RebateTotal(n) /\ w = DiscountTotal(n) /\ q = EsGmxReferrals(n)
  OBVIOUS
<1>15. SumsTo(r, n, 0, v, 0) /\ SumsTo(d, n, 0, w, 0) /\ SumsTo(e, n, 0, 0, q)
  BY <1>6, <1>7, <1>13, <1>14, WalletSums
<1>. QED  BY <1>1, <1>14, <1>15

-----------------------------------------------------------------------------
(* The transactions at the head of a referral step and the approval.       *)
ChecksAre(n, g, m, a, b, c, d, e) ==
    /\ ChecksPart(n) = <<a, b>> \o <<c, d>> /\ ApprovalPart(n) = <<e>>
    /\ ChecksPart(n) = <<a, b, c, d>>
    /\ {a, b, c, d} \subseteq Openings(n) /\ e \in EsApprovals(n)
    /\ a.kind = "require" /\ a.from = "signer" /\ a.token = "wnt" /\ a.amount = g
    /\ b.kind = "require" /\ b.from = "wallet" /\ b.token = "esGmx" /\ b.amount = m
    /\ c.kind = "transfer" /\ c.from = "signer" /\ c.to = "wallet"
    /\ c.token = "wnt" /\ c.amount = g
    /\ d.kind = "approve" /\ d.token = "wnt" /\ d.amount = g
    /\ e.kind = "approve" /\ e.token = "esGmx" /\ e.amount = m
LEMMA ChecksMade ==
    ASSUME Ready, NEW n \in Networks, NEW g, g = NativeReferrals(n),
           NEW m, m = EsGmxReferrals(n)
    PROVE  \E a, b, c, d, e : ChecksAre(n, g, m, a, b, c, d, e)
<1>1. /\ {"require", "transfer", "approve"} \subseteq Kinds
      /\ {"signer", "wallet"} \subseteq Sources /\ {"signer", "wallet"} \subseteq Owners
      /\ {"wnt", "esGmx"} \subseteq Tokens /\ "wallet" \in Spenders
  BY DEF Kinds, Sources, Owners, Places, Tokens, Spenders
<1>2. NativeReferrals(n) \in Nat /\ EsGmxReferrals(n) \in Nat
  BY RewardedAccounts
<1>3. PICK a, b, c, d, e :
          /\ a = Tx("require", n, "signer", "signer", "wnt", NativeReferrals(n))
          /\ b = Tx("require", n, "wallet", "wallet", "esGmx", EsGmxReferrals(n))
          /\ c = Tx("transfer", n, "signer", "wallet", "wnt", NativeReferrals(n))
          /\ d = Tx("approve", n, "wallet", "wallet", "wnt", NativeReferrals(n))
          /\ e = Tx("approve", n, "wallet", "wallet", "esGmx", EsGmxReferrals(n))
  OBVIOUS
<1>4. a \in PlainTxs /\ b \in PlainTxs
  BY <1>1, <1>2, <1>3, PlainTx
<1>5. c \in PlainTxs
  BY <1>1, <1>2, <1>3, PlainTx
<1>6. d \in PlainTxs /\ e \in PlainTxs
  BY <1>1, <1>2, <1>3, PlainTx
<1>7. /\ a.kind = "require" /\ a.net = n /\ a.from = "signer" /\ a.token = "wnt"
      /\ a.amount = g
      /\ b.kind = "require" /\ b.net = n /\ b.from = "wallet" /\ b.token = "esGmx"
      /\ b.amount = m
      /\ c.kind = "transfer" /\ c.net = n /\ c.from = "signer" /\ c.to = "wallet"
      /\ c.token = "wnt" /\ c.amount = g
      /\ d.kind = "approve" /\ d.net = n /\ d.from = "wallet" /\ d.token = "wnt"
      /\ d.amount = g
      /\ e.kind = "approve" /\ e.net = n /\ e.from = "wallet" /\ e.token = "esGmx"
      /\ e.amount = m
  BY <1>3 DEF Tx
<1>8. {a, b, c, d} \subseteq Openings(n) /\ e \in EsApprovals(n)
  <2>1. a \in AllTxs /\ b \in AllTxs /\ c \in AllTxs /\ d \in AllTxs /\ e \in AllTxs
    BY <1>4, <1>5, <1>6 DEF PlainTxs
  <2>2. a \in Openings(n) /\ b \in Openings(n)
    BY <1>7, <2>1 DEF Openings
  <2>3. c \in Openings(n) /\ d \in Openings(n) /\ e \in EsApprovals(n)
    BY <1>7, <2>1 DEF Openings, EsApprovals
  <2>. QED  BY <2>2, <2>3
<1>9. ChecksPart(n) = <<a, b, c, d>> /\ ApprovalPart(n) = <<e>>
  BY <1>3 DEF ChecksPart, ApprovalPart, Pay
<1>10. <<a, b, c, d>> = <<a, b>> \o <<c, d>>
  OBVIOUS
<1>11. ChecksAre(n, g, m, a, b, c, d, e)
  BY <1>7, <1>8, <1>9, <1>10 DEF ChecksAre
<1>. QED  BY <1>11

LEMMA ChecksSum ==
    ASSUME Ready, NEW n \in Networks
    PROVE  /\ SumsTo(ChecksPart(n), n, NativeReferrals(n), 0, 0)
           /\ SumsTo(ApprovalPart(n), n, 0, 0, 0)
           /\ ChecksPart(n) \in Seq(Openings(n)) /\ Orderly(ChecksPart(n))
           /\ ApprovalPart(n) \in Seq(EsApprovals(n)) /\ Orderly(ApprovalPart(n))
<1>1. PICK g, m : g = NativeReferrals(n) /\ m = EsGmxReferrals(n)
  OBVIOUS
<1>2. g \in Nat /\ m \in Nat
  BY <1>1, RewardedAccounts
<1>3. PICK a, b, c, d, e : ChecksAre(n, g, m, a, b, c, d, e)
  BY <1>1, ChecksMade
<1>30. /\ ChecksPart(n) = <<a, b>> \o <<c, d>> /\ ApprovalPart(n) = <<e>>
       /\ ChecksPart(n) = <<a, b, c, d>>
       /\ {a, b, c, d} \subseteq Openings(n) /\ e \in EsApprovals(n)
       /\ a.kind = "require" /\ a.from = "signer" /\ a.token = "wnt" /\ a.amount = g
       /\ b.kind = "require" /\ b.from = "wallet" /\ b.token = "esGmx" /\ b.amount = m
       /\ c.kind = "transfer" /\ c.from = "signer" /\ c.to = "wallet"
       /\ c.token = "wnt" /\ c.amount = g
       /\ d.kind = "approve" /\ d.token = "wnt" /\ d.amount = g
       /\ e.kind = "approve" /\ e.token = "esGmx" /\ e.amount = m
  BY <1>3 DEF ChecksAre
<1>4. /\ a \in AllTxs /\ b \in AllTxs /\ c \in AllTxs /\ d \in AllTxs /\ e \in AllTxs
      /\ c.net = n
  BY <1>30 DEF Openings, EsApprovals
<1>5. ASSUME NEW k, NEW o, NEW t
      PROVE  /\ Takes(k, o, t)[a] = 0 /\ Brings(k, o, t)[a] = 0
             /\ Takes(k, o, t)[b] = 0 /\ Brings(k, o, t)[b] = 0
             /\ Takes(k, o, t)[d] = 0 /\ Brings(k, o, t)[d] = 0
             /\ Takes(k, o, t)[e] = 0 /\ Brings(k, o, t)[e] = 0
             /\ Takes(k, o, t)[c] = IF k = n /\ o = "signer" /\ t = "wnt" THEN g ELSE 0
             /\ Brings(k, o, t)[c] = IF k = n /\ o = "wallet" /\ t = "wnt" THEN g ELSE 0
  BY <1>30, <1>4 DEF Takes, Brings
<1>6. PICK p, q, r : p = <<a, b>> /\ q = <<c, d>> /\ r = <<e>>
  OBVIOUS
<1>7. p \in Seq(AllTxs) /\ q \in Seq(AllTxs) /\ r \in Seq(AllTxs)
  BY <1>4, <1>6
<1>8. SumsTo(p, n, 0, 0, 0)
  <2>1. ASSUME NEW k, NEW o, NEW t PROVE Outgo(p, k, o, t) = 0 /\ Income(p, k, o, t) = 0
    <3>1. /\ Outgo(p, k, o, t) = Takes(k, o, t)[a] + Takes(k, o, t)[b]
          /\ Income(p, k, o, t) = Brings(k, o, t)[a] + Brings(k, o, t)[b]
      BY <1>4, <1>6, OutgoTwo
    <3>. QED  BY <1>5, <3>1
  <2>. QED  BY <1>7, <2>1 DEF SumsTo
<1>9. SumsTo(q, n, g, 0, 0)
  <2>1. ASSUME NEW k, NEW o, NEW t
        PROVE  /\ Outgo(q, k, o, t) = IF k = n /\ o = "signer" /\ t = "wnt" THEN g ELSE 0
               /\ Income(q, k, o, t) = IF k = n /\ o = "wallet" /\ t = "wnt" THEN g ELSE 0
    <3>1. /\ Outgo(q, k, o, t) = Takes(k, o, t)[c] + Takes(k, o, t)[d]
          /\ Income(q, k, o, t) = Brings(k, o, t)[c] + Brings(k, o, t)[d]
      BY <1>4, <1>6, OutgoTwo
    <3>2. /\ Takes(k, o, t)[c] = IF k = n /\ o = "signer" /\ t = "wnt" THEN g ELSE 0
          /\ Brings(k, o, t)[c] = IF k = n /\ o = "wallet" /\ t = "wnt" THEN g ELSE 0
          /\ Takes(k, o, t)[d] = 0 /\ Brings(k, o, t)[d] = 0
      BY <1>5
    <3>. QED  BY <1>2, <3>1, <3>2
  <2>. QED  BY <1>7, <2>1 DEF SumsTo
<1>10. SumsTo(r, n, 0, 0, 0)
  <2>1. ASSUME NEW k, NEW o, NEW t PROVE Outgo(r, k, o, t) = 0 /\ Income(r, k, o, t) = 0
    <3>1. /\ \A i \in 1..Len(r) : Takes(k, o, t)[r[i]] = 0
          /\ \A i \in 1..Len(r) : Brings(k, o, t)[r[i]] = 0
      BY <1>5, <1>6
    <3>. QED  BY <1>7, <3>1, OutgoNone
  <2>. QED  BY <1>7, <2>1 DEF SumsTo
<1>11. PICK s : s = ChecksPart(n)
  OBVIOUS
<1>12. SumsTo(s, n, g + 0, 0 + 0, 0 + 0)
  <2>1. Joins(s, p, q)
    BY <1>30, <1>6, <1>11 DEF Joins
  <2>2. SumsTo(s, n, 0 + g, 0 + 0, 0 + 0)
    BY <1>2, <1>8, <1>9, <2>1, SumsJoined
  <2>. QED  BY <1>2, <2>2
<1>13. SumsTo(s, n, g, 0, 0)
  BY <1>2, <1>12
<1>14. s \in Seq(Openings(n)) /\ r \in Seq(EsApprovals(n))
  BY <1>30, <1>6, <1>11
<1>15. Orderly(s)
  <2>1. s = <<a, b, c, d>>
    BY <1>30, <1>11
  <2>2. Simple(a) /\ Simple(b) /\ Simple(c) /\ Simple(d)
    BY <1>30, ReferralsFree DEF Natives
  <2>3. ~Clash(a, b) /\ ~Clash(a, c) /\ ~Clash(a, d) /\ ~Clash(b, c) /\ ~Clash(b, d)
        /\ ~Clash(c, d)
    BY <1>30 DEF Clash
  <2>4. Len(s) = 4 /\ s[1] = a /\ s[2] = b /\ s[3] = c /\ s[4] = d
    BY <2>1
  <2>5. \A i \in 1..Len(s) : i = 1 \/ i = 2 \/ i = 3 \/ i = 4
    BY <2>4
  <2>6. \A i \in 1..Len(s) : Simple(s[i])
    BY <2>2, <2>4, <2>5
  <2>7. ASSUME NEW i \in 1..Len(s), NEW j \in 1..Len(s), i < j PROVE ~Clash(s[i], s[j])
    <3>1. \/ i = 1 /\ (j = 2 \/ j = 3 \/ j = 4)
          \/ i = 2 /\ (j = 3 \/ j = 4)
          \/ i = 3 /\ j = 4
      BY <2>5, <2>7
    <3>. QED  BY <2>3, <2>4, <3>1
  <2>. QED  BY <2>6, <2>7 DEF Orderly
<1>16. Orderly(r)
  <2>1. \A i \in 1..Len(r) : i = 1 /\ r[i] = e
    BY <1>6
  <2>2. Simple(e)
    BY <1>30, ReferralsFree
  <2>. QED  BY <2>1, <2>2 DEF Orderly
<1>17. r = ApprovalPart(n) /\ s = ChecksPart(n)
  BY <1>6, <1>11, <1>30
<1>. QED  BY <1>1, <1>10, <1>13, <1>14, <1>15, <1>16, <1>17

-----------------------------------------------------------------------------
(* The transactions of a referral step on network n, which sends g native  *)
(* tokens and m esGMX: what they look for and allow.                       *)
Marked(n, g, m) ==
    {tx \in AllTxs :
        /\ tx.net = n
        /\ tx.kind = "require" =>
              \/ tx.from = "signer" /\ tx.token = "wnt" /\ tx.amount = g
              \/ tx.from = "wallet" /\ tx.token = "esGmx" /\ tx.amount = m
        /\ tx.kind = "approve" =>
              \/ tx.token = "wnt" /\ tx.amount = g
              \/ tx.token = "esGmx" /\ tx.amount = m}
ReferralList(s, n, g, m) ==
    /\ s \in Seq(Marked(n, g, m)) /\ Orderly(s) /\ SumsTo(s, n, g, g, m)
    /\ Approves(s, n, "wnt") /\ Approves(s, n, "esGmx")

LEMMA ApprovesJoined ==
    ASSUME NEW s \in Seq(AllTxs), NEW r \in Seq(AllTxs), NEW u, Joins(u, s, r),
           NEW n, NEW t, Approves(s, n, t) \/ Approves(r, n, t)
    PROVE  Approves(u, n, t)
<1>1. /\ Len(u) = Len(s) + Len(r) /\ Len(s) \in Nat /\ Len(r) \in Nat
      /\ \A k \in 1..Len(s) : u[k] = s[k]
      /\ \A k \in 1..Len(r) : u[Len(s) + k] = r[k]
  BY Joined
<1>2. CASE Approves(s, n, t)
  <2>1. PICK i \in 1..Len(s) : s[i].kind = "approve" /\ s[i].net = n /\ s[i].token = t
    BY <1>2 DEF Approves
  <2>2. i \in 1..Len(u) /\ u[i] = s[i]
    BY <1>1
  <2>. QED  BY <2>1, <2>2 DEF Approves
<1>3. CASE Approves(r, n, t)
  <2>1. PICK i \in 1..Len(r) : r[i].kind = "approve" /\ r[i].net = n /\ r[i].token = t
    BY <1>3 DEF Approves
  <2>2. PICK j : j = Len(s) + i
    OBVIOUS
  <2>3. j \in 1..Len(u) /\ u[j] = r[i]
    BY <1>1, <2>2
  <2>. QED  BY <2>1, <2>3 DEF Approves
<1>. QED  BY <1>2, <1>3

LEMMA ReferralsMade ==
    ASSUME Ready, NEW n \in Networks, NEW z, z = Referrals(n),
           NEW g, g = NativeReferrals(n), NEW m, m = EsGmxReferrals(n)
    PROVE  ReferralList(z, n, g, m)
<1>1. PICK x, s, t, y, v, a, b :
          /\ x = ChecksPart(n) /\ s = RebatesPart(n) /\ t = DiscountsPart(n)
          /\ y = ApprovalPart(n) /\ v = EsPart(n)
          /\ a = RebateTotal(n) /\ b = DiscountTotal(n)
  OBVIOUS
<1>2. PICK j1, j2, j3 : j1 = x \o s /\ j2 = j1 \o t /\ j3 = j2 \o y
  OBVIOUS
<1>3. /\ Joins(j1, x, s) /\ Joins(j2, j1, t) /\ Joins(j3, j2, y) /\ Joins(z, j3, v)
  BY <1>1, <1>2, ReferralParts DEF Joins
<1>4. /\ g \in Nat /\ m \in Nat /\ a \in Nat /\ b \in Nat /\ g = a + b
  BY <1>1, ReferralTotals
<1>5. PICK O, W, A, E : /\ O = Openings(n) /\ W = WalletSpends(n, "wnt")
                        /\ A = EsApprovals(n) /\ E = EsTxs(n)
  OBVIOUS
<1>6. /\ x \in Seq(O) /\ s \in Seq(W) /\ t \in Seq(W) /\ y \in Seq(A) /\ v \in Seq(E)
      /\ Orderly(x) /\ Orderly(y)
  BY <1>1, <1>5, ChecksSum, SpendsMade, EsMade DEF EsTxs
<1>7. /\ Free(W, W) /\ Free(E, E) /\ Free(O, W) /\ Free(O \cup W, W)
      /\ Free(O \cup W, A) /\ Free((O \cup W) \cup A, E)
      /\ \A q \in ((O \cup W) \cup A) \cup E : Simple(q) /\ q.net = n /\ q \in AllTxs
  BY <1>5, ReferralsFree DEF Natives
<1>8. Orderly(s) /\ Orderly(t) /\ Orderly(v)
  <2>1. (\A q \in W : Simple(q)) /\ (\A q \in E : Simple(q)) /\ Free(W, W) /\ Free(E, E)
    BY <1>7
  <2>2. Orderly(s) /\ Orderly(t)
    BY <1>6, <2>1, OrderlyAll
  <2>3. Orderly(v)
    BY <1>6, <2>1, OrderlyAll
  <2>. QED  BY <2>2, <2>3
<1>9. j1 \in Seq(O \cup W) /\ Orderly(j1)
  <2>1. x \in Seq(O \cup W) /\ s \in Seq(O \cup W)
    BY <1>6
  <2>2. j1 \in Seq(O \cup W)
    BY <1>3, <2>1, Joined
  <2>3. Orderly(j1)
    BY <1>3, <1>6, <1>7, <1>8, OrderlyJoined
  <2>. QED  BY <2>2, <2>3
<1>10. j2 \in Seq(O \cup W) /\ Orderly(j2)
  <2>1. t \in Seq(O \cup W)
    BY <1>6
  <2>2. j2 \in Seq(O \cup W)
    BY <1>3, <1>9, <2>1, Joined
  <2>3. Orderly(j2)
    BY <1>3, <1>6, <1>7, <1>8, <1>9, OrderlyJoined
  <2>. QED  BY <2>2, <2>3
<1>11. j3 \in Seq((O \cup W) \cup A) /\ Orderly(j3)
  <2>1. y \in Seq((O \cup W) \cup A) /\ j2 \in Seq((O \cup W) \cup A)
    BY <1>6, <1>10
  <2>2. j3 \in Seq((O \cup W) \cup A)
    BY <1>3, <2>1, Joined
  <2>3. Orderly(j3)
    BY <1>3, <1>6, <1>7, <1>10, OrderlyJoined
  <2>. QED  BY <2>2, <2>3
<1>12. Orderly(z)
  BY <1>3, <1>6, <1>7, <1>8, <1>11, OrderlyJoined
<1>13. SumsTo(z, n, g, g, m)
  <2>1. /\ SumsTo(x, n, g, 0, 0) /\ SumsTo(s, n, 0, a, 0) /\ SumsTo(t, n, 0, b, 0)
        /\ SumsTo(y, n, 0, 0, 0) /\ SumsTo(v, n, 0, 0, m)
    BY <1>1, ChecksSum, SpendsSum
  <2>2. SumsTo(j1, n, g + 0, 0 + a, 0 + 0)
    BY <1>3, <1>4, <2>1, SumsJoined
  <2>3. SumsTo(j1, n, g, a, 0)
    BY <1>4, <2>2
  <2>4. SumsTo(j2, n, g + 0, a + b, 0 + 0)
    BY <1>3, <1>4, <2>1, <2>3, SumsJoined
  <2>5. SumsTo(j2, n, g, g, 0)
    BY <1>4, <2>4
  <2>6. SumsTo(j3, n, g + 0, g + 0, 0 + 0)
    BY <1>3, <1>4, <2>1, <2>5, SumsJoined
  <2>7. SumsTo(j3, n, g, g, 0)
    BY <1>4, <2>6
  <2>8. SumsTo(z, n, g + 0, g + 0, 0 + m)
    BY <1>3, <1>4, <2>1, <2>7, SumsJoined
  <2>. QED  BY <1>4, <2>8
<1>14. PICK c1, c2, c3, c4, c5 : ChecksAre(n, g, m, c1, c2, c3, c4, c5)
  BY ChecksMade
<1>15. /\ x = <<c1, c2, c3, c4>> /\ y = <<c5>>
       /\ c4.kind = "approve" /\ c4.net = n /\ c4.token = "wnt"
       /\ c5.kind = "approve" /\ c5.net = n /\ c5.token = "esGmx"
  BY <1>1, <1>14 DEF ChecksAre, Openings, EsApprovals
<1>16. PICK M : M = Marked(n, g, m)
  OBVIOUS
<1>17. x \in Seq(M) /\ y \in Seq(M)
  <2>1. c1 \in M /\ c2 \in M /\ c3 \in M
    BY <1>14, <1>16 DEF ChecksAre, Openings, EsApprovals, Marked
  <2>2. c4 \in M /\ c5 \in M
    BY <1>14, <1>16 DEF ChecksAre, Openings, EsApprovals, Marked
  <2>. QED  BY <1>15, <2>1, <2>2
<1>18. W \subseteq M /\ E \subseteq M /\ M \subseteq AllTxs
  BY <1>5, <1>16 DEF Marked, WalletSpends, EsTxs, WalletBonuses, PlainTxs
<1>19. s \in Seq(M) /\ t \in Seq(M) /\ v \in Seq(M)
  BY <1>6, <1>18
<1>20. j1 \in Seq(M)
  BY <1>3, <1>17, <1>19, Joined
<1>21. j2 \in Seq(M)
  BY <1>3, <1>19, <1>20, Joined
<1>22. j3 \in Seq(M)
  BY <1>3, <1>17, <1>21, Joined
<1>23. z \in Seq(M)
  BY <1>3, <1>19, <1>22, Joined
<1>24. /\ x \in Seq(AllTxs) /\ s \in Seq(AllTxs) /\ t \in Seq(AllTxs) /\ y \in Seq(AllTxs)
       /\ v \in Seq(AllTxs) /\ j1 \in Seq(AllTxs) /\ j2 \in Seq(AllTxs) /\ j3 \in Seq(AllTxs)
  BY <1>17, <1>18, <1>19, <1>20, <1>21, <1>22
<1>25. Approves(x, n, "wnt") /\ Approves(y, n, "esGmx")
  <2>1. Len(x) = 4 /\ x[4] = c4 /\ Len(y) = 1 /\ y[1] = c5
    BY <1>15
  <2>2. 4 \in 1..Len(x) /\ 1 \in 1..Len(y)
    BY <2>1
  <2>. QED  BY <1>15, <2>1, <2>2 DEF Approves
<1>26. Approves(z, n, "wnt")
  <2>1. Approves(j1, n, "wnt")
    BY <1>3, <1>24, <1>25, ApprovesJoined
  <2>2. Approves(j2, n, "wnt")
    BY <1>3, <1>24, <2>1, ApprovesJoined
  <2>3. Approves(j3, n, "wnt")
    BY <1>3, <1>24, <2>2, ApprovesJoined
  <2>. QED  BY <1>3, <1>24, <2>3, ApprovesJoined
<1>27. Approves(z, n, "esGmx")
  <2>1. Approves(j3, n, "esGmx")
    BY <1>3, <1>24, <1>25, ApprovesJoined
  <2>. QED  BY <1>3, <1>24, <2>1, ApprovesJoined
<1>. QED  BY <1>12, <1>13, <1>16, <1>23, <1>26, <1>27 DEF ReferralList

-----------------------------------------------------------------------------
(* Referral rewards on both networks: the money and the esGMX that the     *)
(* step looks for are all it sends, and so is what it allows.              *)
Provides(b, n, g, m) ==
    g \in Nat /\ m \in Nat /\ g <= b[n]["signer"]["wnt"] /\ m <= b[n]["wallet"]["esGmx"]
LEMMA AmpleReferrals ==
    ASSUME NEW g \in [Networks -> Nat], NEW m \in [Networks -> Nat],
           NEW p, ReferralList(p, arb, g[arb], m[arb]),
           NEW q, ReferralList(q, avax, g[avax], m[avax]),
           NEW u, Joins(u, p, q), NEW b \in Balances, NEW a \in Allowances,
           \A n \in Networks : Provides(b, n, g[n], m[n])
    PROVE  Ample(u, b, a)
<1> DEFINE S(n) == Marked(n, g[n], m[n])
<1>1. /\ p \in Seq(S(arb)) /\ q \in Seq(S(avax)) /\ Orderly(p) /\ Orderly(q)
      /\ SumsTo(p, arb, g[arb], g[arb], m[arb]) /\ SumsTo(q, avax, g[avax], g[avax], m[avax])
      /\ Approves(p, arb, "wnt") /\ Approves(p, arb, "esGmx")
      /\ Approves(q, avax, "wnt") /\ Approves(q, avax, "esGmx")
  BY DEF ReferralList
<1>2. /\ S(arb) \subseteq AllTxs /\ S(avax) \subseteq AllTxs
      /\ \A x \in S(arb) : x.net = arb
      /\ \A x \in S(avax) : x.net = avax
  BY DEF Marked
<1>3. p \in Seq(AllTxs) /\ q \in Seq(AllTxs) /\ u \in Seq(AllTxs)
  <2>1. p \in Seq(AllTxs) /\ q \in Seq(AllTxs)
    BY <1>1 DEF SumsTo
  <2>. QED  BY <2>1, Joined
<1>4. Orderly(u)
  <2>1. Free(S(arb), S(avax))
    BY <1>2, NetworksApart DEF Free, Clash
  <2>2. PICK X, Y : X = S(arb) /\ Y = S(avax)
    OBVIOUS
  <2>. HIDE DEF S
  <2>3. p \in Seq(X) /\ q \in Seq(Y) /\ Free(X, Y)
    BY <1>1, <2>1, <2>2
  <2>. QED  BY <1>1, <2>3, OrderlyJoined
<1>5. /\ g[arb] \in Nat /\ g[avax] \in Nat /\ m[arb] \in Nat /\ m[avax] \in Nat
      /\ \A n \in Networks : g[n] \in Nat /\ m[n] \in Nat
  BY NetworksApart
<1>6. ASSUME NEW n \in Networks, NEW t
      PROVE  /\ Outgo(u, n, "signer", t) = IF t = "wnt" THEN g[n] ELSE 0
             /\ Outgo(u, n, "wallet", t) = IF t = "wnt" THEN g[n]
                                           ELSE IF t = "esGmx" THEN m[n] ELSE 0
             /\ Income(u, n, "wallet", "wnt") = g[n]
  <2>1. /\ Outgo(u, n, "signer", t) = Outgo(p, n, "signer", t) + Outgo(q, n, "signer", t)
        /\ Outgo(u, n, "wallet", t) = Outgo(p, n, "wallet", t) + Outgo(q, n, "wallet", t)
        /\ Income(u, n, "wallet", "wnt")
              = Income(p, n, "wallet", "wnt") + Income(q, n, "wallet", "wnt")
    BY <1>3, OutgoJoined
  <2>2. CASE n = arb
    BY <1>1, <1>5, <2>1, <2>2, NetworksApart DEF SumsTo
  <2>3. CASE n = avax
    BY <1>1, <1>5, <2>1, <2>3, NetworksApart DEF SumsTo
  <2>. QED  BY <2>2, <2>3, NetworksApart
<1>7. Provided(u, b)
  <2>1. ASSUME NEW n \in Networks, NEW o \in Payers, NEW t \in Tokens
        PROVE  Outgo(u, n, o, t) <= b[n][o][t] + Income(u, n, o, t)
    <3>1. Outgo(u, n, o, t) \in Nat /\ Income(u, n, o, t) \in Nat
      BY <1>3, OutgoTyped
    <3>2. b[n][o][t] \in Nat
      <4>1. o \in Owners
        BY DEF Payers, Owners, Places
      <4>. QED  BY <4>1, BalanceTyped
    <3>3. /\ g[n] \in Nat /\ m[n] \in Nat
          /\ g[n] <= b[n]["signer"]["wnt"] /\ m[n] <= b[n]["wallet"]["esGmx"]
      BY DEF Provides
    <3>4. CASE o = "signer"
      BY <1>6, <3>1, <3>2, <3>3, <3>4
    <3>5. CASE o = "wallet" /\ t = "wnt"
      BY <1>6, <3>1, <3>2, <3>3, <3>5
    <3>6. CASE o = "wallet" /\ t # "wnt"
      BY <1>6, <3>1, <3>2, <3>3, <3>6
    <3>. QED  BY <3>4, <3>5, <3>6 DEF Payers
  <2>. QED  BY <2>1 DEF Provided
<1>8. ASSUME NEW i \in 1..Len(u)
      PROVE  \E n \in Networks : u[i] \in S(n)
  <2>1. /\ Len(u) = Len(p) + Len(q) /\ Len(p) \in Nat /\ Len(q) \in Nat
        /\ \A k \in 1..Len(p) : u[k] = p[k]
        /\ \A k \in 1..Len(q) : u[Len(p) + k] = q[k]
    BY <1>3, Joined
  <2>2. CASE i <= Len(p)
    <3>1. i \in 1..Len(p) /\ u[i] = p[i]
      BY <2>1, <2>2
    <3>2. u[i] \in S(arb)
      BY <1>1, <3>1
    <3>. QED  BY <3>2, NetworksApart
  <2>3. CASE i > Len(p)
    <3>1. PICK k : k = i - Len(p)
      OBVIOUS
    <3>2. k \in 1..Len(q) /\ i = Len(p) + k
      BY <2>1, <2>3, <3>1
    <3>3. u[i] = q[k]
      BY <2>1, <3>2
    <3>4. u[i] \in S(avax)
      BY <1>1, <3>2, <3>3
    <3>. QED  BY <3>4, NetworksApart
  <2>. QED  BY <2>1, <2>2, <2>3
<1>9. Required(u)
  <2>1. ASSUME NEW i \in 1..Len(u), u[i].kind = "require"
        PROVE  u[i].amount <= Outgo(u, u[i].net, u[i].from, u[i].token)
    <3>1. PICK n \in Networks : u[i] \in S(n)
      BY <1>8
    <3>2. /\ u[i].net = n
          /\ \/ u[i].from = "signer" /\ u[i].token = "wnt" /\ u[i].amount = g[n]
             \/ u[i].from = "wallet" /\ u[i].token = "esGmx" /\ u[i].amount = m[n]
      BY <2>1, <3>1 DEF Marked
    <3>3. Outgo(u, n, "signer", "wnt") = g[n] /\ Outgo(u, n, "wallet", "esGmx") = m[n]
      BY <1>6
    <3>. QED  BY <1>5, <3>2, <3>3
  <2>. QED  BY <2>1 DEF Required
<1>10. Permitted(u, a)
  <2>1. ASSUME NEW i \in 1..Len(u), u[i].kind = "approve"
        PROVE  Outgo(u, u[i].net, "wallet", u[i].token) <= u[i].amount
    <3>1. PICK n \in Networks : u[i] \in S(n)
      BY <1>8
    <3>2. /\ u[i].net = n
          /\ \/ u[i].token = "wnt" /\ u[i].amount = g[n]
             \/ u[i].token = "esGmx" /\ u[i].amount = m[n]
      BY <2>1, <3>1 DEF Marked
    <3>3. Outgo(u, n, "wallet", "wnt") = g[n] /\ Outgo(u, n, "wallet", "esGmx") = m[n]
      BY <1>6
    <3>. QED  BY <1>5, <3>2, <3>3
  <2>2. ASSUME NEW n \in Networks, NEW t \in Tokens
        PROVE  Approves(u, n, t) \/ Outgo(u, n, "wallet", t) <= a[n]["wallet"][t]
    <3>1. CASE t \in {"wnt", "esGmx"}
      <4>1. Approves(p, n, t) \/ Approves(q, n, t)
        BY <1>1, <3>1, NetworksApart
      <4>. QED  BY <1>3, <4>1, ApprovesJoined
    <3>2. CASE t \notin {"wnt", "esGmx"}
      <4>1. Outgo(u, n, "wallet", t) = 0
        BY <1>6, <3>2
      <4>2. a[n]["wallet"][t] \in Nat
        BY DEF Allowances, Spenders
      <4>. QED  BY <4>1, <4>2
    <3>. QED  BY <3>1, <3>2
  <2>. QED  BY <2>1, <2>2 DEF Permitted
<1>. QED  BY <1>4, <1>7, <1>9, <1>10 DEF Ample

LEMMA ReferralsAmple ==
    ASSUME Ready, allowance \in Allowances, AcceptsStep("referrals")
    PROVE  Ample(SendReferralRewards, balance, allowance)
<1>1. PICK p, q, u, b, a, g, m :
          /\ p = Referrals(arb) /\ q = Referrals(avax)
          /\ u = SendReferralRewards /\ b = balance /\ a = allowance
          /\ g = [n \in Networks |-> NativeReferrals(n)]
          /\ m = [n \in Networks |-> EsGmxReferrals(n)]
  OBVIOUS
<1>2. \A n \in Networks : NativeReferrals(n) \in Nat /\ EsGmxReferrals(n) \in Nat
  BY RewardedAccounts
<1>3. /\ b \in Balances /\ a \in Allowances
      /\ g \in [Networks -> Nat] /\ m \in [Networks -> Nat]
  BY <1>1, <1>2 DEF Ready
<1>4. /\ g[arb] = NativeReferrals(arb) /\ m[arb] = EsGmxReferrals(arb)
      /\ g[avax] = NativeReferrals(avax) /\ m[avax] = EsGmxReferrals(avax)
  BY <1>1, NetworksApart
<1>5. ReferralList(p, arb, g[arb], m[arb])
  BY <1>1, <1>4, NetworksApart, ReferralsMade
<1>6. ReferralList(q, avax, g[avax], m[avax])
  BY <1>1, <1>4, NetworksApart, ReferralsMade
<1>7. Joins(u, p, q)
  BY <1>1 DEF SendReferralRewards, Both, Joins
<1>8. ASSUME NEW n \in Networks PROVE Provides(b, n, g[n], m[n])
  <2>1. /\ Holds(n, "wnt", NativeReferrals(n))
        /\ balance[n]["wallet"]["esGmx"] >= EsGmxReferrals(n)
    BY DEF AcceptsStep, Accepts
  <2>2. b[n]["signer"]["wnt"] \in Nat /\ b[n]["wallet"]["esGmx"] \in Nat
    BY <1>3, BalanceTyped DEF Owners, Places, Tokens
  <2>. QED  BY <1>1, <1>2, <2>1, <2>2 DEF Holds, Provides
<1>9. Ample(u, b, a)
  BY <1>3, <1>5, <1>6, <1>7, <1>8, AmpleReferrals
<1>. QED  BY <1>1, <1>9

-----------------------------------------------------------------------------
(* The gas of the fee keeper on network n, and a list: behind each of its  *)
(* positions he has what he had at first once all before it is sent, and   *)
(* what a keeper is sent comes on top of that.                             *)
Unwraps(n) ==
    [tx \in AllTxs |-> IF tx.kind = "unwrap" /\ tx.net = n THEN tx.amount ELSE 0]
Fuels(n) == Takes(n, "signer", "eth")
InitEth(n) == InitBalances[n]["signer"]["eth"]
GasAt(s, n, i) == i \in 1..Len(s) /\ IsGas(s[i]) /\ s[i].net = n
EvenAt(s, e, n, i) ==
    /\ GasAt(s, n, i) => InitEth(n) + s[i].amount + Before(Fuels(n), s, i)
                            <= e + Before(Unwraps(n), s, i)
    /\ ~GasAt(s, n, i) => e + Before(Unwraps(n), s, i)
                            = InitEth(n) + Before(Fuels(n), s, i)
Fueled(e, d, n, h) == d = e + Unwraps(n)[h] - Fuels(n)[h]
Even(s, e, n) == \A i \in 1..(Len(s) + 1) : EvenAt(s, e, n, i)

LEMMA FuelsTyped ==
    ASSUME NEW n \in Networks
    PROVE  /\ Unwraps(n) \in [AllTxs -> Nat] /\ Fuels(n) \in [AllTxs -> Nat]
           /\ InitEth(n) \in Nat
<1>1. \A tx \in AllTxs : tx.amount \in Nat
  BY DEF AllTxs, Sendable
<1>2. Unwraps(n) \in [AllTxs -> Nat]
  BY <1>1 DEF Unwraps
<1>3. InitEth(n) \in Nat
  BY InitialAssumption DEF InitEth, Owners, Places, Tokens
<1>. QED  BY <1>2, <1>3, TakesTyped DEF Fuels

(* What a transaction of distributeFees does to that gas.                  *)
LEMMA EthEffect ==
    ASSUME CreditInv, Send, NEW h, h = todo[1], NEW H, Within(h, H), NEW n \in Networks
    PROVE  Fueled(balance[n]["signer"]["eth"], balance'[n]["signer"]["eth"], n, h)
<1>1. PICK tx : tx = Head(todo)
  OBVIOUS
<1>2. /\ todo # <<>> /\ tx = h /\ Sendable(tx) /\ balance \in Balances
      /\ tx.net \in Networks /\ tx.from \in Owners /\ tx.to \in Owners
      /\ tx.token \in Tokens /\ tx.amount \in Nat
  BY <1>1, SendOne, HeadTyped DEF CreditInv, Typed
<1>3. h \in AllTxs
  <2>1. 1 \in 1..Len(todo) /\ todo \in Seq(AllTxs)
    BY <1>2 DEF CreditInv, Typed
  <2>. QED  BY <2>1, TxTyped
<1>11. SUFFICES balance'[n]["signer"]["eth"]
                    = balance[n]["signer"]["eth"] + Unwraps(n)[h] - Fuels(n)[h]
  BY DEF Fueled
<1>4. "signer" \in Owners /\ "eth" \in Tokens /\ balance[n]["signer"]["eth"] \in Nat
  BY <1>2, BalanceTyped DEF Owners, Places, Tokens
<1>5. /\ Unwraps(n)[h] = IF tx.kind = "unwrap" /\ tx.net = n THEN tx.amount ELSE 0
      /\ Fuels(n)[h] = IF tx.kind \in {"transfer", "spend"} /\ tx.net = n
                             /\ tx.from = "signer" /\ tx.token = "eth"
                       THEN tx.amount ELSE 0
  BY <1>2, <1>3 DEF Unwraps, Fuels, Takes
<1>6. CASE Paying
  <2>1. /\ tx.kind \in {"transfer", "claim", "spend"} /\ tx.from # tx.to
        /\ \E m \in Nat :
                 /\ m <= balance[tx.net][tx.from][tx.token]
                 /\ tx.kind \in {"transfer", "spend"} => m = tx.amount
                 /\ tx.kind = "claim" => m = balance[tx.net][tx.from][tx.token]
                 /\ Flows(balance, balance', tx.net, tx.from, tx.to, tx.token, m)
    BY <1>1, <1>6, PayingFlows
  <2>2. PICK m \in Nat :
                 /\ tx.kind \in {"transfer", "spend"} => m = tx.amount
                 /\ Flows(balance, balance', tx.net, tx.from, tx.to, tx.token, m)
    BY <2>1
  <2>3. balance'[n]["signer"]["eth"] = balance[n]["signer"]["eth"]
            - (IF n = tx.net /\ "signer" = tx.from /\ "eth" = tx.token THEN m ELSE 0)
            + (IF n = tx.net /\ "signer" = tx.to /\ "eth" = tx.token THEN m ELSE 0)
    BY <1>4, <2>2 DEF Flows
  <2>4. CASE tx.token = "eth"
    <3>1. tx.kind = "transfer" /\ tx.from = "signer"
      BY <1>2, <2>4 DEF Sendable
    <3>. QED  BY <1>2, <1>3, <1>4, <1>5, <2>1, <2>2, <2>3, <2>4, <3>1
  <2>5. CASE tx.token # "eth"
    BY <1>3, <1>4, <1>5, <2>1, <2>3, <2>5
  <2>. QED  BY <2>4, <2>5
<1>7. CASE SendUnwrap
  <2>1. PICK b, c, k, a : b = balance /\ c = balance' /\ k = tx.net /\ a = tx.amount
    OBVIOUS
  <2>2. /\ k \in Networks /\ a \in Nat /\ tx.kind = "unwrap"
        /\ c[k]["signer"]["eth"] = b[k]["signer"]["eth"] + a
        /\ KeptButBoth(b, c, k, "signer", "wnt", "eth")
    BY <1>1, <1>7, <2>1, UnwrapFlows
  <2>3. CASE n = k
    BY <1>3, <1>4, <1>5, <2>1, <2>2, <2>3
  <2>4. CASE n # k
    <3>1. c[n]["signer"]["eth"] = b[n]["signer"]["eth"]
      BY <1>4, <2>2, <2>4 DEF KeptButBoth
    <3>. QED  BY <1>3, <1>4, <1>5, <2>1, <2>2, <2>4, <3>1
  <2>. QED  BY <2>3, <2>4
<1>8. CASE SendSwap \/ SendExcess
  <2>1. tx.kind \in {"swap", "excess"}
    BY <1>1, <1>8 DEF SendSwap, SendExcess, Sending
  <2>. QED  BY <1>2, <2>1 DEF Within
<1>9. CASE Crediting
  <2>1. balance' = balance /\ tx.kind \notin {"transfer", "spend", "unwrap"}
    BY <1>1, <1>9
    DEF Crediting, SendApprove, SendRate, SendBonus, SendNothing, ledgerVars, Sending
  <2>. QED  BY <1>3, <1>4, <1>5, <2>1
<1>10. Paying \/ SendUnwrap \/ SendSwap \/ SendExcess \/ Crediting
  BY SendOne
<1>. QED  BY <1>6, <1>7, <1>8, <1>9, <1>10

(* Behind its head the list stays even.                                    *)
LEMMA EvenTail ==
    ASSUME NEW s \in Seq(AllTxs), s # <<>>, NEW u, u = Tail(s), NEW n \in Networks,
           NEW e \in Nat, Even(s, e, n),
           NEW d \in Nat, Fueled(e, d, n, s[1])
    PROVE  Even(u, d, n)
<1>1. SUFFICES ASSUME NEW i \in 1..(Len(u) + 1) PROVE EvenAt(u, d, n, i)
  BY DEF Even
<1>2. /\ u \in Seq(AllTxs) /\ Len(s) = Len(u) + 1 /\ Len(u) \in Nat
      /\ \A k \in 1..Len(u) : u[k] = s[k + 1]
  OBVIOUS
<1>3. PICK f, g : f = Unwraps(n) /\ g = Fuels(n)
  OBVIOUS
<1>4. f \in [AllTxs -> Nat] /\ g \in [AllTxs -> Nat] /\ InitEth(n) \in Nat
  BY <1>3, FuelsTyped
<1>5. /\ Before(f, s, i + 1) = f[s[1]] + Before(f, u, i)
      /\ Before(f, s, i + 1) \in Nat /\ Before(f, u, i) \in Nat /\ f[s[1]] \in Nat
  BY <1>4, BeforeTail
<1>6. /\ Before(g, s, i + 1) = g[s[1]] + Before(g, u, i)
      /\ Before(g, s, i + 1) \in Nat /\ Before(g, u, i) \in Nat /\ g[s[1]] \in Nat
  BY <1>4, BeforeTail
<1>7. EvenAt(s, e, n, i + 1)
  <2>1. i + 1 \in 1..(Len(s) + 1)
    BY <1>2
  <2>. QED  BY <2>1 DEF Even
<1>8. GasAt(u, n, i) <=> GasAt(s, n, i + 1)
  <2>1. i \in 1..Len(u) <=> i + 1 \in 1..Len(s)
    BY <1>2
  <2>. QED  BY <1>2, <2>1 DEF GasAt
<1>9. d = e + f[s[1]] - g[s[1]]
  BY <1>3 DEF Fueled
<1>12. PICK x, y, v, w, p, q :
           /\ x = Before(f, s, i + 1) /\ y = Before(g, s, i + 1)
           /\ v = Before(f, u, i) /\ w = Before(g, u, i) /\ p = f[s[1]] /\ q = g[s[1]]
  OBVIOUS
<1>13. /\ x = p + v /\ y = q + w /\ d = e + p - q
       /\ x \in Nat /\ y \in Nat /\ v \in Nat /\ w \in Nat /\ p \in Nat /\ q \in Nat
  BY <1>5, <1>6, <1>9, <1>12
<1>14. \A m \in Nat : /\ e + x = m + y => d + v = m + w
                      /\ \A k \in Nat : m + k + y <= e + x => m + k + w <= d + v
  BY <1>13
<1>10. CASE GasAt(u, n, i)
  <2>1. u[i] = s[i + 1] /\ u[i].amount \in Nat
    <3>1. i \in 1..Len(u)
      BY <1>10 DEF GasAt
    <3>. QED  BY <1>2, <3>1, TxTyped
  <2>2. InitEth(n) + u[i].amount + y <= e + x
    BY <1>3, <1>7, <1>8, <1>10, <1>12, <2>1 DEF EvenAt
  <2>3. InitEth(n) + u[i].amount + w <= d + v
    BY <1>4, <1>14, <2>1, <2>2
  <2>. QED  BY <1>3, <1>10, <1>12, <2>3 DEF EvenAt
<1>11. CASE ~GasAt(u, n, i)
  <2>1. e + x = InitEth(n) + y
    BY <1>3, <1>7, <1>8, <1>11, <1>12 DEF EvenAt
  <2>2. d + v = InitEth(n) + w
    BY <1>4, <1>14, <2>1
  <2>. QED  BY <1>3, <1>11, <1>12, <2>2 DEF EvenAt
<1>. QED  BY <1>10, <1>11

-----------------------------------------------------------------------------
(* The lists of the steps are even, before they are begun.                 *)
EvenList(s, n) == s \in Seq(AllTxs) /\ Even(s, InitEth(n), n)

LEMMA BeforeTyped ==
    ASSUME NEW T, NEW f \in [T -> Nat], NEW s \in Seq(T), NEW i \in 1..(Len(s) + 1)
    PROVE  Before(f, s, i) \in Nat /\ Total(f, s) \in Nat
<1>1. 1..(i - 1) \in SUBSET (1..Len(s)) /\ 1..Len(s) \in SUBSET (1..Len(s))
  OBVIOUS
<1>. QED  BY <1>1, AlongType DEF Before, Total

LEMMA JoinAddsUp ==
    ASSUME NEW f \in [AllTxs -> Nat], NEW s \in Seq(AllTxs), NEW t \in Seq(AllTxs),
           NEW u, Joins(u, s, t)
    PROVE  AddsUp(f, s, t, u)
<1>1. PICK T : T = AllTxs
  OBVIOUS
<1>2. f \in [T -> Nat] /\ s \in Seq(T) /\ t \in Seq(T)
  BY <1>1
<1>. QED  BY <1>2, BeforeConcat

LEMMA EvenJoined ==
    ASSUME NEW n \in Networks, NEW s, EvenList(s, n), NEW t, EvenList(t, n),
           NEW u, Joins(u, s, t)
    PROVE  EvenList(u, n)
<1>1. PICK f, g, e : f = Unwraps(n) /\ g = Fuels(n) /\ e = InitEth(n)
  OBVIOUS
<1>2. f \in [AllTxs -> Nat] /\ g \in [AllTxs -> Nat] /\ e \in Nat
  BY <1>1, FuelsTyped
<1>3. s \in Seq(AllTxs) /\ t \in Seq(AllTxs) /\ Even(s, e, n) /\ Even(t, e, n)
  BY <1>1 DEF EvenList
<1>4. /\ u \in Seq(AllTxs) /\ Len(u) = Len(s) + Len(t) /\ Len(s) \in Nat /\ Len(t) \in Nat
      /\ \A k \in 1..Len(s) : u[k] = s[k]
      /\ \A k \in 1..Len(t) : u[Len(s) + k] = t[k]
  BY <1>3, Joined
<1>5. AddsUp(f, s, t, u)
  BY <1>2, <1>3, JoinAddsUp
<1>6. AddsUp(g, s, t, u)
  BY <1>2, <1>3, JoinAddsUp
<1>7. Total(f, s) = Total(g, s) /\ Total(f, s) \in Nat
  <2>1. Before(f, s, Len(s) + 1) = Total(f, s) /\ Before(g, s, Len(s) + 1) = Total(g, s)
    <3>1. (Len(s) + 1) - 1 = Len(s)
      BY <1>4
    <3>. QED  BY <3>1 DEF Before, Total
  <2>2. Total(f, s) \in Nat /\ Total(g, s) \in Nat
    <3>1. 1 \in 1..(Len(s) + 1)
      BY <1>4
    <3>. QED  BY <1>2, <1>3, <3>1, BeforeTyped
  <2>3. EvenAt(s, e, n, Len(s) + 1) /\ ~GasAt(s, n, Len(s) + 1)
    BY <1>3, <1>4 DEF Even, GasAt
  <2>4. e + Total(f, s) = e + Total(g, s)
    BY <1>1, <2>1, <2>3 DEF EvenAt
  <2>. QED  BY <1>2, <2>2, <2>4
<1>8. ASSUME NEW i \in 1..(Len(u) + 1) PROVE EvenAt(u, e, n, i)
  <2>1. CASE i \in 1..Len(s)
    <3>1. EvenAt(s, e, n, i) /\ u[i] = s[i] /\ i \in 1..(Len(s) + 1)
      BY <1>3, <1>4, <2>1 DEF Even
    <3>2. GasAt(u, n, i) <=> GasAt(s, n, i)
      <4>1. i \in 1..Len(u)
        BY <1>4, <2>1
      <4>. QED  BY <2>1, <3>1, <4>1 DEF GasAt
    <3>3. Before(f, u, i) = Before(f, s, i) /\ Before(g, u, i) = Before(g, s, i)
      BY <1>5, <1>6, <3>1 DEF AddsUp
    <3>. QED  BY <1>1, <3>1, <3>2, <3>3 DEF EvenAt
  <2>2. CASE i \notin 1..Len(s)
    <3>1. PICK k \in 1..(Len(t) + 1) : i = Len(s) + k
      <4>1. i - Len(s) \in 1..(Len(t) + 1) /\ i = Len(s) + (i - Len(s))
        BY <1>4, <2>2
      <4>. QED  BY <4>1
    <3>2. EvenAt(t, e, n, k)
      BY <1>3 DEF Even
    <3>3. GasAt(u, n, i) <=> GasAt(t, n, k)
      <4>1. i \in 1..Len(u) <=> k \in 1..Len(t)
        BY <1>4, <3>1
      <4>2. k \in 1..Len(t) => u[i] = t[k]
        BY <1>4, <3>1
      <4>. QED  BY <4>1, <4>2 DEF GasAt
    <3>4. PICK x, v, w : x = Total(f, s) /\ v = Before(f, t, k) /\ w = Before(g, t, k)
      OBVIOUS
    <3>5. Before(f, u, i) = x + v /\ Before(g, u, i) = x + w
      BY <1>5, <1>6, <1>7, <3>1, <3>4 DEF AddsUp
    <3>6. v \in Nat /\ w \in Nat /\ x \in Nat
      BY <1>2, <1>3, <1>7, <3>4, BeforeTyped
    <3>7. CASE GasAt(t, n, k)
      <4>1. u[i] = t[k] /\ t[k].amount \in Nat
        <5>1. k \in 1..Len(t)
          BY <3>7 DEF GasAt
        <5>. QED  BY <1>3, <1>4, <3>1, <5>1, TxTyped
      <4>2. e + t[k].amount + w <= e + v
        BY <1>1, <3>2, <3>4, <3>7 DEF EvenAt
      <4>4. PICK a : a = t[k].amount
        OBVIOUS
      <4>5. a \in Nat /\ e + a + w <= e + v
        BY <4>1, <4>2, <4>4
      <4>6. e + a + (x + w) <= e + (x + v)
        BY <1>2, <3>6, <4>5
      <4>3. e + u[i].amount + (x + w) <= e + (x + v)
        BY <4>1, <4>4, <4>6
      <4>. QED  BY <1>1, <3>3, <3>5, <3>7, <4>3 DEF EvenAt
    <3>8. CASE ~GasAt(t, n, k)
      <4>1. e + v = e + w
        BY <1>1, <3>2, <3>4, <3>8 DEF EvenAt
      <4>2. e + (x + v) = e + (x + w)
        BY <1>2, <3>6, <4>1
      <4>. QED  BY <1>1, <3>3, <3>5, <3>8, <4>2 DEF EvenAt
    <3>. QED  BY <3>7, <3>8
  <2>. QED  BY <2>1, <2>2
<1>. QED  BY <1>1, <1>4, <1>8 DEF EvenList, Even

-----------------------------------------------------------------------------
(* Lists without gas on network n are even, and so is one that unwraps     *)
(* what it sends.                                                          *)
Gasless(s, n) ==
    \A i \in 1..Len(s) : s[i].net = n => s[i].kind # "unwrap" /\ ~IsGas(s[i])
LEMMA EvenNone ==
    ASSUME NEW n \in Networks, NEW s \in Seq(AllTxs), Gasless(s, n)
    PROVE  EvenList(s, n)
<1>1. PICK f, g, e : f = Unwraps(n) /\ g = Fuels(n) /\ e = InitEth(n)
  OBVIOUS
<1>2. f \in [AllTxs -> Nat] /\ g \in [AllTxs -> Nat] /\ e \in Nat
  BY <1>1, FuelsTyped
<1>3. \A i \in 1..Len(s) : s[i] \in AllTxs /\ f[s[i]] = 0 /\ g[s[i]] = 0
  BY <1>1 DEF Gasless, Unwraps, Fuels, Takes, IsGas
<1>4. ASSUME NEW i \in 1..(Len(s) + 1) PROVE EvenAt(s, e, n, i)
  <2>1. 1..(i - 1) \subseteq 1..Len(s)
    OBVIOUS
  <2>2. Before(f, s, i) = 0 /\ Before(g, s, i) = 0
    BY <1>2, <1>3, <2>1, BeforeNone
  <2>3. ~GasAt(s, n, i)
    BY DEF GasAt, Gasless
  <2>. QED  BY <1>1, <2>2, <2>3 DEF EvenAt
<1>. QED  BY <1>1, <1>4 DEF EvenList, Even

LEMMA PlainEven ==
    ASSUME NEW n \in Networks, NEW s, Listed(s, PlainTxs),
           \A i \in 1..Len(s) : s[i].kind # "unwrap"
    PROVE  EvenList(s, n)
<1>1. s \in Seq(PlainTxs) /\ PlainTxs \subseteq AllTxs
  BY DEF Listed, PlainTxs
<1>2. s \in Seq(AllTxs)
  BY <1>1
<1>3. \A i \in 1..Len(s) : s[i] \in PlainTxs
  BY <1>1
<1>4. Gasless(s, n)
  BY <1>3 DEF Gasless, PlainTxs, IsGas
<1>. QED  BY <1>2, <1>4, EvenNone

(* The gas of keepers is what they lack.                                   *)
LEMMA GasTotal ==
    ASSUME Ready, NEW n \in Networks
    PROVE  Total(Fuels(n), SendGas(n)) = Costs(balance, n)
<1>1. PICK s, S, f, amounts, b :
          /\ s = SendGas(n) /\ S = Lacking(n) /\ f = Fuels(n) /\ b = balance
          /\ amounts = [k \in Keepers |-> TopUp(b[n][k]["eth"], Target[k])]
  OBVIOUS
<1>2. b \in Balances /\ f \in [AllTxs -> Nat]
  BY <1>1, FuelsTyped DEF Ready
<1>3. /\ \A k \in Keepers : TopUp(b[n][k]["eth"], Target[k]) \in Nat
      /\ IsFiniteSet(Keepers)
      /\ Costs(b, n) = SumFunctionOnSet(
                  [k \in Keepers |-> TopUp(b[n][k]["eth"], Target[k])], Keepers)
  BY <1>2, GasTyped
<1>4. \A k \in Keepers : Fuel(n)[k] = b[n][k]["eth"]
  BY <1>1 DEF Fuel
<1>5. /\ IsFiniteSet(S) /\ S \subseteq Keepers
      /\ s \in Seq(AllTxs) /\ Len(s) = Cardinality(S)
  BY <1>1, GasMade
<1>11. ASSUME NEW i \in 1..Len(s)
       PROVE  /\ s[i].kind = "transfer" /\ s[i].net = n
              /\ s[i].from = "signer" /\ s[i].token = "eth"
              /\ s[i].to = SetToSeq(S)[i] /\ s[i].to \in Keepers
              /\ s[i].amount = TopUp(Fuel(n)[s[i].to], Target[s[i].to])
  <2>1. \A j \in 1..Len(SendGas(n)) :
           /\ SendGas(n)[j].kind = "transfer" /\ SendGas(n)[j].net = n
           /\ SendGas(n)[j].from = "signer" /\ SendGas(n)[j].token = "eth"
           /\ SendGas(n)[j].to = SetToSeq(Lacking(n))[j]
           /\ SendGas(n)[j].to \in Keepers
           /\ SendGas(n)[j].amount
                 = TopUp(Fuel(n)[SendGas(n)[j].to], Target[SendGas(n)[j].to])
    BY GasMade
  <2>. QED  BY <1>1, <1>11, <2>1
<1>6. ASSUME NEW i \in 1..Len(s) PROVE f[s[i]] = amounts[SetToSeq(S)[i]]
  <2>1. s[i] \in AllTxs /\ s[i].amount = TopUp(Fuel(n)[s[i].to], Target[s[i].to])
        /\ s[i].to \in Keepers /\ s[i].to = SetToSeq(S)[i]
    BY <1>5, <1>11
  <2>2. f[s[i]] = s[i].amount
    BY <1>1, <1>11, <2>1 DEF Fuels, Takes
  <2>. QED  BY <1>1, <1>4, <2>1, <2>2
<1>7. Total(f, s) = SumFunctionOnSet(amounts, S)
  BY <1>2, <1>5, <1>6, SpendsTotal
<1>8. \A k \in Keepers \ S : amounts[k] = 0
  <2>1. \A k \in Keepers : k \in S <=> TopUp(b[n][k]["eth"], Target[k]) > 0
    BY <1>1, <1>4 DEF Lacking
  <2>2. ASSUME NEW k \in Keepers \ S PROVE amounts[k] = 0
    <3>1. amounts[k] = TopUp(b[n][k]["eth"], Target[k])
      BY <1>1
    <3>2. amounts[k] \in Nat /\ ~(amounts[k] > 0)
      BY <1>3, <2>1, <3>1
    <3>. QED  BY <3>2
  <2>. QED  BY <2>2
<1>9. /\ \A k \in Keepers : amounts[k] \in Int
      /\ Keepers \cap S = S
  BY <1>1, <1>3, <1>5
<1>10. SumFunctionOnSet(amounts, Keepers) = SumFunctionOnSet(amounts, Keepers \cap S)
  BY <1>3, <1>8, <1>9, SumRestrict
<1>. QED  BY <1>1, <1>3, <1>7, <1>9, <1>10

-----------------------------------------------------------------------------
LEMMA FundEven ==
    ASSUME Ready, NEW n \in Networks
    PROVE  EvenList(Fund(n), n)
<1>1. PICK x, s, u, f, g, e, c :
          /\ x = Tx("unwrap", n, "signer", "signer", "wnt", Costs(balance, n))
          /\ s = SendGas(n) /\ u = Fund(n) /\ f = Unwraps(n) /\ g = Fuels(n)
          /\ e = InitEth(n) /\ c = Costs(balance, n)
  OBVIOUS
<1>2. f \in [AllTxs -> Nat] /\ g \in [AllTxs -> Nat] /\ e \in Nat
  BY <1>1, FuelsTyped
<1>3. /\ u = <<x>> \o s /\ x \in PlainTxs /\ c \in Nat /\ s \in Seq(AllTxs)
  BY <1>1, GasMade
<1>4. x \in AllTxs /\ x.kind = "unwrap" /\ x.net = n /\ x.token = "wnt" /\ x.amount = c
  BY <1>1, <1>3 DEF PlainTxs, Tx
<1>5. ASSUME NEW i \in 1..Len(s)
      PROVE  /\ s[i] \in AllTxs /\ s[i].kind = "transfer" /\ s[i].net = n
             /\ s[i].from = "signer" /\ s[i].token = "eth" /\ s[i].amount \in Nat
  <2>1. \A j \in 1..Len(SendGas(n)) :
           /\ SendGas(n)[j].kind = "transfer" /\ SendGas(n)[j].net = n
           /\ SendGas(n)[j].from = "signer" /\ SendGas(n)[j].token = "eth"
    BY GasMade
  <2>2. s[i] \in AllTxs /\ s[i].amount \in Nat
    BY <1>3, TxTyped
  <2>. QED  BY <1>1, <1>5, <2>1, <2>2
<1>6. f[x] = c /\ g[x] = 0
  BY <1>1, <1>4 DEF Unwraps, Fuels, Takes
<1>7. \A i \in 1..Len(s) : f[s[i]] = 0 /\ g[s[i]] = s[i].amount
  BY <1>1, <1>5 DEF Unwraps, Fuels, Takes
<1>8. Total(g, s) = c
  BY <1>1, GasTotal
<1>9. PICK p : p = <<x>>
  OBVIOUS
<1>10. p \in Seq(AllTxs) /\ Len(p) = 1 /\ p[1] = x /\ Joins(u, p, s)
  BY <1>3, <1>4, <1>9 DEF Joins
<1>11. Total(f, p) = c /\ Total(g, p) = 0
  <2>1. Total(f, <<x>>) = f[x]
    BY <1>2, <1>4, TotalOne
  <2>2. Total(g, <<x>>) = g[x]
    BY <1>2, <1>4, TotalOne
  <2>. QED  BY <1>6, <1>9, <2>1, <2>2
<1>12. AddsUp(f, p, s, u) /\ AddsUp(g, p, s, u)
  BY <1>2, <1>3, <1>10, JoinAddsUp
<1>13. /\ u \in Seq(AllTxs) /\ Len(u) = 1 + Len(s) /\ Len(s) \in Nat
       /\ u[1] = x /\ \A k \in 1..Len(s) : u[1 + k] = s[k]
  <2>1. /\ u \in Seq(AllTxs) /\ Len(u) = Len(p) + Len(s) /\ Len(s) \in Nat
        /\ \A k \in 1..Len(p) : u[k] = p[k]
        /\ \A k \in 1..Len(s) : u[Len(p) + k] = s[k]
    <3>1. PICK T : T = AllTxs
      OBVIOUS
    <3>2. p \in Seq(T) /\ s \in Seq(T) /\ Joins(u, p, s)
      BY <1>3, <1>10, <3>1
    <3>3. /\ u \in Seq(T) /\ Len(u) = Len(p) + Len(s) /\ Len(s) \in Nat
          /\ \A k \in 1..Len(p) : u[k] = p[k]
          /\ \A k \in 1..Len(s) : u[Len(p) + k] = s[k]
      BY <3>2, Joined
    <3>. QED  BY <3>1, <3>3
  <2>. QED  BY <1>10, <2>1
<1>14. EvenAt(u, e, n, 1)
  <2>1. Before(f, p, 1) = 0 /\ Before(g, p, 1) = 0
    <3>1. 1 \in 1..(Len(p) + 1) /\ \A j \in 1..(1 - 1) : f[p[j]] = 0 /\ g[p[j]] = 0
      BY <1>10
    <3>. QED  BY <1>2, <1>10, <3>1, BeforeNone
  <2>2. Before(f, u, 1) = 0 /\ Before(g, u, 1) = 0
    <3>1. 1 \in 1..(Len(p) + 1)
      BY <1>10
    <3>. QED  BY <1>12, <2>1, <3>1 DEF AddsUp
  <2>3. ~GasAt(u, n, 1)
    BY <1>4, <1>13 DEF GasAt, IsGas
  <2>. QED  BY <1>1, <2>2, <2>3 DEF EvenAt
<1>15. ASSUME NEW k \in 1..(Len(s) + 1) PROVE EvenAt(u, e, n, 1 + k)
  <2>1. PICK v, w : v = Before(f, s, k) /\ w = Before(g, s, k)
    OBVIOUS
  <2>2. v = 0
    <3>1. \A j \in 1..(k - 1) : f[s[j]] = 0
      BY <1>7, <1>13
    <3>. QED  BY <1>2, <1>3, <2>1, <3>1, BeforeNone
  <2>3. Before(f, u, 1 + k) = c /\ Before(g, u, 1 + k) = w /\ w \in Nat
    <3>1. Before(f, u, 1 + k) = Total(f, p) + v /\ Before(g, u, 1 + k) = Total(g, p) + w
      BY <1>10, <1>12, <2>1 DEF AddsUp
    <3>2. w \in Nat
      BY <1>2, <1>3, <2>1, BeforeTyped
    <3>. QED  BY <1>3, <1>11, <2>2, <3>1, <3>2
  <2>4. CASE k \in 1..Len(s)
    <3>1. PICK a : a = s[k].amount
      OBVIOUS
    <3>2. a \in Nat /\ g[s[k]] = a
      BY <1>5, <1>7, <2>4, <3>1
    <3>3. w + a <= c
      <4>1. Before(g, s, k) + g[s[k]] <= Total(g, s)
        BY <1>2, <1>3, <2>4, BeforeBound
      <4>. QED  BY <1>8, <2>1, <3>2, <4>1
    <3>4. GasAt(u, n, 1 + k) /\ u[1 + k].amount = a
      BY <1>5, <1>13, <2>4, <3>1 DEF GasAt, IsGas
    <3>5. e + a + w <= e + c
      BY <1>2, <1>3, <2>3, <3>2, <3>3
    <3>. QED  BY <1>1, <2>3, <3>4, <3>5 DEF EvenAt
  <2>5. CASE k = Len(s) + 1
    <3>1. w = c
      <4>1. (Len(s) + 1) - 1 = Len(s)
        BY <1>13
      <4>. QED  BY <1>8, <2>1, <2>5, <4>1 DEF Before, Total
    <3>2. ~GasAt(u, n, 1 + k)
      BY <1>13, <2>5 DEF GasAt
    <3>. QED  BY <1>1, <2>3, <3>1, <3>2 DEF EvenAt
  <2>. QED  BY <1>13, <2>4, <2>5
<1>16. ASSUME NEW i \in 1..(Len(u) + 1) PROVE EvenAt(u, e, n, i)
  <2>1. CASE i = 1
    BY <1>14, <2>1
  <2>2. CASE i # 1
    <3>1. i - 1 \in 1..(Len(s) + 1) /\ 1 + (i - 1) = i
      BY <1>13, <2>2
    <3>. QED  BY <1>15, <3>1
  <2>. QED  BY <2>1, <2>2
<1>. QED  BY <1>1, <1>13, <1>16 DEF EvenList, Even

-----------------------------------------------------------------------------
(* All the steps of distributeFees.                                        *)
NoUnwrap(s) == \A i \in 1..Len(s) : s[i].kind # "unwrap"
LEMMA TwoNoUnwrap ==
    ASSUME NEW a, a.kind # "unwrap", NEW b, b.kind # "unwrap", NEW s, s = <<a, b>>
    PROVE  NoUnwrap(s)
<1>1. Len(s) = 2 /\ s[1] = a /\ s[2] = b
  OBVIOUS
<1>2. \A i \in 1..2 : i = 1 \/ i = 2
  OBVIOUS
<1>. QED  BY <1>1, <1>2 DEF NoUnwrap

LEMMA ListsEven ==
    ASSUME Ready, NEW k \in Networks, NEW n \in Networks
    PROVE  /\ EvenList(ClaimBuyback(k), n) /\ EvenList(Fund(k), n)
           /\ EvenList(BuybackRewards(k), n) /\ EvenList(GlpRewards(k), n)
           /\ EvenList(Payments(k), n) /\ EvenList(Referrals(k), n)
<1>1. ASSUME NEW s, Listed(s, PlainTxs), NoUnwrap(s) PROVE EvenList(s, n)
  BY <1>1, PlainEven DEF NoUnwrap
<1>2. EvenList(ClaimBuyback(k), n)
  <2>1. NoUnwrap(ClaimBuyback(k))
    BY TwoNoUnwrap DEF ClaimBuyback, Tx
  <2>. QED  BY <1>1, <2>1, PaymentsListed
<1>3. EvenList(BuybackRewards(k), n) /\ EvenList(GlpRewards(k), n)
  <2>1. ASSUME NEW tracker, NEW token, NEW amount, NEW weekly
        PROVE  NoUnwrap(Reward(k, tracker, token, amount, weekly))
    BY TwoNoUnwrap DEF Reward, Pay, Tx
  <2>2. NoUnwrap(BuybackRewards(k)) /\ NoUnwrap(GlpRewards(k))
    BY <2>1 DEF BuybackRewards, GlpRewards
  <2>. QED  BY <1>1, <2>2, RewardsListed
<1>4. EvenList(Payments(k), n)
  <2>1. NoUnwrap(Payments(k))
    BY TwoNoUnwrap DEF Payments, Pay, Tx
  <2>. QED  BY <1>1, <2>1, PaymentsListed
<1>5. EvenList(Referrals(k), n)
  <2>1. PICK z, g, m : z = Referrals(k) /\ g = NativeReferrals(k) /\ m = EsGmxReferrals(k)
    OBVIOUS
  <2>2. ReferralList(z, k, g, m)
    BY <2>1, ReferralsMade
  <2>3. Orderly(z)
    BY <2>2 DEF ReferralList
  <2>4. NoUnwrap(z)
    BY <2>3 DEF Orderly, Simple, NoUnwrap
  <2>. QED  BY <1>1, <2>1, <2>4, ReferralsListed
<1>6. EvenList(Fund(k), n)
  <2>1. CASE n = k
    BY <2>1, FundEven
  <2>2. CASE n # k
    <3>1. PICK s : s = Fund(k)
      OBVIOUS
    <3>2. s \in Seq(AllTxs) /\ \A i \in 1..Len(s) : s[i].net = k
      BY <3>1, FundFits DEF Listed
    <3>3. Gasless(s, n)
      BY <2>2, <3>2 DEF Gasless
    <3>. QED  BY <3>1, <3>2, <3>3, EvenNone
  <2>. QED  BY <2>1, <2>2
<1>. QED  BY <1>2, <1>3, <1>4, <1>5, <1>6

LEMMA TransactionsEven ==
    ASSUME Ready, Weekly, next \in Nat \ {0}, next <= Len(Steps), NEW n \in Networks
    PROVE  EvenList(Transactions, n)
<1>1. arb \in Networks /\ avax \in Networks
  BY DEF Networks
<1>2. ASSUME NEW s, EvenList(s, n), NEW t, EvenList(t, n) PROVE EvenList(s \o t, n)
  BY <1>2, EvenJoined DEF Joins
<1>3. /\ EvenList(Both(ClaimBuyback), n) /\ EvenList(Both(Fund), n)
      /\ EvenList(Both(BuybackRewards), n) /\ EvenList(Both(GlpRewards), n)
      /\ EvenList(Both(Payments), n) /\ EvenList(Both(Referrals), n)
  BY <1>1, <1>2, ListsEven DEF Both
<1>4. /\ Step = "withdraw" => Transactions = Both(ClaimBuyback)
      /\ Step = "fund" => Transactions = Both(Fund)
      /\ Step = "gmx" => Transactions = Both(BuybackRewards)
      /\ Step = "payments" => Transactions = Both(Payments)
      /\ Step = "glp" => Transactions = Both(GlpRewards)
      /\ Step = "referrals" => Transactions = Both(Referrals)
  BY DEF Transactions, Withdraw, FundAccounts, SendPayments, SendReferralRewards, Weekly
<1>. QED  BY <1>3, <1>4, WeeklySteps

-----------------------------------------------------------------------------
(* Unless a step is repeated, the gas of the fee keeper stays even.        *)
GasEven ==
    Weekly /\ ~repeated =>
        \A n \in Networks : Even(todo, balance[n]["signer"]["eth"], n)

LEMMA EvenEmpty ==
    ASSUME NEW n \in Networks, NEW e \in Nat
    PROVE  Even(<<>>, e, n) <=> e = InitEth(n)
<1>1. PICK s, f, g : s = <<>> /\ f = Unwraps(n) /\ g = Fuels(n)
  OBVIOUS
<1>2. /\ f \in [AllTxs -> Nat] /\ g \in [AllTxs -> Nat] /\ InitEth(n) \in Nat
      /\ s \in Seq(AllTxs) /\ Len(s) = 0
  BY <1>1, FuelsTyped
<1>3. Before(f, s, 1) = 0 /\ Before(g, s, 1) = 0
  <2>1. 1 \in 1..(Len(s) + 1) /\ \A j \in 1..(1 - 1) : f[s[j]] = 0 /\ g[s[j]] = 0
    BY <1>2
  <2>. QED  BY <1>2, <2>1, BeforeNone
<1>4. \A i \in 1..(Len(s) + 1) : i = 1
  BY <1>2
<1>5. ~GasAt(s, n, 1) /\ 1 \in 1..(Len(s) + 1)
  BY <1>2 DEF GasAt
<1>6. EvenAt(s, e, n, 1) <=> e + 0 = InitEth(n) + 0
  BY <1>1, <1>3, <1>5 DEF EvenAt
<1>7. Even(s, e, n) <=> EvenAt(s, e, n, 1)
  BY <1>4, <1>5 DEF Even
<1>. QED  BY <1>1, <1>2, <1>6, <1>7

(* Gas can be sent, and whatever else comes next the keeper is even.       *)
LEMMA EvenHead ==
    ASSUME NEW n \in Networks, NEW e \in Nat, NEW s \in Seq(AllTxs), s # <<>>, Even(s, e, n)
    PROVE  /\ GasAt(s, n, 1) => s[1].amount <= e
           /\ ~GasAt(s, n, 1) => e = InitEth(n)
<1>1. PICK f, g : f = Unwraps(n) /\ g = Fuels(n)
  OBVIOUS
<1>2. f \in [AllTxs -> Nat] /\ g \in [AllTxs -> Nat] /\ InitEth(n) \in Nat
  BY <1>1, FuelsTyped
<1>3. 1 \in 1..(Len(s) + 1) /\ 1 \in 1..Len(s)
  OBVIOUS
<1>4. Before(f, s, 1) = 0 /\ Before(g, s, 1) = 0
  <2>1. \A j \in 1..(1 - 1) : f[s[j]] = 0 /\ g[s[j]] = 0
    OBVIOUS
  <2>. QED  BY <1>2, <1>3, <2>1, BeforeNone
<1>5. EvenAt(s, e, n, 1) /\ s[1].amount \in Nat
  BY <1>3, TxTyped DEF Even
<1>6. PICK a : a = s[1].amount
  OBVIOUS
<1>7. /\ GasAt(s, n, 1) => InitEth(n) + a + 0 <= e + 0
      /\ ~GasAt(s, n, 1) => e + 0 = InitEth(n) + 0
  BY <1>1, <1>4, <1>5, <1>6 DEF EvenAt
<1>8. a \in Nat
  BY <1>5, <1>6
<1>9. /\ GasAt(s, n, 1) => a <= e
      /\ ~GasAt(s, n, 1) => e = InitEth(n)
  BY <1>2, <1>7, <1>8
<1>. QED  BY <1>6, <1>9

LEMMA GasStopsEven ==
    ASSUME CreditInv, GasEven, Weekly, ~repeated, Fail, NEW n \in Networks
    PROVE  balance[n]["signer"]["eth"] = InitEth(n)
<1>1. PICK h, e : h = todo[1] /\ e = balance[n]["signer"]["eth"]
  OBVIOUS
<1>2. todo # <<>> /\ ~Affordable(h) /\ Sendable(h) /\ h.amount \in Nat /\ h.net \in Networks
  BY <1>1, HeadTyped DEF Fail, CreditInv
<1>3. e \in Nat /\ todo \in Seq(AllTxs)
  BY <1>1, BalanceTyped DEF CreditInv, Typed, Owners, Places, Tokens
<1>4. Even(todo, e, n)
  BY <1>1 DEF GasEven
<1>5. ~GasAt(todo, n, 1)
  <2>1. ASSUME GasAt(todo, n, 1) PROVE FALSE
    <3>1. h.token = "eth" /\ h.net = n
      BY <1>1, <2>1 DEF GasAt, IsGas
    <3>2. h.kind = "transfer" /\ h.from = "signer"
      BY <1>2, <3>1 DEF Sendable
    <3>3. h.amount <= e
      BY <1>1, <1>2, <1>3, <1>4, <2>1, EvenHead
    <3>4. balance[h.net][h.from][h.token] >= h.amount
      BY <1>1, <1>2, <1>3, <3>1, <3>2, <3>3
    <3>. QED  BY <1>2, <3>2, <3>4 DEF Affordable, Enough, Allowed
  <2>. QED  BY <2>1
<1>. QED  BY <1>1, <1>2, <1>3, <1>4, <1>5, EvenHead

LEMMA GasEvenKeeps ==
    ASSUME CreditInv, ProcessInv, HandlerInv, GasEven, Weekly, [Next]_vars
    PROVE  GasEven'
<1>0. /\ next \in Nat \ {0} /\ todo \in Seq(AllTxs) /\ balance \in Balances
      /\ "eth" \in Tokens /\ "signer" \in Owners /\ ListWithin(todo, Held)
      /\ \A n \in Networks : balance[n]["signer"]["eth"] \in Nat
  BY BalanceTyped DEF CreditInv, Typed, HandlerInv, Tokens, Owners, Places
<1>1. ASSUME UNCHANGED <<todo, repeated, program>>,
             \A n \in Networks : balance'[n]["signer"]["eth"] = balance[n]["signer"]["eth"]
      PROVE  GasEven'
  BY <1>1 DEF GasEven, Weekly
<1>2. CASE \E include \in BOOLEAN : \E data \in DataChoices : CreatePlan(include, data)
  BY <1>1, <1>2 DEF CreatePlan, ledgerVars, processVars
<1>3. CASE Tick \/ Skip \/ UNCHANGED vars
  BY <1>1, <1>3 DEF Tick, Skip, vars, ledgerVars, processVars, planVars, historyVars
<1>4. CASE Bridge \/ Arrive
  <2>1. \A n \in Networks : balance'[n]["signer"]["eth"] = balance[n]["signer"]["eth"]
    BY <1>0, <1>4, BridgeEffect
  <2>. QED  BY <1>1, <1>4, <2>1, BridgeEffect
<1>5. CASE \E n \in Networks : \E k \in Keepers : Burn(n, k)
  <2>1. PICK n \in Networks, k \in Keepers : Burn(n, k)
    BY <1>5
  <2>2. /\ KeptElsewhere(balance, balance', n, k, "eth")
        /\ UNCHANGED <<todo, repeated, program>>
    BY <2>1, BurnEffect
  <2>3. k # "signer"
    BY AccountsApart DEF Sources
  <2>4. \A m \in Networks : balance'[m]["signer"]["eth"] = balance[m]["signer"]["eth"]
    BY <1>0, <2>2, <2>3 DEF KeptElsewhere
  <2>. QED  BY <1>1, <2>2, <2>4
<1>6. CASE Finish
  BY <1>1, <1>6 DEF Finish, Stop, ledgerVars, planVars, historyVars
<1>7. CASE Crash
  BY <1>7 DEF Crash, GasEven
<1>8. CASE Fail
  <2>1. /\ todo' = <<>> /\ UNCHANGED <<balance, repeated, program>>
    BY <1>8 DEF Fail, Stop, ledgerVars, planVars, historyVars
  <2>2. ASSUME ~repeated, NEW n \in Networks
        PROVE  Even(<<>>, balance[n]["signer"]["eth"], n)
    <3>1. balance[n]["signer"]["eth"] = InitEth(n)
      BY <1>8, <2>2, GasStopsEven
    <3>. QED  BY <1>0, <3>1, EvenEmpty
  <2>. QED  BY <2>1, <2>2 DEF GasEven
<1>9. CASE SwapFails
  <2>1. todo # <<>> /\ Head(todo).kind = "swap" /\ Head(todo) = todo[1]
    BY <1>0, <1>9, HeadTyped DEF SwapFails, Sending, CreditInv
  <2>2. Within(todo[1], Held)
    BY <1>0, <2>1, ListWithinTail
  <2>. QED  BY <2>1, <2>2 DEF Within
<1>10. CASE Begin
  <2>1. /\ todo' = Transactions /\ next <= Len(Steps) /\ plan # NoPlan /\ ~running
        /\ UNCHANGED <<balance, repeated, program>>
    BY <1>10 DEF Begin, Idle, ledgerVars, planVars, historyVars
  <2>2. Ready
    BY <2>1 DEF CreditInv, Typed, Ready
  <2>3. todo = <<>>
    BY <2>1 DEF ProcessInv
  <2>4. ASSUME ~repeated, NEW n \in Networks
        PROVE  Even(Transactions, balance[n]["signer"]["eth"], n)
    <3>1. EvenList(Transactions, n)
      BY <1>0, <2>1, <2>2, TransactionsEven
    <3>2. Even(<<>>, balance[n]["signer"]["eth"], n)
      BY <2>3, <2>4 DEF GasEven
    <3>3. balance[n]["signer"]["eth"] = InitEth(n)
      BY <1>0, <3>2, EvenEmpty
    <3>. QED  BY <3>1, <3>3 DEF EvenList
  <2>5. PICK u : u = Transactions
    OBVIOUS
  <2>. QED  BY <2>1, <2>4, <2>5 DEF GasEven
<1>11. CASE Send
  <2>1. PICK s, u, h : s = todo /\ u = todo' /\ h = todo[1]
    OBVIOUS
  <2>2. /\ s \in Seq(AllTxs) /\ s # <<>> /\ u = Tail(s)
        /\ UNCHANGED <<repeated, program>>
    BY <1>0, <1>11, <2>1, SendOne
  <2>3. Within(h, Held)
    BY <1>0, <2>1, <2>2, ListWithinTail
  <2>4. ASSUME ~repeated, NEW n \in Networks
        PROVE  Even(u, balance'[n]["signer"]["eth"], n)
    <3>1. PICK e, d : e = balance[n]["signer"]["eth"] /\ d = balance'[n]["signer"]["eth"]
      OBVIOUS
    <3>2. Fueled(e, d, n, s[1])
      BY <1>11, <2>1, <2>3, <3>1, EthEffect
    <3>3. e \in Nat /\ d \in Nat
      <4>1. balance' \in Balances
        BY StepKeeps DEF CreditInv, Typed
      <4>. QED  BY <1>0, <3>1, <4>1, BalanceTyped
    <3>4. Even(s, e, n)
      BY <2>1, <2>4, <3>1 DEF GasEven
    <3>. QED  BY <2>2, <3>1, <3>2, <3>3, <3>4, EvenTail
  <2>. QED  BY <2>1, <2>2, <2>4 DEF GasEven
<1>. QED
  BY <1>2, <1>3, <1>4, <1>5, <1>6, <1>7, <1>8, <1>9, <1>10, <1>11
  DEF Next, Operator, Process, Environment

-----------------------------------------------------------------------------
(* A step that was checked has enough for its list.                        *)
Checked ==
    \/ Step \in {"gmx", "glp", "rewards", "referrals"}
    \/ Step = "payments" /\ PaymentsCovered
AmpleInv == running /\ Checked => Ample(todo, balance, allowance)

LEMMA AmpleIsEnough ==
    ASSUME CreditInv, ProcessInv, AmpleInv, running, Checked, todo # <<>>
    PROVE  Affordable(Head(todo)) /\ Simple(todo[1])
<1>1. Ample(todo, balance, allowance) /\ allowance \in Allowances /\ todo \in Seq(AllTxs)
  BY DEF AmpleInv, ProcessInv, CreditInv, Typed
<1>2. Orderly(todo)
  BY <1>1 DEF Ample
<1>. QED  BY <1>1, <1>2, AmpleSuffices, OrderlyTail

LEMMA CheckedGoesOn ==
    ASSUME CreditInv, ProcessInv, AmpleInv, running, Checked
    PROVE  ~Fail /\ ~SwapFails
<1>1. ASSUME Fail PROVE FALSE
  BY <1>1, AmpleIsEnough DEF Fail
<1>2. ASSUME SwapFails PROVE FALSE
  <2>1. todo # <<>> /\ Head(todo).kind = "swap" /\ Head(todo) = todo[1]
    BY <1>2, HeadTyped DEF SwapFails, Sending, CreditInv
  <2>2. Simple(todo[1])
    BY <2>1, AmpleIsEnough
  <2>. QED  BY <2>1, <2>2 DEF Simple
<1>. QED  BY <1>1, <1>2

(* What is burned and repeated does not come back while the plan stays.    *)
LEMMA CoveredBefore ==
    ASSUME CreditInv, ProcessInv, [Next]_vars, plan # NoPlan,
           ~ \E include \in BOOLEAN : \E data \in DataChoices : CreatePlan(include, data)
    PROVE  /\ plan' = plan /\ (PaymentsCovered' => PaymentsCovered)
           /\ (repeated => repeated') 
<1>1. plan' = plan
  BY DEF Next, Operator, Process, Environment, Begin, Skip, Bridge, Send,
         SendTransfer, SendClaim, SendSpend, SendUnwrap, SendSwap, SendExcess,
         SendApprove, SendRate, SendBonus, SendNothing, Sent, Finish, Fail, SwapFails,
         Arrive, Crash, Burn, Tick, vars, planVars
<1>2. \/ UNCHANGED <<repeated, spent>> \/ Crash
      \/ \E n \in Networks : \E k \in Keepers : Burn(n, k)
  BY DEF Next, Operator, Process, Environment, Begin, Skip, Bridge, Send,
         SendTransfer, SendClaim, SendSpend, SendUnwrap, SendSwap, SendExcess,
         SendApprove, SendRate, SendBonus, SendNothing, Sent, Finish, Fail, SwapFails,
         Arrive, Tick, vars, historyVars
<1>3. program' = program
  BY ProgramFixed
<1>4. \A n \in Networks : Later(n)' = Later(n) /\ Later(n) \in Nat /\ spent[n] \in Nat
  BY <1>1 DEF Later, ProcessInv, CreditInv, Typed, PlanTyped
<1>5. CASE UNCHANGED <<repeated, spent>>
  BY <1>1, <1>3, <1>4, <1>5 DEF PaymentsCovered
<1>6. CASE Crash
  BY <1>1, <1>6 DEF Crash, PaymentsCovered
<1>7. CASE \E n \in Networks : \E k \in Keepers : Burn(n, k)
  <2>1. PICK n \in Networks, k \in Keepers : Burn(n, k)
    BY <1>7
  <2>2. spent' = [spent EXCEPT ![n] = @ + 1] /\ repeated' = repeated
    BY <2>1, BurnEffect
  <2>3. \A m \in Networks : spent[m] <= spent'[m] /\ spent'[m] \in Nat
    BY <1>4, <2>2 DEF ProcessInv
  <2>4. \A m \in Networks : spent'[m] <= Later(m)' => spent[m] <= Later(m)
    BY <1>4, <2>3
  <2>. QED  BY <1>1, <1>3, <2>2, <2>4 DEF PaymentsCovered
<1>. QED  BY <1>2, <1>5, <1>6, <1>7

-----------------------------------------------------------------------------
(* Until the payments of distributeFees the plan is covered by the fee     *)
(* keeper's own accounts, which hold the gas he began with besides.        *)
BeforePayments == next < 4 \/ (next = 4 /\ ~running)
PurseCovers ==
    Weekly /\ PaymentsCovered /\ plan # NoPlan /\ BeforePayments =>
        \A n \in Networks : Covers(n, Purse, InitEth(n))

LEMMA PlanFillsPurse ==
    ASSUME CreditInv, ProcessInv, GasEven, Weekly, ~repeated,
           NEW include \in BOOLEAN, NEW data \in DataChoices, CreatePlan(include, data),
           NEW n \in Networks
    PROVE  Covers(n, Purse, InitEth(n))'
<1>1. PICK p, b : p = Promised(n)' /\ b = balance
  OBVIOUS
<1>2. /\ p \in Nat /\ spent'[n] = 0 /\ balance' = b /\ b \in Balances
      /\ p + Costs(b, n) <= b[n]["feeHandler"]["wnt"] + b[n]["signer"]["wnt"]
  BY <1>1, PlanMakesCover DEF CreditInv, Typed
<1>3. /\ NativeHeld(b, n, Purse) = b[n]["feeHandler"]["wnt"]
                          + b[n]["signer"]["wnt"] + b[n]["signer"]["eth"]
      /\ {b[n]["feeHandler"]["wnt"], b[n]["signer"]["wnt"],
          b[n]["signer"]["eth"]} \subseteq Nat
  BY <1>2, PurseHeld
<1>4. b[n]["signer"]["eth"] = InitEth(n)
  <2>1. todo = <<>>
    BY DEF CreatePlan, Idle, ProcessInv
  <2>2. Even(<<>>, b[n]["signer"]["eth"], n)
    BY <1>1, <2>1 DEF GasEven
  <2>. QED  BY <1>3, <2>2, EvenEmpty
<1>5. Costs(b, n) \in Nat
  BY <1>2, GasTyped
<1>6. PICK x, y, z, c, e, h :
          /\ x = b[n]["feeHandler"]["wnt"] /\ y = b[n]["signer"]["wnt"]
          /\ z = b[n]["signer"]["eth"] /\ c = Costs(b, n) /\ e = InitEth(n)
          /\ h = NativeHeld(b, n, Purse)
  OBVIOUS
<1>7. /\ x \in Nat /\ y \in Nat /\ z \in Nat /\ c \in Nat /\ e = z /\ h = x + y + z
      /\ p + c <= x + y
  BY <1>2, <1>3, <1>4, <1>5, <1>6
<1>8. p + c + e <= 0 + h
  BY <1>2, <1>7
<1>9. InitEth(n)' = InitEth(n)
  BY DEF InitEth
<1>. QED  BY <1>1, <1>2, <1>6, <1>8, <1>9 DEF Covers

LEMMA WeeklyPayments ==
    ASSUME Weekly, next = 4
    PROVE  Step = "payments"
  BY DEF Weekly, Step, Steps

LEMMA BeforeBefore ==
    ASSUME CreditInv, ProcessInv, AmpleInv, Weekly, PaymentsCovered, ~repeated', [Next]_vars,
           BeforePayments'
    PROVE  BeforePayments
<1>1. next \in Nat
  BY DEF CreditInv, Typed
<1>2. CASE next' = next + 1
  BY <1>1, <1>2 DEF BeforePayments
<1>3. CASE next' = next /\ (running' = running \/ running')
  BY <1>1, <1>3 DEF BeforePayments
<1>4. CASE Crash
  BY <1>4 DEF Crash
<1>5. CASE Fail \/ SwapFails
  <2>1. running /\ next' = next
    BY <1>5 DEF Fail, SwapFails, Sending
  <2>2. next = 4 => Checked
    BY WeeklyPayments DEF Checked
  <2>3. next # 4
    BY <1>5, <2>1, <2>2, CheckedGoesOn
  <2>. QED  BY <1>1, <2>1, <2>3 DEF BeforePayments
<1>6. \/ next' = next + 1
      \/ next' = next /\ (running' = running \/ running')
      \/ Crash \/ Fail \/ SwapFails
  BY DEF Next, Operator, Process, Environment, CreatePlan, Begin, Skip, Bridge, Send,
         SendTransfer, SendClaim, SendSpend, SendUnwrap, SendSwap, SendExcess,
         SendApprove, SendRate, SendBonus, SendNothing, Sent, Finish,
         Arrive, Burn, Tick, vars, processVars
<1>. QED  BY <1>2, <1>3, <1>4, <1>5, <1>6

LEMMA PurseKeeps ==
    ASSUME CreditInv, GasList, ProcessInv, HandlerInv, GasEven, PurseCovers, AmpleInv,
           Weekly, [Next]_vars
    PROVE  PurseCovers'
<1>1. SUFFICES ASSUME PaymentsCovered', plan' # NoPlan, BeforePayments',
                      NEW n \in Networks
      PROVE  Covers(n, Purse, InitEth(n))'
  BY DEF PurseCovers
<1>2. ~repeated'
  BY <1>1 DEF PaymentsCovered
<1>3. CASE \E include \in BOOLEAN : \E data \in DataChoices : CreatePlan(include, data)
  <2>1. PICK include \in BOOLEAN, data \in DataChoices : CreatePlan(include, data)
    BY <1>3
  <2>2. ~repeated
    BY <1>2, <2>1 DEF CreatePlan
  <2>. QED  BY <2>1, <2>2, PlanFillsPurse
<1>4. CASE ~ \E include \in BOOLEAN : \E data \in DataChoices : CreatePlan(include, data)
  <2>1. plan' = plan
    BY <1>4 DEF Next, Operator, Process, Environment, Begin, Skip, Bridge, Send,
         SendTransfer, SendClaim, SendSpend, SendUnwrap, SendSwap, SendExcess,
         SendApprove, SendRate, SendBonus, SendNothing, Sent, Finish, Fail, SwapFails,
         Arrive, Crash, Burn, Tick, vars, planVars
  <2>2. plan # NoPlan /\ PaymentsCovered
    BY <1>1, <1>4, <2>1, CoveredBefore
  <2>3. BeforePayments
    BY <1>1, <1>2, <2>2, BeforeBefore
  <2>4. Covers(n, Purse, InitEth(n))
    BY <2>2, <2>3 DEF PurseCovers
  <2>5. Send => Within(todo[1], Purse)
    <3>1. ASSUME Send PROVE Within(todo[1], Purse)
      <4>1. todo # <<>> /\ todo \in Seq(AllTxs) /\ next \in Nat
        BY <3>1, SendOne DEF CreditInv, Typed
      <4>2. running
        BY <4>1 DEF ProcessInv
      <4>3. next <= 3
        BY <2>3, <4>1, <4>2 DEF BeforePayments
      <4>4. ListWithin(todo, Purse)
        BY <4>3 DEF HandlerInv
      <4>. QED  BY <4>1, <4>4, ListWithinTail
    <3>. QED  BY <3>1
  <2>6. PICK e : e = InitEth(n)
    OBVIOUS
  <2>7. e \in Nat /\ Covers(n, Purse, e) /\ Holders(Purse)
    BY <2>4, <2>6, FuelsTyped, HoldersFinite
  <2>8. Covers(n, Purse, e)'
    BY <1>4, <2>2, <2>5, <2>7, CoverKept
  <2>9. InitEth(n)' = e
    BY <2>6 DEF InitEth
  <2>. QED  BY <2>8, <2>9 DEF Covers
<1>. QED  BY <1>3, <1>4

-----------------------------------------------------------------------------
(* From the check of its rewards to its payments, the fee keeper of        *)
(* processFees has what he is going to pay.                                *)
BetweenRewards == (next = 7 /\ running) \/ (next = 8 /\ ~running)
DueLeft(s, b, n) ==
    plan.treasury[n] + plan.chainlink[n] + Outgo(s, n, "signer", "wnt")
        <= b[n]["signer"]["wnt"]
DueInv ==
    ~Weekly /\ ~repeated /\ plan # NoPlan /\ BetweenRewards =>
        \A n \in Networks : DueLeft(todo, balance, n)

LEMMA FormerSteps ==
    ASSUME ~Weekly
    PROVE  /\ next = 7 => Step = "rewards"
           /\ next = 8 => Step = "payments"
           /\ next \in Nat \ {0} /\ next <= Len(Steps) =>
                 /\ Step = "rewards" <=> next = 7
                 /\ Step = "payments" <=> next = 8
                 /\ Step \notin {"gmx", "glp"}
  BY DEF Weekly, Step, Steps

LEMMA FormerChecked ==
    ASSUME ~Weekly, ~repeated, next = 7 \/ next = 8
    PROVE  Checked
  BY FormerSteps DEF Checked, PaymentsCovered, Weekly

LEMMA SendLeaves ==
    ASSUME CreditInv, ProcessInv, AmpleInv, running, Checked, Send, plan # NoPlan,
           NEW n \in Networks, DueLeft(todo, balance, n)
    PROVE  DueLeft(todo', balance', n)
<1>1. PICK s, u, h, b, c : s = todo /\ u = todo' /\ h = todo[1] /\ b = balance /\ c = balance'
  OBVIOUS
<1>2. /\ s \in Seq(AllTxs) /\ s # <<>> /\ u = Tail(s) /\ h = s[1] /\ b \in Balances
  BY <1>1, SendOne DEF CreditInv, Typed
<1>3. Simple(h)
  BY <1>1, <1>2, AmpleIsEnough
<1>4. "signer" \in Owners /\ "wnt" \in Tokens
  BY DEF Owners, Places, Tokens
<1>5. PICK o, t : o = "signer" /\ t = "wnt"
  OBVIOUS
<1>6. /\ c \in Balances
      /\ c[n][o][t] = b[n][o][t] - Takes(n, o, t)[h] + Brings(n, o, t)[h]
  BY <1>1, <1>3, <1>4, <1>5, SimpleEffect
<1>7. Shorter(s, u, n, o, t)
  BY <1>2, OutgoTail
<1>8. PICK x, y, p, q, v, w, m :
          /\ x = b[n][o][t] /\ y = c[n][o][t] /\ p = Takes(n, o, t)[h]
          /\ q = Brings(n, o, t)[h] /\ v = Outgo(s, n, o, t) /\ w = Outgo(u, n, o, t)
          /\ m = plan.treasury[n] + plan.chainlink[n]
  OBVIOUS
<1>9. /\ v = p + w /\ p \in Nat /\ q \in Nat /\ w \in Nat
  BY <1>2, <1>7, <1>8 DEF Shorter
<1>10. x \in Nat /\ y \in Nat /\ y = x - p + q
  <2>1. o \in Owners /\ t \in Tokens
    BY <1>4, <1>5
  <2>. QED  BY <1>2, <1>6, <1>8, <2>1, BalanceTyped
<1>11. m \in Nat
  BY <1>8 DEF CreditInv, Typed, PlanTyped
<1>12. m + v <= x
  BY <1>1, <1>5, <1>8 DEF DueLeft
<1>13. m + w <= y
  BY <1>9, <1>10, <1>11, <1>12
<1>. QED  BY <1>1, <1>5, <1>8, <1>13 DEF DueLeft

LEMMA DueKeeps ==
    ASSUME CreditInv, ProcessInv, DueInv, AmpleInv, ~Weekly, [Next]_vars
    PROVE  DueInv'
<1>0. next \in Nat \ {0} /\ balance \in Balances /\ "wnt" \in Tokens /\ "signer" \in Owners
  BY DEF CreditInv, Typed, Owners, Places, Tokens
<1>1. program' = program
  BY ProgramFixed
<1>2. ASSUME UNCHANGED <<todo, running, next, repeated, plan>>,
             \A n \in Networks : balance'[n]["signer"]["wnt"] = balance[n]["signer"]["wnt"]
      PROVE  DueInv'
  BY <1>1, <1>2 DEF DueInv, Weekly, BetweenRewards, DueLeft
<1>3. CASE Bridge \/ \E include \in BOOLEAN : \E data \in DataChoices : CreatePlan(include, data)
  BY <1>3 DEF Bridge, CreatePlan, Weekly
<1>4. CASE Tick \/ UNCHANGED vars
  BY <1>2, <1>4 DEF Tick, vars, ledgerVars, processVars, planVars, historyVars
<1>5. CASE Arrive
  <2>1. \A n \in Networks : balance'[n]["signer"]["wnt"] = balance[n]["signer"]["wnt"]
    BY <1>0, <1>5, BridgeEffect
  <2>. QED  BY <1>2, <1>5, <2>1, BridgeEffect
<1>6. CASE \E n \in Networks : \E k \in Keepers : Burn(n, k)
  <2>1. PICK n \in Networks, k \in Keepers : Burn(n, k)
    BY <1>6
  <2>2. /\ KeptElsewhere(balance, balance', n, k, "eth")
        /\ UNCHANGED <<todo, running, next, repeated, plan>>
    BY <2>1, BurnEffect
  <2>3. \A m \in Networks : balance'[m]["signer"]["wnt"] = balance[m]["signer"]["wnt"]
    BY <1>0, <2>2 DEF KeptElsewhere
  <2>. QED  BY <1>2, <2>2, <2>3
<1>7. CASE Skip
  <2>1. repeated' = repeated /\ repeated
    BY <1>7 DEF Skip, historyVars, ProcessInv
  <2>. QED  BY <2>1 DEF DueInv
<1>8. CASE Crash
  BY <1>8 DEF Crash, DueInv
<1>9. CASE Fail \/ SwapFails
  <2>1. running /\ next' = next /\ UNCHANGED <<repeated, balance, plan>>
    BY <1>9 DEF Fail, SwapFails, Sending, historyVars, ledgerVars, planVars
  <2>2. ASSUME ~repeated, next = 7 \/ next = 8 PROVE FALSE
    BY <1>9, <2>1, <2>2, FormerChecked, CheckedGoesOn
  <2>. QED  BY <2>1, <2>2 DEF DueInv, BetweenRewards
<1>10. CASE Finish
  <2>1. /\ running /\ todo' = todo /\ next' = next + 1 /\ ~running'
        /\ UNCHANGED <<repeated, balance, plan>>
    BY <1>10 DEF Finish, Stop, historyVars, ledgerVars, planVars
  <2>2. BetweenRewards' => next = 7
    BY <1>0, <2>1 DEF BetweenRewards
  <2>3. BetweenRewards' => BetweenRewards
    BY <2>1, <2>2 DEF BetweenRewards
  <2>. QED  BY <1>1, <2>1, <2>3 DEF DueInv, Weekly, DueLeft
<1>11. CASE Begin
  <2>1. /\ todo' = Transactions /\ next <= Len(Steps) /\ plan # NoPlan /\ running'
        /\ AcceptsStep(Step) /\ UNCHANGED <<balance, repeated, plan, next>>
    BY <1>11 DEF Begin, ledgerVars, planVars, historyVars
  <2>2. Ready /\ allowance \in Allowances
    BY <2>1 DEF CreditInv, Typed, Ready, ProcessInv
  <2>3. ASSUME next = 7, NEW n \in Networks PROVE DueLeft(Transactions, balance, n)
    <3>1. Step = "rewards" /\ Transactions = UpdateRewards
      BY <2>3, FormerSteps DEF Transactions
    <3>2. plan.treasury[n] + plan.chainlink[n] + Outgo(UpdateRewards, n, "signer", "wnt")
              <= balance[n]["signer"]["wnt"]
      BY <2>1, <2>2, <3>1, RewardsAmple
    <3>. QED  BY <3>1, <3>2 DEF DueLeft
  <2>4. PICK u : u = Transactions
    OBVIOUS
  <2>5. BetweenRewards' => next = 7
    BY <2>1 DEF BetweenRewards
  <2>6. next = 7 => \A n \in Networks : DueLeft(u, balance, n)
    BY <2>3, <2>4
  <2>. QED  BY <2>1, <2>4, <2>5, <2>6 DEF DueInv, DueLeft
<1>12. CASE Send
  <2>1. UNCHANGED <<plan, repeated, next, running>> /\ todo # <<>>
    BY <1>12, SendOne
  <2>2. running
    BY <2>1 DEF ProcessInv
  <2>3. ASSUME ~repeated, plan # NoPlan, next = 7, NEW n \in Networks
        PROVE  DueLeft(todo', balance', n)
    <3>1. Checked
      BY <2>3, FormerChecked
    <3>2. DueLeft(todo, balance, n)
      BY <2>2, <2>3 DEF DueInv, BetweenRewards
    <3>. QED  BY <1>12, <2>2, <2>3, <3>1, <3>2, SendLeaves
  <2>4. BetweenRewards' => next = 7
    BY <2>1, <2>2 DEF BetweenRewards
  <2>5. PICK u, c : u = todo' /\ c = balance'
    OBVIOUS
  <2>. QED  BY <2>1, <2>3, <2>4, <2>5 DEF DueInv, DueLeft
<1>. QED
  BY <1>3, <1>4, <1>5, <1>6, <1>7, <1>8, <1>9, <1>10, <1>11, <1>12
  DEF Next, Operator, Process, Environment

-----------------------------------------------------------------------------
(* When the payments begin, they are at hand.                              *)
LEMMA WeeklyAtHand ==
    ASSUME CreditInv, ProcessInv, HandlerInv, GasEven, PurseCovers,
           Weekly, next = 4, ~running, plan # NoPlan, PaymentsCovered, NEW n \in Networks
    PROVE  plan.treasury[n] + plan.chainlink[n] <= balance[n]["signer"]["wnt"]
<1>1. PICK b : b = balance
  OBVIOUS
<1>2. b \in Balances /\ todo = <<>> /\ ~repeated /\ spent[n] \in Nat /\ spent[n] <= Later(n)
  BY <1>1 DEF CreditInv, Typed, ProcessInv, PaymentsCovered, Weekly
<1>3. /\ NativeHeld(b, n, Purse) = b[n]["feeHandler"]["wnt"]
                          + b[n]["signer"]["wnt"] + b[n]["signer"]["eth"]
      /\ {b[n]["feeHandler"]["wnt"], b[n]["signer"]["wnt"],
          b[n]["signer"]["eth"]} \subseteq Nat
  BY <1>2, PurseHeld
<1>4. b[n]["signer"]["eth"] = InitEth(n)
  <2>1. Even(<<>>, b[n]["signer"]["eth"], n)
    BY <1>1, <1>2 DEF GasEven
  <2>. QED  BY <1>3, <2>1, EvenEmpty
<1>5. b[n]["feeHandler"]["wnt"] = 0
  BY <1>1 DEF HandlerInv, Emptied
<1>6. Promised(n) + Costs(b, n) + InitEth(n) <= spent[n] + NativeHeld(b, n, Purse)
  BY <1>1 DEF PurseCovers, BeforePayments, Covers
<1>7. /\ plan.treasury[n] \in Nat /\ plan.chainlink[n] \in Nat
      /\ plan.glp[n] \in Nat /\ plan.referral[n] \in Nat /\ Costs(b, n) \in Nat
  BY <1>2, GasTyped DEF CreditInv, Typed, PlanTyped
<1>8. PICK y, z, c, e, p, q, r, v, w :
          /\ y = b[n]["signer"]["wnt"] /\ z = b[n]["signer"]["eth"] /\ c = Costs(b, n)
          /\ e = InitEth(n) /\ p = plan.treasury[n] /\ q = plan.chainlink[n]
          /\ r = plan.glp[n] /\ v = plan.referral[n] /\ w = spent[n]
  OBVIOUS
<1>9. /\ y \in Nat /\ z \in Nat /\ c \in Nat /\ e = z /\ p \in Nat /\ q \in Nat
      /\ r \in Nat /\ v \in Nat /\ w \in Nat
  BY <1>2, <1>3, <1>4, <1>7, <1>8
<1>10. w <= r + v /\ (p + q + r + v) + c + e <= w + (0 + y + z)
  BY <1>2, <1>3, <1>5, <1>6, <1>8 DEF Later, Promised
<1>11. p + q <= y
  BY <1>9, <1>10
<1>. QED  BY <1>1, <1>8, <1>11

LEMMA FormerAtHand ==
    ASSUME CreditInv, ProcessInv, DueInv, ~Weekly, next = 8, ~running, plan # NoPlan,
           PaymentsCovered, NEW n \in Networks
    PROVE  plan.treasury[n] + plan.chainlink[n] <= balance[n]["signer"]["wnt"]
<1>1. PICK s, b, o, t : s = <<>> /\ b = balance /\ o = "signer" /\ t = "wnt"
  OBVIOUS
<1>2. todo = s /\ ~repeated /\ b \in Balances /\ s \in Seq(AllTxs) /\ Len(s) = 0
  BY <1>1 DEF ProcessInv, PaymentsCovered, CreditInv, Typed
<1>3. DueLeft(s, b, n)
  BY <1>1, <1>2 DEF DueInv, BetweenRewards
<1>4. Outgo(s, n, o, t) = 0
  <2>1. \A i \in 1..Len(s) : Takes(n, o, t)[s[i]] = 0
    BY <1>2
  <2>. QED  BY <1>2, <2>1, OutgoNone
<1>5. plan.treasury[n] \in Nat /\ plan.chainlink[n] \in Nat
  BY DEF CreditInv, Typed, PlanTyped
<1>6. PICK p, q, y : p = plan.treasury[n] /\ q = plan.chainlink[n] /\ y = b[n][o][t]
  OBVIOUS
<1>7. p + q + 0 <= y /\ p \in Nat /\ q \in Nat
  BY <1>1, <1>3, <1>4, <1>5, <1>6 DEF DueLeft
<1>8. p + q <= y
  BY <1>7
<1>. QED  BY <1>1, <1>6, <1>8

(* A step that is checked begins with an ample list.                       *)
LEMMA AmpleBegins ==
    ASSUME CreditInv, ProcessInv, HandlerInv, GasEven, PurseCovers, DueInv, Begin, Checked
    PROVE  Ample(Transactions, balance, allowance)
<1>1. /\ ~running /\ plan # NoPlan /\ next <= Len(Steps) /\ AcceptsStep(Step)
      /\ next \in Nat \ {0}
  BY DEF Begin, Idle, CreditInv, Typed
<1>2. Ready /\ allowance \in Allowances
  BY <1>1 DEF CreditInv, Typed, Ready, ProcessInv
<1>3. CASE Step = "gmx"
  BY <1>1, <1>2, <1>3, GmxAmple DEF Transactions
<1>4. CASE Step = "glp"
  BY <1>1, <1>2, <1>4, GlpAmple DEF Transactions
<1>5. CASE Step = "rewards"
  BY <1>1, <1>2, <1>5, RewardsAmple DEF Transactions
<1>6. CASE Step = "referrals"
  BY <1>1, <1>2, <1>6, ReferralsAmple DEF Transactions
<1>7. CASE Step = "payments"
  <2>1. PaymentsCovered
    BY <1>7 DEF Checked
  <2>2. ASSUME NEW n \in Networks
        PROVE  plan.treasury[n] + plan.chainlink[n] <= balance[n]["signer"]["wnt"]
    <3>1. CASE Weekly
      <4>1. next = 4
        BY <1>1, <1>7, <3>1, WeeklySteps
      <4>. QED  BY <1>1, <2>1, <3>1, <4>1, WeeklyAtHand
    <3>2. CASE ~Weekly
      <4>1. next = 8
        BY <1>1, <1>7, <3>2, FormerSteps
      <4>. QED  BY <1>1, <2>1, <3>2, <4>1, FormerAtHand
    <3>. QED  BY <3>1, <3>2
  <2>3. Ample(SendPayments, balance, allowance)
    BY <1>2, <2>2, PaymentsAmple
  <2>. QED  BY <1>7, <2>3 DEF Transactions
<1>. QED  BY <1>3, <1>4, <1>5, <1>6, <1>7 DEF Checked

-----------------------------------------------------------------------------
LEMMA CheckedBefore ==
    ASSUME CreditInv, ProcessInv, [Next]_vars, running, next' = next, Checked'
    PROVE  Checked
<1>1. plan # NoPlan
  BY DEF ProcessInv
<1>2. ~ \E include \in BOOLEAN : \E data \in DataChoices : CreatePlan(include, data)
  BY DEF CreatePlan, Idle
<1>3. PaymentsCovered' => PaymentsCovered
  BY <1>1, <1>2, CoveredBefore
<1>4. Step' = Step
  BY ProgramFixed DEF Step, Steps
<1>. QED  BY <1>3, <1>4 DEF Checked

(* The list of a checked step stays ample, whatever the others do.         *)
LEMMA AmpleKeeps ==
    ASSUME CreditInv, ProcessInv, HandlerInv, GasEven, PurseCovers, DueInv, AmpleInv,
           [Next]_vars, balance' \in Balances
    PROVE  AmpleInv'
<1>0. /\ balance \in Balances
      /\ \A n \in Networks : \A o \in Payers : \A t \in Tokens :
            o \in Owners /\ balance[n][o][t] \in Nat /\ balance'[n][o][t] \in Nat
  <2>1. Payers \subseteq Owners
    BY DEF Payers, Owners, Places
  <2>. QED  BY <2>1, BalanceTyped DEF CreditInv, Typed
<1>1. CASE (\E include \in BOOLEAN : \E data \in DataChoices : CreatePlan(include, data))
           \/ Bridge \/ Skip \/ Tick
  BY <1>1 DEF CreatePlan, Bridge, Skip, Tick, Idle, processVars, AmpleInv
<1>2. CASE Finish \/ Fail \/ Crash
  BY <1>2 DEF Finish, Fail, Crash, Stop, AmpleInv
<1>3. CASE UNCHANGED vars
  <2>1. (running' /\ Checked') => Checked
    BY <1>3, CheckedBefore DEF vars, processVars
  <2>. QED  BY <1>3, <2>1 DEF AmpleInv, vars, ledgerVars, processVars
<1>4. ASSUME UNCHANGED <<todo, next, running, allowance>>,
             \A n \in Networks : \A o \in Payers : \A t \in Tokens :
                 balance[n][o][t] <= balance'[n][o][t]
      PROVE  AmpleInv'
  <2>1. SUFFICES ASSUME running', Checked' PROVE Ample(todo', balance', allowance')
    BY DEF AmpleInv
  <2>2. Checked
    BY <1>4, <2>1, CheckedBefore
  <2>3. PICK s, b, c, a : s = todo /\ b = balance /\ c = balance' /\ a = allowance
    OBVIOUS
  <2>4. Ample(s, b, a)
    BY <1>4, <2>1, <2>2, <2>3 DEF AmpleInv
  <2>5. NoLess(b, c)
    BY <1>4, <2>3 DEF NoLess
  <2>6. s \in Seq(AllTxs) /\ b \in Balances /\ c \in Balances
    BY <2>3 DEF CreditInv, Typed
  <2>7. Ample(s, c, a)
    BY <2>4, <2>5, <2>6, AmpleWider
  <2>. QED  BY <1>4, <2>3, <2>7
<1>5. CASE Arrive
  <2>1. UNCHANGED <<todo, next, running, allowance>>
    BY <1>5 DEF Arrive, processVars
  <2>2. ASSUME NEW n \in Networks, NEW o \in Payers, NEW t \in Tokens
        PROVE  balance[n][o][t] <= balance'[n][o][t]
    <3>1. /\ balance' = [balance EXCEPT ![bridge.to]["signer"]["gmx"] = @ + bridge.amount]
          /\ bridge.to \in Networks /\ bridge.amount \in Nat
      BY <1>5 DEF Arrive, CreditInv, Typed
    <3>2. \/ balance'[n][o][t] = balance[n][o][t]
          \/ balance'[n][o][t] = balance[n][o][t] + bridge.amount
      BY <1>0, <3>1 DEF Balances
    <3>3. PICK x, y, z : x = balance[n][o][t] /\ y = balance'[n][o][t] /\ z = bridge.amount
      OBVIOUS
    <3>4. x \in Nat /\ z \in Nat /\ (y = x \/ y = x + z)
      BY <1>0, <3>1, <3>2, <3>3
    <3>5. x <= y
      BY <3>4
    <3>. QED  BY <3>3, <3>5
  <2>. QED  BY <1>4, <2>1, <2>2
<1>6. CASE \E n \in Networks : \E k \in Keepers : Burn(n, k)
  <2>1. PICK n \in Networks, k \in Keepers : Burn(n, k)
    BY <1>6
  <2>2. KeptElsewhere(balance, balance', n, k, "eth") /\ UNCHANGED <<todo, next, running>>
    BY <2>1, BurnEffect
  <2>3. allowance' = allowance
    BY <2>1 DEF Burn
  <2>4. k \notin Payers
    BY AccountsApart, AccountsAssumption DEF Sources, Payers, Places
  <2>5. ASSUME NEW m \in Networks, NEW o \in Payers, NEW t \in Tokens
        PROVE  balance[m][o][t] <= balance'[m][o][t]
    <3>1. balance'[m][o][t] = balance[m][o][t]
      BY <1>0, <2>2, <2>4 DEF KeptElsewhere
    <3>. QED  BY <1>0, <3>1
  <2>. QED  BY <1>4, <2>2, <2>3, <2>5
<1>7. CASE SwapFails
  <2>1. running /\ next' = next
    BY <1>7 DEF SwapFails, Sending
  <2>2. Checked' => FALSE
    BY <1>7, <2>1, CheckedBefore, CheckedGoesOn
  <2>. QED  BY <2>2 DEF AmpleInv
<1>8. CASE Begin
  <2>1. /\ todo' = Transactions /\ UNCHANGED <<balance, allowance>>
        /\ UNCHANGED <<program, plan, next, repeated, spent>>
    BY <1>8 DEF Begin, ledgerVars, planVars, historyVars
  <2>2. Checked' => Checked
    BY <2>1 DEF Checked, PaymentsCovered, Step, Steps, Later
  <2>3. PICK s, u, b, c, a, d : /\ s = Transactions /\ u = todo' /\ b = balance /\ c = balance'
                                 /\ a = allowance /\ d = allowance'
    OBVIOUS
  <2>4. Checked => Ample(s, b, a)
    BY <1>8, <2>3, AmpleBegins
  <2>5. Checked => Ample(u, c, d)
    BY <2>1, <2>3, <2>4
  <2>. QED  BY <2>2, <2>3, <2>5 DEF AmpleInv
<1>9. CASE Send
  <2>1. UNCHANGED <<next, running>> /\ todo # <<>>
    BY <1>9, SendOne
  <2>2. running /\ allowance \in Allowances
    BY <2>1 DEF ProcessInv
  <2>3. Checked' => Checked
    BY <2>1, <2>2, CheckedBefore
  <2>4. Checked => Ample(todo', balance', allowance')
    <3>1. ASSUME Checked PROVE Ample(todo', balance', allowance')
      <4>1. Ample(todo, balance, allowance)
        BY <2>2, <3>1 DEF AmpleInv
      <4>. QED  BY <1>9, <2>2, <4>1, AmpleSent
    <3>. QED  BY <3>1
  <2>5. PICK u, c, d : u = todo' /\ c = balance' /\ d = allowance'
    OBVIOUS
  <2>6. Checked => Ample(u, c, d)
    BY <2>4, <2>5
  <2>. QED  BY <2>3, <2>5, <2>6 DEF AmpleInv
<1>. QED
  BY <1>1, <1>2, <1>3, <1>5, <1>6, <1>7, <1>8, <1>9
  DEF Next, Operator, Process, Environment

-----------------------------------------------------------------------------
(* The strengthening that is inductive.                                    *)
ChecksInv ==
    CreditInv /\ GasList /\ ProcessInv /\ HandlerInv
        /\ GasEven /\ PurseCovers /\ DueInv /\ AmpleInv

LEMMA AllStart == ASSUME Init PROVE ChecksInv
<1>1. CreditInv /\ GasList /\ ProcessInv
  BY InitFits, ProcessStarts
<1>2. /\ todo = <<>> /\ next = 1 /\ running = FALSE /\ balance = InitBalances
      /\ plan = IF program = "processFees" THEN ReferencePlan ELSE NoPlan
  BY DEF Init
<1>3. HandlerInv
  BY <1>2, ListWithinNone DEF HandlerInv
<1>4. GasEven
  <2>1. ASSUME NEW n \in Networks PROVE Even(todo, balance[n]["signer"]["eth"], n)
    <3>1. balance[n]["signer"]["eth"] = InitEth(n) /\ InitEth(n) \in Nat
      BY <1>2, FuelsTyped DEF InitEth
    <3>. QED  BY <1>2, <3>1, EvenEmpty
  <2>. QED  BY <2>1 DEF GasEven
<1>5. PurseCovers
  BY <1>2 DEF PurseCovers, Weekly
<1>6. DueInv /\ AmpleInv
  BY <1>2 DEF DueInv, BetweenRewards, AmpleInv
<1>. QED  BY <1>1, <1>3, <1>4, <1>5, <1>6 DEF ChecksInv

LEMMA AllKept ==
    ASSUME CreditInv, GasList, ProcessInv, HandlerInv,
           GasEven, PurseCovers, DueInv, AmpleInv, [Next]_vars
    PROVE  /\ CreditInv' /\ GasList' /\ ProcessInv' /\ HandlerInv'
           /\ GasEven' /\ PurseCovers' /\ DueInv' /\ AmpleInv'
<1>1. CreditInv' /\ GasList' /\ ProcessInv'
  BY StepKeeps, ProcessKeeps DEF GasKept
<1>2. AmpleInv'
  <2>1. balance' \in Balances
    BY <1>1 DEF CreditInv, Typed
  <2>. QED  BY <2>1, AmpleKeeps
<1>3. Weekly' <=> Weekly
  BY ProgramFixed DEF Weekly
<1>4. HandlerInv' /\ GasEven' /\ PurseCovers'
  <2>1. CASE Weekly
    BY <2>1, HandlerKeeps, GasEvenKeeps, PurseKeeps
  <2>2. CASE ~Weekly
    BY <1>3, <2>2 DEF HandlerInv, GasEven, PurseCovers
  <2>. QED  BY <2>1, <2>2
<1>5. DueInv'
  <2>1. CASE Weekly
    BY <1>3, <2>1 DEF DueInv
  <2>2. CASE ~Weekly
    BY <2>2, DueKeeps
  <2>. QED  BY <2>1, <2>2
<1>. QED  BY <1>1, <1>2, <1>4, <1>5

LEMMA ChecksCovered == ASSUME ChecksInv PROVE ChecksSuffice
<1>1. CreditInv /\ ProcessInv /\ AmpleInv
  BY DEF ChecksInv
<1>2. ASSUME running, todo # <<>>, Checked PROVE Affordable(Head(todo))
  BY <1>1, <1>2, AmpleIsEnough
<1>. QED  BY <1>2 DEF ChecksSuffice, Checked

(* Whichever of the two tasks runs, and however it is interrupted and      *)
(* resumed: once a step that checks has begun, every one of its            *)
(* transactions is covered, also those of the payments, which check        *)
(* nothing, as long as no step was repeated and the keepers burned no more *)
(* than comes after.                                                       *)
THEOREM ChecksAreEnough == Spec => []ChecksSuffice
<1>1. Init => ChecksInv
  BY AllStart
<1>2. ChecksInv /\ [Next]_vars => ChecksInv'
  <2>1. ASSUME ChecksInv, [Next]_vars PROVE ChecksInv'
    BY <2>1, AllKept DEF ChecksInv
  <2>. QED  BY <2>1
<1>3. ChecksInv => ChecksSuffice
  BY ChecksCovered
<1>. QED  BY <1>1, <1>2, <1>3, PTL DEF Spec
=============================================================================
