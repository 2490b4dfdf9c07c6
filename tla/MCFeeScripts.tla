----------------------------- MODULE MCFeeScripts -----------------------------
(* A small week for TLC: two networks, one keeper on each, two accounts    *)
(* with referral rewards.                                                  *)
EXTENDS FeeScripts, TLC

CONSTANTS keeper, anna, ben

Of(inArb, inAvax) == [n \in Networks |-> IF n = arb THEN inArb ELSE inAvax]

(* Wednesday of week 1, 0:00.                                              *)
Wednesday == Week + 6 * Day
Needs == [k \in Keepers |-> 3]
WeekSettings ==
    [price |-> Of(2, 1), gmxPrice |-> 3, minGlp |-> 30, multiplier |-> 9900,
     staked |-> Of(30, 10), gmxMultiplier |-> 97]

V1Day(id, f) ==
    [id |-> id, marginAndLiquidation |-> f, swap |-> 1, mint |-> 0, burn |-> 1]
V2Day(id, f) ==
    [id |-> id, borrowing |-> f, position |-> 10, swapReceiver |-> 0,
     swapPool |-> 0]
(* A day before the week, two of it and the Wednesday after it.            *)
Days(day(_, _), f) ==
    {day(Wednesday - Week - Day, 7), day(Wednesday - Week, f),
     day(Wednesday - Day, f), day(Wednesday, 9)}
WeekStats ==
    [n \in Networks |-> [v1 |-> Days(V1Day, 40), v2 |-> Days(V2Day, 200)]]

Row(a, total, discount, v2) ==
    [affiliate |-> a, total |-> total, discount |-> discount, v2 |-> v2]
Trader(a, discount) == [referral |-> a, discount |-> discount]
Data(rows, traders, tiers, limit) ==
    [affiliateStats |-> rows, referralStats |-> traders, tiers |-> tiers,
     esGmxLimit |-> limit, threshold |-> 3, esGmxThreshold |-> 3,
     shareDivisor |-> 1000]
(* Two affiliates with esGMX over the limit, and rewards of AddressZero.   *)
Busy == Data({Row(anna, 20, 8, 45), Row(ben, 12, 4, 33), Row(Zero, 5, 2, 0)},
             {Trader(anna, 4), Trader(ben, 2), Trader(Zero, 8)},
             (anna :> 2 @@ ben :> 2 @@ Zero :> 2), 12)
(* One affiliate without esGMX.                                            *)
Calm == Data({Row(ben, 9, 3, 0)}, {Trader(anna, 3)}, (ben :> 1), 12)
NoTrades == Data({}, {}, <<>>, 12)
(* The reduction throws: over the limit, but not everybody is of tier 2.   *)
Mixed == Data({Row(anna, 20, 8, 100), Row(ben, 12, 4, 33)}, {Trader(anna, 8)},
              (anna :> 2), 12)
WeekData == {Of(Busy, NoTrades), Of(NoTrades, Mixed)}

(* Fees to be claimed, with a little left of the week before.              *)
Account(vault, handlerWnt, handlerGmx, left) ==
    [o \in Owners |-> [t \in Tokens |->
        CASE o = "vault" /\ t = "alt" -> vault
          [] o = "feeHandler" /\ t = "wnt" -> handlerWnt
          [] o = "feeHandler" /\ t = "gmx" -> handlerGmx
          [] o = "signer" /\ t \in {"wnt", "gmx"} -> left
          [] o = "wallet" /\ t = "esGmx" -> 9
          [] o \in Keepers /\ t = "eth" -> 1
          [] OTHER -> 0]]
WeekBalances == Of(Account(33, 100, 40, 1), Account(90, 60, 8, 0))
LastFiles == [n \in Networks |-> File(Calm)]

(* The reference of processFees.                                           *)
LastReference ==
    Of([feesUsd |-> 170, feesUsdV2 |-> 90, referralUsd |-> 9, keeperCosts |-> 2,
        price |-> 2, staked |-> 30],
       [feesUsd |-> 70, feesUsdV2 |-> 50, referralUsd |-> 9, keeperCosts |-> 2,
        price |-> 1, staked |-> 10])
=============================================================================
