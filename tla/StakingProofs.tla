----------------------------- MODULE StakingProofs -----------------------------
(***************************************************************************)
(* What is proved of RewardTracker and Vester for every value of their     *)
(* constants. The tracker: its ledgers keep their types and add up, it can *)
(* pay every stake and reward, the running average can always be computed, *)
(* and no step lowers what an account has earned. The vester on top of it: *)
(* tokens that are vesting are neither lost nor paid twice, reserved       *)
(* shares stay staked, rights to vest are handed on and not copied, and    *)
(* what has to be reserved never exceeds a stake that there was.           *)
(***************************************************************************)
EXTENDS Vester, LedgerSums

-----------------------------------------------------------------------------
(* The tracker.                                                            *)

(* No account is ahead of the cumulative reward: the subtraction in        *)
(* _updateRewards does not underflow.                                      *)
NobodyAhead ==
    \A a \in Accounts :
        previousCumulatedRewardPerToken[a] <= cumulativeRewardPerToken

(* The inductive invariant. AverageComputable needs rewards that are not   *)
(* negative, which NobodyAhead provides.                                   *)
IInv == TypeOK /\ NobodyAhead /\ AverageComputable

Positive == Nat \ {0}

-----------------------------------------------------------------------------
(* Dividing an amount by a positive number gives an amount.                *)
LEMMA QuotientNat == ASSUME NEW a \in Nat, NEW b \in Positive
                     PROVE a \div b \in Nat
  BY DEF Positive

(* Products of amounts are amounts.                                        *)
LEMMA ProductNat == ASSUME NEW a \in Nat, NEW b \in Nat PROVE a * b \in Nat
  OBVIOUS

(* A larger amount has a larger quotient.                                  *)
LEMMA QuotientMonotone ==
  ASSUME NEW a \in Nat, NEW b \in Nat, NEW c \in Positive, a <= b
  PROVE  a \div c <= b \div c
  BY DEF Positive

(* A stake's share of a larger reward is larger; of nothing it is nothing. *)
LEMMA ShareMonotone ==
  ASSUME NEW s \in Nat, NEW c \in Nat, NEW d \in Nat, c <= d
  PROVE  /\ Share(s, c) \in Nat /\ Share(s, d) \in Nat
         /\ Share(s, c) <= Share(s, d) /\ Share(s, 0) = 0
<1>1. Precision \in Positive
  BY TrackerAssumption DEF Positive
<1>2. s * c \in Nat /\ s * d \in Nat
  BY ProductNat
<1>3. s * c <= s * d
  OBVIOUS
<1>4. Share(s, 0) = 0
  <2>1. s * 0 = 0
    OBVIOUS
  <2>2. 0 \div Precision = 0
    BY <1>1 DEF Positive
  <2> QED BY <2>1, <2>2 DEF Share
<1> QED BY <1>1, <1>2, <1>3, <1>4, QuotientNat, QuotientMonotone DEF Share

(* The distributor never promises less than nothing or more than it has.   *)
LEMMA DistributedType ==
  ASSUME TypeOK
  PROVE  /\ PendingRewards \in Nat
         /\ Distributed \in 0..funds
<1> DEFINE timeDiff == now - lastDistributionTime
<1>1. timeDiff \in Nat /\ rate \in Nat /\ totalSupply \in Nat /\ funds \in Nat
  BY DEF TypeOK, StakesOK, DistributorOK
<1>2. rate * timeDiff \in Nat
  BY <1>1, ProductNat
<1>3. (timeDiff * totalSupply) * rate \in Nat
  BY <1>1, ProductNat
<1>4. BPS \in Positive /\ BonusDuration \in Positive
  BY TrackerAssumption DEF Positive
<1>5. (((timeDiff * totalSupply) * rate) \div BPS) \div BonusDuration \in Nat
  BY <1>3, <1>4, QuotientNat
<1>6. PendingRewards \in Nat
  BY <1>2, <1>5 DEF PendingRewards
<1> QED BY <1>1, <1>6 DEF Distributed

(* The cumulative reward only grows.                                       *)
LEMMA CumulativeGrows ==
  ASSUME TypeOK
  PROVE  NextCumulative \in Nat /\ cumulativeRewardPerToken <= NextCumulative
<1>1. /\ cumulativeRewardPerToken \in Nat /\ totalSupply \in Nat
      /\ Distributed \in Nat /\ Precision \in Nat
  BY DistributedType, TrackerAssumption
  DEF TypeOK, RewardsOK, StakesOK, DistributorOK
<1>2. ASSUME totalSupply > 0
      PROVE  (Distributed * Precision) \div totalSupply \in Nat
  <2>1. Distributed * Precision \in Nat
    BY <1>1, ProductNat
  <2> QED BY <1>1, <1>2, <2>1, QuotientNat DEF Positive
<1> QED BY <1>1, <1>2 DEF NextCumulative

(* What an account earns with an update is an amount, and its credit       *)
(* afterwards at least what it was owed before.                            *)
LEMMA RewardType ==
  ASSUME IInv, NEW a \in Accounts
  PROVE  /\ AccountReward(a) \in Nat /\ Claimable(a) \in Nat
         /\ Owed(a) \in Nat /\ Owed(a) <= Claimable(a)
         /\ NextCumulativeReward(a) \in Nat
<1> DEFINE c == cumulativeRewardPerToken - previousCumulatedRewardPerToken[a]
           d == NextCumulative - previousCumulatedRewardPerToken[a]
<1>1. /\ claimableReward[a] \in Nat /\ cumulativeRewards[a] \in Nat
      /\ stakedAmounts[a] \in Nat /\ previousCumulatedRewardPerToken[a] \in Nat
      /\ previousCumulatedRewardPerToken[a] <= cumulativeRewardPerToken
      /\ cumulativeRewardPerToken \in Nat
  BY DEF IInv, TypeOK, RewardsOK, StakesOK, NobodyAhead
<1>2. c \in Nat /\ d \in Nat /\ c <= d
  BY <1>1, CumulativeGrows DEF IInv
<1>3. /\ Share(stakedAmounts[a], c) \in Nat /\ Share(stakedAmounts[a], d) \in Nat
      /\ Share(stakedAmounts[a], c) <= Share(stakedAmounts[a], d)
  BY <1>1, <1>2, ShareMonotone
<1> QED BY <1>1, <1>3
        DEF AccountReward, Claimable, Owed, NextCumulativeReward

(* An account without a stake earns nothing.                               *)
LEMMA NothingStaked ==
  ASSUME IInv, NEW a \in Accounts, stakedAmounts[a] = 0
  PROVE  AccountReward(a) = 0
<1> DEFINE d == NextCumulative - previousCumulatedRewardPerToken[a]
<1>1. Precision \in Positive
  BY TrackerAssumption DEF Positive
<1>2. d \in Int
  BY CumulativeGrows DEF IInv, TypeOK, RewardsOK
<1>3. 0 * d = 0
  BY <1>2
<1>4. 0 \div Precision = 0
  BY <1>1 DEF Positive
<1> QED BY <1>3, <1>4 DEF AccountReward, Share

(* The average of a stake with rewards is an amount.                       *)
LEMMA AverageType ==
  ASSUME IInv, NEW a \in Accounts, NextCumulativeReward(a) > 0
  PROVE  NextAverage(a) \in Nat
<1>1. /\ averageStakedAmounts[a] \in Nat /\ cumulativeRewards[a] \in Nat
      /\ stakedAmounts[a] \in Nat
  BY DEF IInv, TypeOK, RewardsOK, StakesOK
<1>2. /\ averageStakedAmounts[a] * cumulativeRewards[a] \in Nat
      /\ stakedAmounts[a] * AccountReward(a) \in Nat
  BY <1>1, RewardType, ProductNat
<1>3. NextCumulativeReward(a) \in Positive
  BY RewardType DEF Positive
<1> DEFINE n == NextCumulativeReward(a)
<1>4. /\ (averageStakedAmounts[a] * cumulativeRewards[a]) \div n \in Nat
      /\ (stakedAmounts[a] * AccountReward(a)) \div n \in Nat
  BY <1>2, <1>3, QuotientNat
<1> QED BY <1>4 DEF NextAverage

-----------------------------------------------------------------------------
(* What an update of the rewards establishes, whoever calls it.            *)
LEMMA UpdateFacts ==
  ASSUME IInv, NEW as \in SUBSET Accounts, UpdateRewards(as)
  PROVE  /\ funds' \in Nat
         /\ lastDistributionTime' \in Nat /\ lastDistributionTime' <= now
         /\ cumulativeRewardPerToken' \in Nat
         /\ cumulativeRewardPerToken <= cumulativeRewardPerToken'
         /\ previousCumulatedRewardPerToken' \in [Accounts -> Nat]
         /\ cumulativeRewards' \in [Accounts -> Nat]
         /\ averageStakedAmounts' \in [Accounts -> Nat]
         /\ \A a \in Accounts :
               /\ previousCumulatedRewardPerToken'[a] <= cumulativeRewardPerToken'
               /\ a \notin as => /\ previousCumulatedRewardPerToken'[a]
                                        = previousCumulatedRewardPerToken[a]
                                 /\ cumulativeRewards'[a] = cumulativeRewards[a]
               /\ a \in as =>
                     /\ previousCumulatedRewardPerToken'[a]
                            = cumulativeRewardPerToken'
                     /\ Claimable(a) <= cumulativeRewards'[a]
<1> USE DEF UpdateRewards
<1>1. /\ funds' \in Nat
      /\ lastDistributionTime' \in Nat /\ lastDistributionTime' <= now
  BY DistributedType DEF Distribute, IInv, TypeOK, DistributorOK
<1>2. /\ cumulativeRewardPerToken' \in Nat
      /\ cumulativeRewardPerToken <= cumulativeRewardPerToken'
  BY CumulativeGrows DEF IInv
<1>3. /\ previousCumulatedRewardPerToken \in [Accounts -> Nat]
      /\ cumulativeRewards \in [Accounts -> Nat]
      /\ averageStakedAmounts \in [Accounts -> Nat]
      /\ stakedAmounts \in [Accounts -> Nat]
      /\ claimableReward \in [Accounts -> Nat]
  BY DEF IInv, TypeOK, RewardsOK, StakesOK
<1>4. previousCumulatedRewardPerToken' \in [Accounts -> Nat]
  BY <1>2, <1>3 DEF Previous
<1>5. cumulativeRewards' \in [Accounts -> Nat]
  BY <1>3, RewardType
<1>6. averageStakedAmounts' \in [Accounts -> Nat]
  BY <1>3, AverageType DEF Averaged
<1>7. /\ cumulativeRewardPerToken' = NextCumulative
      /\ \A a \in Accounts :
            /\ previousCumulatedRewardPerToken'[a] = Previous(as)[a]
            /\ cumulativeRewards'[a]
                  = IF a \in Averaged(as) THEN NextCumulativeReward(a)
                    ELSE cumulativeRewards[a]
  OBVIOUS
<1> HIDE DEF UpdateRewards
<1>8. ASSUME NEW a \in Accounts
      PROVE  previousCumulatedRewardPerToken'[a]
                = IF a \in as THEN cumulativeRewardPerToken'
                  ELSE previousCumulatedRewardPerToken[a]
  <2>1. /\ previousCumulatedRewardPerToken[a] \in Nat
        /\ previousCumulatedRewardPerToken[a] <= cumulativeRewardPerToken
        /\ cumulativeRewardPerToken \in Nat
    BY DEF IInv, NobodyAhead, TypeOK, RewardsOK
  <2>2. previousCumulatedRewardPerToken'[a]
            = IF a \in as /\ NextCumulative > 0 THEN NextCumulative
              ELSE previousCumulatedRewardPerToken[a]
    BY <1>7 DEF Previous
  <2>3. /\ NextCumulative \in Nat
        /\ previousCumulatedRewardPerToken[a] <= NextCumulative
    BY <2>1, CumulativeGrows DEF IInv
  <2>4. CASE a \in as
    <3>1. CASE NextCumulative > 0
      BY <1>7, <2>2, <2>4, <3>1
    <3>2. CASE NextCumulative = 0
      <4>1. previousCumulatedRewardPerToken[a] = NextCumulative
        BY <2>1, <2>3, <3>2
      <4> QED BY <1>7, <2>2, <2>4, <4>1
    <3>3. NextCumulative > 0 \/ NextCumulative = 0
      BY <2>3
    <3> QED BY <3>1, <3>2, <3>3
  <2>5. CASE a \notin as
    BY <2>2, <2>5
  <2> QED BY <2>4, <2>5
<1>9. ASSUME NEW a \in Accounts, a \notin as
      PROVE  cumulativeRewards'[a] = cumulativeRewards[a]
  <2>1. a \notin Averaged(as)
    BY <1>9 DEF Averaged
  <2> QED BY <1>7, <2>1
<1>10. ASSUME NEW a \in Accounts, a \in as
       PROVE  Claimable(a) <= cumulativeRewards'[a]
  <2>1. claimableReward[a] <= cumulativeRewards[a]
    BY DEF IInv, AverageComputable
  <2>2. /\ AccountReward(a) \in Nat /\ claimableReward[a] \in Nat
        /\ cumulativeRewards[a] \in Nat /\ Claimable(a) \in Nat
        /\ stakedAmounts[a] \in Nat
    BY <1>3, RewardType
  <2>3. CASE a \in Averaged(as)
    <3>1. cumulativeRewards'[a] = cumulativeRewards[a] + AccountReward(a)
      BY <1>7, <2>3 DEF NextCumulativeReward
    <3> QED BY <2>1, <2>2, <3>1 DEF Claimable
  <2>4. CASE a \notin Averaged(as)
    <3>1. cumulativeRewards'[a] = cumulativeRewards[a]
      BY <1>7, <2>4
    <3>2. CASE stakedAmounts[a] = 0
      <4>1. AccountReward(a) = 0
        BY <3>2, NothingStaked
      <4> QED BY <2>1, <2>2, <3>1, <4>1 DEF Claimable
    <3>3. CASE stakedAmounts[a] # 0
      <4>1. ~(Claimable(a) > 0)
        <5>1. stakedAmounts[a] > 0
          BY <2>2, <3>3
        <5> QED BY <1>10, <2>4, <5>1, Zenon DEF Averaged
      <4> QED BY <2>2, <3>1, <4>1
    <3> QED BY <3>2, <3>3
  <2> QED BY <2>3, <2>4
<1>11. \A a \in Accounts :
          previousCumulatedRewardPerToken'[a] <= cumulativeRewardPerToken'
  <2> TAKE a \in Accounts
  <2>1. /\ previousCumulatedRewardPerToken[a] \in Nat
        /\ previousCumulatedRewardPerToken[a] <= cumulativeRewardPerToken
        /\ cumulativeRewardPerToken \in Nat
    BY DEF IInv, NobodyAhead, TypeOK, RewardsOK
  <2>2. CASE a \in as
    <3>1. previousCumulatedRewardPerToken'[a] = cumulativeRewardPerToken'
      BY <1>8, <2>2
    <3> QED BY <1>2, <3>1
  <2>3. CASE a \notin as
    <3>1. previousCumulatedRewardPerToken'[a] = previousCumulatedRewardPerToken[a]
      BY <1>8, <2>3
    <3> QED BY <1>2, <2>1, <3>1
  <2> QED BY <2>2, <2>3
<1> QED BY <1>1, <1>2, <1>4, <1>5, <1>6, <1>8, <1>9, <1>10, <1>11

(* The tracker's balances stay amounts if the token that moved does.       *)
LEMMA HoldingsType ==
  ASSUME TypeOK, NEW token, NEW delta \in Int,
         token \in Tokens => Holdings(token, delta)[token] >= 0
  PROVE  Holdings(token, delta) \in [Tokens -> Nat]
<1>1. Distributed \in Nat /\ held \in [Tokens -> Nat]
  BY DistributedType DEF TypeOK, DistributorOK
<1>2. ASSUME NEW t \in Tokens PROVE Holdings(token, delta)[t] \in Nat
  <2>1. Holdings(token, delta)[t]
            = held[t] + (IF t = token THEN delta ELSE 0)
                      + (IF t = RewardToken THEN Distributed ELSE 0)
    BY DEF Holdings
  <2>2. CASE t = token
    <3>1. Holdings(token, delta)[t] >= 0
      BY <2>2
    <3> QED BY <1>1, <2>1, <3>1
  <2>3. CASE t # token
    BY <1>1, <2>1, <2>3
  <2> QED BY <2>2, <2>3
<1> QED BY <1>2 DEF Holdings

-----------------------------------------------------------------------------
(* Each kind of step preserves the invariant.                              *)

(* A change of a stake does, when no ledger it lowers goes below zero.     *)
LEMMA RestakeStep ==
  ASSUME IInv, NEW account \in Accounts, NEW token \in Tokens,
         NEW amount \in Int, Restake(account, token, amount),
         stakedAmounts[account] + amount >= 0,
         depositBalances[account][token] + amount >= 0,
         totalDepositSupply[token] + amount >= 0,
         balances[account] + amount >= 0, totalSupply + amount >= 0,
         Holdings(token, amount)[token] >= 0
  PROVE  IInv'
<1> USE DEF Restake
<1>1. UpdateRewards({account}) /\ {account} \in SUBSET Accounts
  OBVIOUS
<1>2. StakesOK'
  <2>1. stakedAmounts' \in [Accounts -> Nat]
    BY DEF IInv, TypeOK, StakesOK
  <2>2. depositBalances' \in [Accounts -> [Tokens -> Nat]]
    BY DEF IInv, TypeOK, StakesOK
  <2>3. totalDepositSupply' \in [Tokens -> Nat]
    BY DEF IInv, TypeOK, StakesOK
  <2>4. balances' \in [Accounts -> Nat] /\ totalSupply' \in Nat
    BY DEF IInv, TypeOK, StakesOK
  <2>5. stakedAmounts'[account] \in Nat /\ peakStake \in [Accounts -> Nat]
    BY <2>1 DEF IInv, TypeOK, StakesOK
  <2>6. peakStake' \in [Accounts -> Nat]
    BY <2>5
  <2> QED BY <2>1, <2>2, <2>3, <2>4, <2>6 DEF StakesOK
<1>3. claimableReward' \in [Accounts -> Nat]
  BY RewardType DEF Credited, IInv, TypeOK, RewardsOK
<1>4. RewardsOK'
  BY <1>1, <1>3, UpdateFacts DEF RewardsOK, IInv, TypeOK
<1>5. DistributorOK'
  <2>1. held' \in [Tokens -> Nat]
    BY HoldingsType DEF IInv
  <2> QED BY <1>1, <2>1, UpdateFacts
          DEF configVars, DistributorOK, IInv, TypeOK
<1>6. NobodyAhead'
  BY <1>1, UpdateFacts DEF NobodyAhead
<1>7. AverageComputable'
  <2> SUFFICES ASSUME NEW a \in Accounts
               PROVE  claimableReward'[a] <= cumulativeRewards'[a]
    BY DEF AverageComputable
  <2>1. CASE a = account
    <3>1. claimableReward'[a] = Claimable(a)
      BY <2>1 DEF Credited, IInv, TypeOK, RewardsOK
    <3> QED BY <1>1, <2>1, <3>1, UpdateFacts
  <2>2. CASE a # account
    <3>1. claimableReward'[a] = claimableReward[a]
      BY <2>2 DEF Credited, IInv, TypeOK, RewardsOK
    <3>2. cumulativeRewards'[a] = cumulativeRewards[a]
      BY <1>1, <2>2, UpdateFacts
    <3> QED BY <3>1, <3>2 DEF IInv, AverageComputable
  <2> QED BY <2>1, <2>2
<1> QED BY <1>2, <1>4, <1>5, <1>6, <1>7 DEF IInv, TypeOK

(* A claim does.                                                           *)
LEMMA ClaimStep ==
  ASSUME IInv, NEW caller, NEW account \in Accounts, Claim(caller, account)
  PROVE  IInv'
<1> USE DEF Claim
<1> DEFINE amount == Claimable(account)
<1>1. UpdateRewards({account}) /\ {account} \in SUBSET Accounts
  OBVIOUS
<1>2. amount \in Nat /\ - amount \in Int
  BY RewardType
<1>3. StakesOK'
  BY DEF stakeVars, StakesOK, IInv, TypeOK
<1>4. /\ claimableReward' \in [Accounts -> Nat]
      /\ received' \in [Accounts -> Nat]
  BY <1>2 DEF IInv, TypeOK, RewardsOK
<1>5. RewardsOK'
  BY <1>1, <1>4, UpdateFacts DEF RewardsOK, IInv, TypeOK
<1>6. DistributorOK'
  <2>1. held' = Holdings(RewardToken, - amount)
    OBVIOUS
  <2>2. held' \in [Tokens -> Nat]
    BY <1>2, <2>1, HoldingsType DEF IInv
  <2> QED BY <1>1, <2>2, UpdateFacts
          DEF configVars, DistributorOK, IInv, TypeOK
<1>7. NobodyAhead'
  BY <1>1, UpdateFacts DEF NobodyAhead
<1>8. AverageComputable'
  <2> SUFFICES ASSUME NEW a \in Accounts
               PROVE  claimableReward'[a] <= cumulativeRewards'[a]
    BY DEF AverageComputable
  <2>1. CASE a = account
    <3>1. claimableReward'[a] = 0
      BY <2>1 DEF IInv, TypeOK, RewardsOK
    <3>2. cumulativeRewards'[a] \in Nat
      BY <1>5 DEF RewardsOK
    <3> QED BY <3>1, <3>2
  <2>2. CASE a # account
    <3>1. claimableReward'[a] = claimableReward[a]
      BY <2>2 DEF IInv, TypeOK, RewardsOK
    <3>2. cumulativeRewards'[a] = cumulativeRewards[a]
      BY <1>1, <2>2, UpdateFacts
    <3> QED BY <3>1, <3>2 DEF IInv, AverageComputable
  <2> QED BY <2>1, <2>2
<1> QED BY <1>3, <1>5, <1>6, <1>7, <1>8 DEF IInv, TypeOK

(* An update on nobody's behalf does, whatever becomes of the rate.        *)
LEMMA RefreshStep ==
  ASSUME IInv, UpdateRewards({}), held' = Holdings(RewardToken, 0),
         rate' \in Nat,
         UNCHANGED <<stakeVars, claimableReward, received, configVars, now>>
  PROVE  IInv'
<1>1. {} \in SUBSET Accounts
  OBVIOUS
<1>2. StakesOK'
  BY DEF stakeVars, StakesOK, IInv, TypeOK
<1>3. RewardsOK'
  BY <1>1, UpdateFacts DEF RewardsOK, IInv, TypeOK
<1>4. DistributorOK'
  <2>1. RewardToken \in Tokens => Holdings(RewardToken, 0)[RewardToken] >= 0
    BY DistributedType DEF Holdings, IInv, TypeOK, DistributorOK
  <2>2. held' \in [Tokens -> Nat]
    BY <2>1, HoldingsType DEF IInv
  <2> QED BY <1>1, <2>2, UpdateFacts
          DEF configVars, DistributorOK, IInv, TypeOK
<1>5. NobodyAhead'
  BY <1>1, UpdateFacts DEF NobodyAhead
<1>6. AverageComputable'
  <2> SUFFICES ASSUME NEW a \in Accounts
               PROVE  claimableReward'[a] <= cumulativeRewards'[a]
    BY DEF AverageComputable
  <2>1. cumulativeRewards'[a] = cumulativeRewards[a]
    BY <1>1, UpdateFacts
  <2> QED BY <2>1 DEF IInv, AverageComputable
<1> QED BY <1>2, <1>3, <1>4, <1>5, <1>6 DEF IInv, TypeOK

(* Every step does.                                                        *)
LEMMA Inductive == IInv /\ [Next]_vars => IInv'
<1> SUFFICES ASSUME IInv, [Next]_vars PROVE IInv'
  OBVIOUS
<1>1. ASSUME NEW caller \in Callers, NEW account \in Accounts,
             NEW token \in Tokens, NEW n \in Amounts,
             Stake(caller, account, token, n)
      PROVE  IInv'
  <2>1. n \in Nat /\ Restake(account, token, n)
    BY <1>1, TrackerAssumption DEF Stake
  <2>2. /\ stakedAmounts[account] + n >= 0
        /\ depositBalances[account][token] + n >= 0
        /\ totalDepositSupply[token] + n >= 0
        /\ balances[account] + n >= 0 /\ totalSupply + n >= 0
    BY <2>1 DEF IInv, TypeOK, StakesOK
  <2>3. Holdings(token, n)[token] >= 0
    <3>1. Distributed \in Nat /\ held[token] \in Nat
      BY DistributedType DEF IInv, TypeOK, DistributorOK
    <3> QED BY <2>1, <3>1 DEF Holdings
  <2> QED BY <2>1, <2>2, <2>3, RestakeStep
<1>2. ASSUME NEW caller \in Callers, NEW account \in Accounts,
             NEW token \in Tokens, NEW n \in Amounts,
             Unstake(caller, account, token, n)
      PROVE  IInv'
  <2>1. /\ n \in Nat /\ - n \in Int /\ Restake(account, token, - n)
        /\ Holdings(token, - n)[token] >= 0
    BY <1>2, TrackerAssumption DEF Unstake
  <2>2. /\ stakedAmounts[account] + (- n) >= 0
        /\ depositBalances[account][token] + (- n) >= 0
        /\ totalDepositSupply[token] + (- n) >= 0
        /\ balances[account] + (- n) >= 0 /\ totalSupply + (- n) >= 0
    BY <1>2, <2>1 DEF Unstake, CanUnstake, IInv, TypeOK, StakesOK
  <2> QED BY <2>1, <2>2, RestakeStep
<1>3. ASSUME NEW caller \in Callers, NEW account \in Accounts,
             Claim(caller, account)
      PROVE  IInv'
  BY <1>3, ClaimStep
<1>4. ASSUME NEW caller \in Callers, NEW account \in Accounts,
             NEW other \in Accounts, NEW n \in Amounts,
             Transfer(caller, account, other, n)
      PROVE  IInv'
  <2>1. balances' \in [Accounts -> Nat]
    <3>1. /\ n \in Nat /\ balances \in [Accounts -> Nat]
          /\ balances[account] - n \in Nat /\ balances[other] + n \in Nat
      BY <1>4, TrackerAssumption DEF Transfer, IInv, TypeOK, StakesOK
    <3> QED BY <1>4, <3>1 DEF Transfer
  <2> QED BY <1>4, <2>1
          DEF Transfer, rewardVars, distributorVars, configVars, IInv, TypeOK,
              StakesOK, RewardsOK, DistributorOK, NobodyAhead, AverageComputable
<1>5. CASE Refresh
  BY <1>5, RefreshStep DEF Refresh, IInv, TypeOK, DistributorOK
<1>6. ASSUME NEW n \in Rates, SetRate(n)
      PROVE  IInv'
  BY <1>6, RefreshStep, TrackerAssumption DEF SetRate
<1>7. ASSUME NEW token \in Tokens, NEW b \in DepositSettings,
             SetDepositToken(token, b)
      PROVE  IInv'
  BY <1>7, TrackerAssumption
  DEF SetDepositToken, stakeVars, rewardVars, distributorVars, IInv, TypeOK,
      StakesOK, RewardsOK, DistributorOK, NobodyAhead, AverageComputable
<1>8. ASSUME NEW modes \in PrivateSettings, SetPrivateModes(modes)
      PROVE  IInv'
  BY <1>8, TrackerAssumption
  DEF SetPrivateModes, stakeVars, rewardVars, distributorVars, IInv, TypeOK,
      StakesOK, RewardsOK, DistributorOK, NobodyAhead, AverageComputable
<1>9. CASE UpdateLastDistributionTime
  BY <1>9
  DEF UpdateLastDistributionTime, stakeVars, rewardVars, configVars, IInv,
      TypeOK, StakesOK, RewardsOK, DistributorOK, NobodyAhead, AverageComputable
<1>10. ASSUME NEW n \in FundAmounts, WithdrawFunds(n)
       PROVE  IInv'
  BY <1>10, TrackerAssumption
  DEF WithdrawFunds, stakeVars, rewardVars, configVars, IInv, TypeOK,
      StakesOK, RewardsOK, DistributorOK, NobodyAhead, AverageComputable
<1>11. CASE Tick
  BY <1>11
  DEF Tick, stakeVars, rewardVars, distributorVars, configVars, IInv, TypeOK,
      StakesOK, RewardsOK, DistributorOK, NobodyAhead, AverageComputable
<1>12. CASE UNCHANGED vars
  BY <1>12
  DEF vars, stakeVars, rewardVars, distributorVars, configVars, IInv, TypeOK,
      StakesOK, RewardsOK, DistributorOK, NobodyAhead, AverageComputable
<1>13. CASE Staking
  BY <1>1, <1>2, <1>3, <1>4, <1>13, Zenon DEF Staking
<1>14. CASE Administration
  BY <1>6, <1>7, <1>8, <1>9, <1>10, <1>14, Zenon DEF Administration
<1> QED BY <1>5, <1>11, <1>12, <1>13, <1>14, Zenon DEF Next

(* It holds at first.                                                      *)
LEMMA Initially == Init => IInv
  BY TrackerAssumption
  DEF Init, IInv, TypeOK, StakesOK, RewardsOK, DistributorOK, NobodyAhead,
      AverageComputable, Tokens

(* In every reachable state the invariant holds.                           *)
THEOREM Invariance == Spec => []IInv
  BY Initially, Inductive, PTL DEF Spec

(* No ledger of the tracker, the distributor or their configuration leaves *)
(* its type: sub never underflows, rewards are never distributed ahead of  *)
(* time and never exceed what the distributor holds.                       *)
THEOREM TypeCorrect == Spec => []TypeOK
<1>1. IInv => TypeOK
  BY DEF IInv
<1> QED BY <1>1, Invariance, PTL

(* The division in _updateRewards can always be carried out, so that no    *)
(* account can get stuck with a stake it cannot withdraw.                  *)
THEOREM AveragesComputable == Spec => []AverageComputable
<1>1. IInv => AverageComputable
  BY DEF IInv
<1> QED BY <1>1, Invariance, PTL

-----------------------------------------------------------------------------
(* An update keeps what an account has earned, if the stake of an account  *)
(* changes only together with its credit.                                  *)
LEMMA UpdateKeepsEarned ==
  ASSUME IInv, IInv', NEW as \in SUBSET Accounts, UpdateRewards(as),
         NEW a \in Accounts,
         a \notin as => stakedAmounts'[a] = stakedAmounts[a],
         received'[a] + claimableReward'[a]
             >= received[a] + (IF a \in as THEN Claimable(a)
                               ELSE claimableReward[a])
  PROVE  Earned(a)' >= Earned(a)
<1> DEFINE c == cumulativeRewardPerToken - previousCumulatedRewardPerToken[a]
<1>1. /\ received[a] \in Nat /\ claimableReward[a] \in Nat
      /\ received'[a] \in Nat /\ claimableReward'[a] \in Nat
      /\ stakedAmounts[a] \in Nat /\ stakedAmounts'[a] \in Nat
      /\ previousCumulatedRewardPerToken[a] \in Nat
      /\ cumulativeRewardPerToken \in Nat
      /\ previousCumulatedRewardPerToken[a] <= cumulativeRewardPerToken
      /\ cumulativeRewardPerToken' \in Nat
  BY DEF IInv, TypeOK, StakesOK, RewardsOK, NobodyAhead
<1>2. c \in Nat
  BY <1>1
<1>3. Earned(a) = received[a] + (claimableReward[a] + Share(stakedAmounts[a], c))
  BY DEF Earned, Owed
<1>4. Earned(a)' = received'[a] + (claimableReward'[a] + Share(stakedAmounts'[a], c'))
  BY DEF Earned, Owed, Share
<1>5. CASE a \in as
  <2>1. previousCumulatedRewardPerToken'[a] = cumulativeRewardPerToken'
    BY <1>5, UpdateFacts
  <2>2. c' = 0
    <3>1. cumulativeRewardPerToken' - cumulativeRewardPerToken' = 0
      <4>1. \A n \in Nat : n - n = 0
        OBVIOUS
      <4> QED BY <1>1, <4>1, Zenon
    <3>2. cumulativeRewardPerToken' - previousCumulatedRewardPerToken'[a] = 0
      BY <2>1, <3>1, Zenon
    <3> QED BY <3>2
  <2>3. Share(stakedAmounts'[a], c') = 0
    BY <1>1, <2>2, ShareMonotone
  <2>4. /\ Owed(a) \in Nat /\ Owed(a) <= Claimable(a) /\ Claimable(a) \in Nat
        /\ Earned(a) = received[a] + Owed(a)
    BY RewardType DEF Earned
  <2> QED BY <1>1, <1>4, <1>5, <2>3, <2>4
<1>6. CASE a \notin as
  <2>1. /\ previousCumulatedRewardPerToken'[a]
              = previousCumulatedRewardPerToken[a]
        /\ cumulativeRewardPerToken <= cumulativeRewardPerToken'
    BY <1>6, UpdateFacts
  <2>2. c' \in Nat /\ c <= c'
    BY <1>1, <2>1
  <2>3. /\ Share(stakedAmounts[a], c) \in Nat /\ Share(stakedAmounts[a], c') \in Nat
        /\ Share(stakedAmounts[a], c) <= Share(stakedAmounts[a], c')
    BY <1>1, <1>2, <2>2, ShareMonotone
  <2> QED BY <1>1, <1>3, <1>4, <1>6, <2>3
<1> QED BY <1>5, <1>6

(* A change of a stake keeps what everybody has earned.                    *)
LEMMA RestakeKeepsEarned ==
  ASSUME IInv, IInv', NEW account \in Accounts, NEW token \in Tokens,
         NEW amount \in Int, Restake(account, token, amount),
         NEW a \in Accounts
  PROVE  Earned(a)' >= Earned(a)
<1> USE DEF Restake
<1>1. UpdateRewards({account}) /\ {account} \in SUBSET Accounts
  OBVIOUS
<1>2. /\ stakedAmounts \in [Accounts -> Nat]
      /\ claimableReward \in [Accounts -> Nat] /\ received[a] \in Nat
      /\ received' = received
  BY DEF IInv, TypeOK, StakesOK, RewardsOK
<1>3. a \notin {account} => stakedAmounts'[a] = stakedAmounts[a]
  BY <1>2
<1>4. claimableReward'[a] = IF a \in {account} THEN Claimable(a)
                            ELSE claimableReward[a]
  BY <1>2 DEF Credited
<1>5. Claimable(a) \in Nat /\ claimableReward[a] \in Nat
  BY <1>2, RewardType
<1>6. received'[a] + claimableReward'[a]
          >= received[a] + (IF a \in {account} THEN Claimable(a)
                            ELSE claimableReward[a])
  BY <1>2, <1>4, <1>5
<1> HIDE DEF Restake
<1> QED BY <1>1, <1>3, <1>6, UpdateKeepsEarned

(* So does a claim, which pays out what it takes away.                     *)
LEMMA ClaimKeepsEarned ==
  ASSUME IInv, IInv', NEW caller, NEW account \in Accounts,
         Claim(caller, account), NEW a \in Accounts
  PROVE  Earned(a)' >= Earned(a)
<1> USE DEF Claim
<1>1. UpdateRewards({account}) /\ {account} \in SUBSET Accounts
  OBVIOUS
<1>2. /\ claimableReward \in [Accounts -> Nat] /\ received \in [Accounts -> Nat]
      /\ stakedAmounts' = stakedAmounts
      /\ claimableReward[a] \in Nat /\ received[a] \in Nat
  BY DEF stakeVars, IInv, TypeOK, RewardsOK
<1>3. Claimable(a) \in Nat
  BY RewardType
<1>4. received'[a] + claimableReward'[a]
          >= received[a] + (IF a \in {account} THEN Claimable(a)
                            ELSE claimableReward[a])
  <2>1. CASE a = account
    <3>1. received'[a] = received[a] + Claimable(a) /\ claimableReward'[a] = 0
      BY <1>2, <2>1
    <3> QED BY <1>2, <1>3, <2>1, <3>1
  <2>2. CASE a # account
    <3>1. received'[a] = received[a] /\ claimableReward'[a] = claimableReward[a]
      BY <1>2, <2>2
    <3> QED BY <1>2, <2>2, <3>1
  <2> QED BY <2>1, <2>2
<1> HIDE DEF Claim
<1> QED BY <1>1, <1>2, <1>4, UpdateKeepsEarned

(* And so does an update on nobody's behalf.                               *)
LEMMA RefreshKeepsEarned ==
  ASSUME IInv, IInv', UpdateRewards({}),
         UNCHANGED <<stakeVars, claimableReward, received>>,
         NEW a \in Accounts
  PROVE  Earned(a)' >= Earned(a)
<1>1. /\ stakedAmounts' = stakedAmounts /\ received' = received
      /\ claimableReward' = claimableReward /\ {} \in SUBSET Accounts
      /\ received[a] \in Nat /\ claimableReward[a] \in Nat
  BY DEF stakeVars, IInv, TypeOK, RewardsOK
<1>2. received'[a] + claimableReward'[a] >= received[a] + claimableReward[a]
  BY <1>1
<1> QED BY <1>1, <1>2, UpdateKeepsEarned

(* A step that touches no stake and no reward changes nothing.             *)
LEMMA OthersKeepEarned ==
  ASSUME IInv, UNCHANGED <<stakedAmounts, cumulativeRewardPerToken, rewardVars>>,
         NEW a \in Accounts
  PROVE  Earned(a)' >= Earned(a)
<1>1. Earned(a)' = Earned(a)
  BY DEF rewardVars, Earned, Owed, Share
<1>2. Earned(a) \in Nat
  BY RewardType DEF Earned, IInv, TypeOK, RewardsOK
<1> QED BY <1>1, <1>2

(* Nothing an account has earned is ever lost, whoever calls the tracker   *)
(* or its distributor, whenever, and in whatever order.                    *)
THEOREM NothingEarnedIsLost == Spec => EarningsKept
<1>1. ASSUME IInv, [Next]_vars, NEW a \in Accounts
      PROVE  Earned(a)' >= Earned(a)
  <2> USE <1>1
  <2>0. IInv'
    BY Inductive
  <2>1. ASSUME NEW caller \in Callers, NEW account \in Accounts,
               NEW token \in Tokens, NEW n \in Amounts,
               Stake(caller, account, token, n) \/ Unstake(caller, account, token, n)
        PROVE  Earned(a)' >= Earned(a)
    <3>1. n \in Int /\ - n \in Int
      BY TrackerAssumption
    <3> QED BY <2>0, <2>1, <3>1, RestakeKeepsEarned DEF Stake, Unstake
  <2>2. ASSUME NEW caller \in Callers, NEW account \in Accounts,
               Claim(caller, account)
        PROVE  Earned(a)' >= Earned(a)
    BY <2>0, <2>2, ClaimKeepsEarned
  <2>3. ASSUME NEW caller \in Callers, NEW account \in Accounts,
               NEW other \in Accounts, NEW n \in Amounts,
               Transfer(caller, account, other, n)
        PROVE  Earned(a)' >= Earned(a)
    BY <2>3, OthersKeepEarned DEF Transfer
  <2>4. CASE Refresh
    BY <2>0, <2>4, RefreshKeepsEarned DEF Refresh
  <2>5. ASSUME NEW n \in Rates, SetRate(n)
        PROVE  Earned(a)' >= Earned(a)
    BY <2>0, <2>5, RefreshKeepsEarned DEF SetRate
  <2>6. CASE \/ \E token \in Tokens : \E b \in DepositSettings :
                    SetDepositToken(token, b)
             \/ \E modes \in PrivateSettings : SetPrivateModes(modes)
             \/ UpdateLastDistributionTime
             \/ \E n \in FundAmounts : WithdrawFunds(n)
             \/ Tick
             \/ UNCHANGED vars
    <3>1. UNCHANGED <<stakedAmounts, cumulativeRewardPerToken, rewardVars>>
      BY <2>6 DEF SetDepositToken, SetPrivateModes, UpdateLastDistributionTime,
                  WithdrawFunds, Tick, vars, stakeVars
    <3> QED BY <3>1, OthersKeepEarned
  <2>7. CASE Staking
    BY <2>1, <2>2, <2>3, <2>7, Zenon DEF Staking
  <2>8. CASE Administration
    BY <2>5, <2>6, <2>8, Zenon DEF Administration
  <2> QED BY <2>4, <2>6, <2>7, <2>8, Zenon DEF Next
<1>2. IInv /\ [Next]_vars => [\A a \in Accounts : Earned(a)' >= Earned(a)]_vars
  BY <1>1
<1> QED BY <1>2, Invariance, PTL DEF Spec, EarningsKept

-----------------------------------------------------------------------------
(* The tracker's books: supplies are the sums of stakes.                   *)

(* There are finitely many tokens, so that the sums over them exist.       *)
LEMMA TokensFinite == IsFiniteSet(Tokens)
<1>1. IsFiniteSet({RewardToken})
  BY FS_Singleton
<1> QED BY <1>1, TrackerAssumption, FS_Union DEF Tokens

(* What the books contain.                                                 *)
LEMMA BookTypes ==
  ASSUME TypeOK
  PROVE  /\ stakedAmounts \in [Accounts -> Int]
         /\ balances \in [Accounts -> Int] /\ totalSupply \in Int
         /\ totalDepositSupply \in [Tokens -> Int]
         /\ \A a \in Accounts : depositBalances[a] \in [Tokens -> Int]
         /\ \A t \in Tokens :
               [a \in Accounts |-> depositBalances[a][t]] \in [Accounts -> Int]
<1>1. stakedAmounts \in [Accounts -> Nat] /\ balances \in [Accounts -> Nat]
      /\ totalSupply \in Nat /\ totalDepositSupply \in [Tokens -> Nat]
      /\ depositBalances \in [Accounts -> [Tokens -> Nat]]
  BY DEF TypeOK, StakesOK
<1>2. \A f \in [Accounts -> Nat] : f \in [Accounts -> Int]
  OBVIOUS
<1>3. \A f \in [Tokens -> Nat] : f \in [Tokens -> Int]
  OBVIOUS
<1> QED BY <1>1, <1>2, <1>3

(* A change of a stake is entered in every book.                           *)
LEMMA RestakeAddsUp ==
  ASSUME TypeOK, TypeOK', StakesAddUp,
         NEW account \in Accounts, NEW token \in Tokens,
         NEW amount \in Int, Restake(account, token, amount)
  PROVE  StakesAddUp'
<1>1. /\ stakedAmounts' = [stakedAmounts EXCEPT ![account] = @ + amount]
      /\ depositBalances' =
             [depositBalances EXCEPT ![account][token] = @ + amount]
      /\ totalDepositSupply' =
             [totalDepositSupply EXCEPT ![token] = @ + amount]
      /\ balances' = [balances EXCEPT ![account] = @ + amount]
      /\ totalSupply' = totalSupply + amount
  BY DEF Restake
<1>2. /\ stakedAmounts \in [Accounts -> Int] /\ stakedAmounts' \in [Accounts -> Int]
      /\ balances \in [Accounts -> Int] /\ balances' \in [Accounts -> Int]
      /\ totalSupply \in Int /\ totalDepositSupply \in [Tokens -> Int]
      /\ \A a \in Accounts : /\ depositBalances[a] \in [Tokens -> Int]
                             /\ depositBalances'[a] \in [Tokens -> Int]
      /\ \A t \in Tokens :
            /\ [a \in Accounts |-> depositBalances[a][t]] \in [Accounts -> Int]
            /\ [a \in Accounts |-> depositBalances'[a][t]] \in [Accounts -> Int]
  <2>1. /\ stakedAmounts' \in [Accounts -> Nat]
        /\ balances' \in [Accounts -> Nat]
        /\ depositBalances' \in [Accounts -> [Tokens -> Nat]]
    BY DEF TypeOK, StakesOK
  <2>2. /\ \A f \in [Accounts -> Nat] : f \in [Accounts -> Int]
        /\ \A f \in [Tokens -> Nat] : f \in [Tokens -> Int]
    OBVIOUS
  <2>3. /\ stakedAmounts' \in [Accounts -> Int]
        /\ balances' \in [Accounts -> Int]
        /\ \A a \in Accounts : depositBalances'[a] \in [Tokens -> Int]
        /\ \A t \in Tokens : [a \in Accounts |-> depositBalances'[a][t]]
                                  \in [Accounts -> Int]
    BY <2>1, <2>2
  <2> QED BY <2>3, BookTypes
<1>3. \A a \in Accounts : \A t \in Tokens :
          depositBalances'[a][t] = depositBalances[a][t]
              + (IF a = account /\ t = token THEN amount ELSE 0)
  BY <1>1, <1>2 DEF TypeOK, StakesOK
<1>4. ASSUME NEW a \in Accounts
      PROVE  stakedAmounts'[a] = SumFunction(depositBalances'[a])
  <2>1. stakedAmounts[a] = SumFunction(depositBalances[a])
    BY DEF StakesAddUp
  <2>2. CASE a = account
    <3>1. Changed(Tokens, depositBalances[a], depositBalances'[a], token, amount)
      BY <1>2, <1>3, <2>2 DEF Changed
    <3>2. SumFunction(depositBalances'[a]) = SumFunction(depositBalances[a]) + amount
      BY <3>1, TokensFinite, TotalChange
    <3> QED BY <1>1, <1>2, <2>1, <2>2, <3>2
  <2>3. CASE a # account
    <3>1. depositBalances'[a] = depositBalances[a]
      BY <1>1, <2>3 DEF TypeOK, StakesOK
    <3> QED BY <1>1, <1>2, <2>1, <2>3, <3>1
  <2> QED BY <2>2, <2>3
<1>5. ASSUME NEW t \in Tokens
      PROVE  totalDepositSupply'[t]
                 = SumFunction([a \in Accounts |-> depositBalances'[a][t]])
  <2>1. totalDepositSupply[t]
            = SumFunction([a \in Accounts |-> depositBalances[a][t]])
    BY DEF StakesAddUp
  <2>2. PICK f, g : /\ f = [a \in Accounts |-> depositBalances[a][t]]
                    /\ g = [a \in Accounts |-> depositBalances'[a][t]]
    OBVIOUS
  <2>3. CASE t = token
    <3>1. Changed(Accounts, f, g, account, amount)
      BY <1>2, <1>3, <2>2, <2>3 DEF Changed
    <3>2. SumFunction(g) = SumFunction(f) + amount
      BY <3>1, TrackerAssumption, TotalChange
    <3> QED BY <1>1, <1>2, <2>1, <2>2, <2>3, <3>2
  <2>4. CASE t # token
    <3>1. f = g
      BY <1>2, <1>3, <2>2, <2>4
    <3> QED BY <1>1, <1>2, <2>1, <2>2, <2>4, <3>1
  <2> QED BY <2>3, <2>4
<1>6. totalSupply' = SumFunction(stakedAmounts')
  <2>1. Changed(Accounts, stakedAmounts, stakedAmounts', account, amount)
    BY <1>1, <1>2 DEF Changed
  <2>2. SumFunction(stakedAmounts') = SumFunction(stakedAmounts) + amount
    BY <2>1, TrackerAssumption, TotalChange
  <2> QED BY <1>1, <2>2 DEF StakesAddUp
<1>7. totalSupply' = SumFunction(balances')
  <2>1. Changed(Accounts, balances, balances', account, amount)
    BY <1>1, <1>2 DEF Changed
  <2>2. SumFunction(balances') = SumFunction(balances) + amount
    BY <2>1, TrackerAssumption, TotalChange
  <2> QED BY <1>1, <2>2 DEF StakesAddUp
<1> QED BY <1>4, <1>5, <1>6, <1>7 DEF StakesAddUp

(* The tracker's own token moving between its holders leaves the stakes    *)
(* alone.                                                                  *)
LEMMA SharesMoveAddsUp ==
  ASSUME StakesAddUp, NEW y, NEW z, NEW n,
         Shifted(Accounts, balances, balances', y, z, n),
         UNCHANGED <<depositBalances, totalDepositSupply, stakedAmounts,
                     totalSupply>>
  PROVE  StakesAddUp'
<1>1. SumFunction(balances') = SumFunction(balances)
  BY TrackerAssumption, TotalMove
<1> QED BY <1>1 DEF StakesAddUp

-----------------------------------------------------------------------------
(* The tracker's money: all roundings favour it.                           *)

(* A quotient times the divisor is at most the dividend.                   *)
LEMMA QuotientBelow ==
  ASSUME NEW a \in Nat, NEW b \in Positive
  PROVE  b * (a \div b) <= a /\ b * (a \div b) \in Nat
  BY DEF Positive

(* Products are distributive.                                              *)
LEMMA Distributive ==
  ASSUME NEW a \in Int, NEW b \in Int, NEW c \in Int
  PROVE  /\ c * (a + b) = c * a + c * b /\ c * (a - b) = c * a - c * b
         /\ c * a \in Int /\ c * b \in Int /\ a * c = c * a
  OBVIOUS

(* What an account has earned per token since it was last updated.         *)
Ahead(a) == cumulativeRewardPerToken - previousCumulatedRewardPerToken[a]

(* What an account is owed before it is divided by Precision and rounded   *)
(* down, which updates at different times do differently.                  *)
Exactly(a) == Precision * claimableReward[a] + stakedAmounts[a] * Ahead(a)
ExactlyOwed == [a \in Accounts |-> Exactly(a)]

(* Beyond its deposits the tracker holds what it owes exactly, or more.    *)
Backed ==
    \A t \in Tokens :
        (IF t = RewardToken THEN SumFunction(ExactlyOwed) ELSE 0)
            <= Precision * (held[t] - totalDepositSupply[t])

(* What is owed exactly is an amount, and at least what can be claimed.    *)
LEMMA ExactlyType ==
  ASSUME IInv, NEW a \in Accounts
  PROVE  /\ Exactly(a) \in Nat /\ Owed(a) \in Nat /\ Ahead(a) \in Nat
         /\ stakedAmounts[a] * Ahead(a) \in Nat
         /\ Precision * Owed(a) <= Exactly(a)
<1>1. /\ claimableReward[a] \in Nat /\ stakedAmounts[a] \in Nat
      /\ previousCumulatedRewardPerToken[a] \in Nat
      /\ cumulativeRewardPerToken \in Nat
      /\ previousCumulatedRewardPerToken[a] <= cumulativeRewardPerToken
      /\ Precision \in Positive /\ Precision \in Nat
  BY TrackerAssumption
  DEF IInv, TypeOK, StakesOK, RewardsOK, NobodyAhead, Positive
<1>2. Ahead(a) \in Nat
  BY <1>1 DEF Ahead
<1>3. /\ stakedAmounts[a] * Ahead(a) \in Nat
      /\ Precision * claimableReward[a] \in Nat
  BY <1>1, <1>2, ProductNat
<1>4. /\ Owed(a) = claimableReward[a] + Share(stakedAmounts[a], Ahead(a))
      /\ Share(stakedAmounts[a], Ahead(a))
             = (stakedAmounts[a] * Ahead(a)) \div Precision
  BY DEF Owed, Share, Ahead
<1>5. Share(stakedAmounts[a], Ahead(a)) \in Nat
  BY <1>1, <1>3, <1>4, QuotientNat
<1>6. Precision * Share(stakedAmounts[a], Ahead(a))
          <= stakedAmounts[a] * Ahead(a)
  BY <1>1, <1>3, <1>4, QuotientBelow
<1>7. /\ Precision * Owed(a)
             = Precision * claimableReward[a]
                   + Precision * Share(stakedAmounts[a], Ahead(a))
      /\ Precision * Share(stakedAmounts[a], Ahead(a)) \in Int
  BY <1>1, <1>4, <1>5, Distributive
<1> QED BY <1>1, <1>2, <1>3, <1>4, <1>5, <1>6, <1>7 DEF Exactly

(* So backing what is owed exactly is enough.                              *)
LEMMA BackedIsSolvent == IInv /\ Backed => Solvent
<1> SUFFICES ASSUME IInv, Backed, NEW t \in Tokens
             PROVE  held[t] >= totalDepositSupply[t]
                        + (IF t = RewardToken
                           THEN SumFunction([a \in Accounts |-> Owed(a)]) ELSE 0)
  BY DEF Solvent
<1>1. /\ held[t] \in Nat /\ totalDepositSupply[t] \in Nat
      /\ Precision \in Positive /\ Precision \in Int
  BY TrackerAssumption DEF IInv, TypeOK, StakesOK, DistributorOK, Positive
<1>2. PICK owed, scaled, exact :
          /\ owed = [a \in Accounts |-> Owed(a)] /\ exact = ExactlyOwed
          /\ scaled = [a \in Accounts |-> Owed(a) * Precision]
  OBVIOUS
<1>3. \A a \in Accounts : /\ owed[a] \in Int /\ scaled[a] = owed[a] * Precision
                          /\ scaled[a] \in Int /\ exact[a] \in Int
                          /\ scaled[a] <= exact[a]
  BY <1>1, <1>2, ExactlyType, Distributive DEF ExactlyOwed
<1>4. SumFunctionOnSet(scaled, Accounts)
          = SumFunctionOnSet(owed, Accounts) * Precision
  BY <1>1, <1>3, TrackerAssumption, SumScale
<1>5. SumFunctionOnSet(scaled, Accounts) <= SumFunctionOnSet(exact, Accounts)
  BY <1>3, TrackerAssumption, SumMonotone
<1>6. SumFunctionOnSet(owed, Accounts) \in Int
  BY <1>3, TrackerAssumption, SumType
<1>7. SumFunctionOnSet(exact, Accounts) \in Int
  BY <1>3, TrackerAssumption, SumType
<1>8. PICK m \in Int, k \in Int : /\ m = SumFunctionOnSet(owed, Accounts)
                                  /\ k = held[t] - totalDepositSupply[t]
  BY <1>1, <1>6
<1>9. CASE t = RewardToken
  <2>1. SumFunctionOnSet(exact, Accounts) <= Precision * k
    <3>1. SumFunction(ExactlyOwed)
              <= Precision * (held[t] - totalDepositSupply[t])
      BY <1>9, Zenon DEF Backed
    <3>2. DOMAIN ExactlyOwed = Accounts
      BY DEF ExactlyOwed
    <3> QED BY <1>2, <1>8, <3>1, <3>2, Zenon DEF SumFunction
  <2>2. Precision * k \in Int /\ m * Precision \in Int
    BY <1>1
  <2>3. SumFunctionOnSet(scaled, Accounts) = m * Precision
    BY <1>4, <1>8
  <2>4. m * Precision <= Precision * k
    BY <1>5, <1>7, <2>1, <2>2, <2>3
  <2>5. m <= k
    BY <1>1, <2>4 DEF Positive
  <2>6. SumFunction([a \in Accounts |-> Owed(a)]) = m
    BY <1>2, <1>8 DEF SumFunction
  <2> QED BY <1>1, <1>8, <1>9, <2>5, <2>6
<1>10. CASE t # RewardToken
  <2>1. 0 <= Precision * k
    BY <1>1, <1>8, <1>10 DEF Backed
  <2>2. 0 <= k
    BY <1>1, <2>1 DEF Positive
  <2> QED BY <1>1, <1>8, <1>10, <2>2
<1> QED BY <1>9, <1>10

(* The rewards shared out per token are covered by what was distributed.   *)
LEMMA SharedOut ==
  ASSUME TypeOK
  PROVE  /\ NextCumulative - cumulativeRewardPerToken \in Nat
         /\ totalSupply * (NextCumulative - cumulativeRewardPerToken)
                <= Precision * Distributed
<1>1. /\ cumulativeRewardPerToken \in Nat /\ totalSupply \in Nat
      /\ Distributed \in Nat /\ Precision \in Nat /\ NextCumulative \in Nat
      /\ cumulativeRewardPerToken <= NextCumulative
  BY DistributedType, CumulativeGrows, TrackerAssumption
  DEF TypeOK, RewardsOK, StakesOK, DistributorOK
<1>2. CASE totalSupply > 0 /\ Distributed > 0
  <2>1. /\ Distributed * Precision \in Nat /\ totalSupply \in Positive
        /\ Distributed * Precision = Precision * Distributed
    BY <1>1, <1>2, ProductNat DEF Positive
  <2>2. NextCumulative - cumulativeRewardPerToken
            = (Distributed * Precision) \div totalSupply
    <3>1. (Distributed * Precision) \div totalSupply \in Nat
      BY <2>1, QuotientNat
    <3> QED BY <1>1, <1>2, <3>1 DEF NextCumulative
  <2> QED BY <1>1, <2>1, <2>2, QuotientBelow
<1>3. CASE ~(totalSupply > 0 /\ Distributed > 0)
  <2>1. NextCumulative - cumulativeRewardPerToken = 0
    BY <1>1, <1>3 DEF NextCumulative
  <2>2. Precision * Distributed \in Nat /\ totalSupply * 0 = 0
    BY <1>1, ProductNat
  <2> QED BY <1>1, <2>1, <2>2
<1> QED BY <1>2, <1>3

(* An account that is updated and paid n is owed no more than before and   *)
(* its share of what is distributed.                                       *)
LEMMA ExactUpdate ==
  ASSUME IInv, IInv', NEW as \in SUBSET Accounts, UpdateRewards(as),
         NEW a \in Accounts, NEW n \in Nat,
         a \in as => claimableReward'[a] + n = Claimable(a),
         a \notin as => /\ n = 0 /\ claimableReward'[a] = claimableReward[a]
                        /\ stakedAmounts'[a] = stakedAmounts[a]
  PROVE  /\ Exactly(a)' + Precision * n
                <= Exactly(a) + stakedAmounts[a]
                       * (NextCumulative - cumulativeRewardPerToken)
         /\ Exactly(a)' \in Int /\ Exactly(a) \in Int
         /\ Precision * n \in Int
<1> DEFINE d == NextCumulative - cumulativeRewardPerToken
<1>1. /\ claimableReward[a] \in Nat /\ stakedAmounts[a] \in Nat
      /\ claimableReward'[a] \in Nat /\ stakedAmounts'[a] \in Nat
      /\ previousCumulatedRewardPerToken[a] \in Nat
      /\ previousCumulatedRewardPerToken'[a] \in Nat
      /\ cumulativeRewardPerToken \in Nat /\ NextCumulative \in Nat
      /\ cumulativeRewardPerToken' = NextCumulative
      /\ Precision \in Positive /\ Precision \in Nat
  BY TrackerAssumption, CumulativeGrows
  DEF IInv, TypeOK, StakesOK, RewardsOK, Positive, UpdateRewards
<1>2. /\ d \in Nat /\ Ahead(a) \in Nat /\ Exactly(a) \in Nat
      /\ stakedAmounts[a] * Ahead(a) \in Nat
  BY SharedOut, ExactlyType DEF IInv
<1>3. /\ stakedAmounts[a] * d \in Nat /\ Precision * n \in Nat
      /\ Precision * claimableReward[a] \in Nat
      /\ Precision * claimableReward'[a] \in Nat
  BY <1>1, <1>2, ProductNat
<1>4. Exactly(a)' = Precision * claimableReward'[a]
          + stakedAmounts'[a] * (cumulativeRewardPerToken'
                                     - previousCumulatedRewardPerToken'[a])
  BY DEF Exactly, Ahead
<1>5. NextCumulative - previousCumulatedRewardPerToken[a] = Ahead(a) + d
  BY <1>1 DEF Ahead
<1>6. stakedAmounts[a] * (Ahead(a) + d)
          = stakedAmounts[a] * Ahead(a) + stakedAmounts[a] * d
  BY <1>1, <1>2, Distributive
<1> HIDE DEF d
<1>7. CASE a \in as
  <2>1. previousCumulatedRewardPerToken'[a] = cumulativeRewardPerToken'
    BY <1>7, UpdateFacts
  <2>2. Exactly(a)' = Precision * claimableReward'[a]
    BY <1>1, <1>3, <1>4, <2>1
  <2>3. Claimable(a) = claimableReward[a] + AccountReward(a)
        /\ AccountReward(a) \in Nat
    BY RewardType DEF Claimable
  <2>4. Precision * AccountReward(a) <= stakedAmounts[a] * (Ahead(a) + d)
    <3>1. stakedAmounts[a] * (Ahead(a) + d) \in Nat
      BY <1>2, <1>3, <1>6
    <3>2. AccountReward(a) = (stakedAmounts[a] * (Ahead(a) + d)) \div Precision
      BY <1>5 DEF AccountReward, Share
    <3> QED BY <1>1, <3>1, <3>2, QuotientBelow
  <2>5. /\ Precision * (claimableReward'[a] + n)
               = Precision * claimableReward'[a] + Precision * n
        /\ Precision * (claimableReward[a] + AccountReward(a))
               = Precision * claimableReward[a] + Precision * AccountReward(a)
        /\ Precision * AccountReward(a) \in Int
    BY <1>1, <2>3, Distributive
  <2>6. Precision * claimableReward'[a] + Precision * n
            = Precision * claimableReward[a] + Precision * AccountReward(a)
    BY <1>7, <2>3, <2>5
  <2>7. Exactly(a) = Precision * claimableReward[a]
                         + stakedAmounts[a] * Ahead(a)
    BY DEF Exactly
  <2>8. Exactly(a)' + Precision * n <= Exactly(a) + stakedAmounts[a] * d
    BY <1>2, <1>3, <1>6, <2>2, <2>4, <2>5, <2>6, <2>7
  <2> QED BY <1>2, <1>3, <2>2, <2>8 DEF d
<1>8. CASE a \notin as
  <2>1. previousCumulatedRewardPerToken'[a] = previousCumulatedRewardPerToken[a]
    BY <1>8, UpdateFacts
  <2>2. Exactly(a)' = Precision * claimableReward[a]
                          + stakedAmounts[a] * (Ahead(a) + d)
    BY <1>1, <1>4, <1>5, <1>8, <2>1
  <2>3. Exactly(a)' = Exactly(a) + stakedAmounts[a] * d
    BY <1>2, <1>3, <1>6, <2>2 DEF Exactly
  <2>4. Precision * n = 0
    BY <1>1, <1>8
  <2>5. Exactly(a)' + Precision * n <= Exactly(a) + stakedAmounts[a] * d
    BY <1>2, <1>3, <2>3, <2>4
  <2> QED BY <1>2, <1>3, <2>3, <2>5 DEF d
<1> QED BY <1>7, <1>8

(* An update of the rewards that pays n to one of the accounts it brings   *)
(* up to date keeps what is owed exactly backed.                           *)
LEMMA UpdateBacks ==
  ASSUME IInv, IInv', StakesAddUp, Backed,
         NEW as \in SUBSET Accounts, UpdateRewards(as),
         NEW payee, NEW n \in Nat, n = 0 \/ payee \in as,
         \A a \in as : claimableReward'[a] + (IF a = payee THEN n ELSE 0)
                           = Claimable(a),
         \A a \in Accounts \ as : /\ claimableReward'[a] = claimableReward[a]
                                  /\ stakedAmounts'[a] = stakedAmounts[a],
         \A t \in Tokens :
            held'[t] - totalDepositSupply'[t]
                = held[t] - totalDepositSupply[t]
                      + (IF t = RewardToken THEN Distributed - n ELSE 0)
  PROVE  Backed'
<1> DEFINE d == NextCumulative - cumulativeRewardPerToken
<1>1. /\ d \in Nat /\ totalSupply * d <= Precision * Distributed
      /\ Precision \in Nat /\ Distributed \in Nat /\ Precision * n \in Nat
      /\ stakedAmounts \in [Accounts -> Nat] /\ totalSupply \in Nat
      /\ IsFiniteSet(Accounts)
  BY SharedOut, DistributedType, ProductNat, TrackerAssumption
  DEF IInv, TypeOK, StakesOK, DistributorOK
<1> HIDE DEF d
<1>2. PICK paid, grown, before, both, after, bound :
          /\ paid = [a \in Accounts |-> IF a = payee THEN Precision * n ELSE 0]
          /\ grown = [a \in Accounts |-> stakedAmounts[a] * d]
          /\ before = ExactlyOwed /\ after = ExactlyOwed'
          /\ both = [a \in Accounts |-> before[a] + grown[a]]
          /\ bound = [a \in Accounts |-> both[a] - paid[a]]
  OBVIOUS
<1>3. ASSUME NEW a \in Accounts
      PROVE  /\ before[a] \in Int /\ after[a] \in Int /\ paid[a] \in Int
             /\ grown[a] = stakedAmounts[a] * d /\ grown[a] \in Int
             /\ both[a] = before[a] + grown[a] /\ both[a] \in Int
             /\ both[a] = bound[a] + paid[a] /\ bound[a] \in Int
             /\ after[a] <= bound[a]
  <2>1. PICK m \in Nat : m = IF a = payee THEN n ELSE 0
    OBVIOUS
  <2>2. /\ a \in as => claimableReward'[a] + m = Claimable(a)
        /\ a \notin as => /\ m = 0 /\ claimableReward'[a] = claimableReward[a]
                          /\ stakedAmounts'[a] = stakedAmounts[a]
    BY <2>1
  <2>3. /\ Exactly(a)' + Precision * m <= Exactly(a) + stakedAmounts[a] * d
        /\ Exactly(a)' \in Int /\ Exactly(a) \in Int /\ Precision * m \in Int
    BY <2>2, ExactUpdate DEF d
  <2>4. stakedAmounts[a] \in Nat /\ stakedAmounts[a] * d \in Nat
    BY <1>1, ProductNat
  <2>5. before[a] = Exactly(a) /\ after[a] = Exactly(a)'
    BY <1>2 DEF ExactlyOwed
  <2>6. paid[a] = Precision * m
    <3>1. Precision * 0 = 0
      BY <1>1
    <3> QED BY <1>2, <2>1, <3>1
  <2>7. /\ grown[a] = stakedAmounts[a] * d /\ both[a] = before[a] + grown[a]
        /\ bound[a] = both[a] - paid[a]
    BY <1>2
  <2> QED BY <2>3, <2>4, <2>5, <2>6, <2>7
<1>4. SumFunctionOnSet(both, Accounts)
          = SumFunctionOnSet(before, Accounts) + SumFunctionOnSet(grown, Accounts)
  <2>1. \A a \in Accounts : /\ before[a] \in Int /\ grown[a] \in Int
                            /\ both[a] = before[a] + grown[a]
    BY <1>3
  <2>2. IsFiniteSet(Accounts)
    BY <1>1
  <2> QED BY <2>1, <2>2, SumAdd
<1>5. SumFunctionOnSet(both, Accounts)
          = SumFunctionOnSet(bound, Accounts) + SumFunctionOnSet(paid, Accounts)
  BY <1>1, <1>3, SumAdd
<1>6. SumFunctionOnSet(grown, Accounts) = totalSupply * d
  <2>1. \A a \in Accounts : /\ stakedAmounts[a] \in Int
                            /\ grown[a] = stakedAmounts[a] * d
    BY <1>1, <1>3
  <2>2. SumFunctionOnSet(grown, Accounts)
            = SumFunctionOnSet(stakedAmounts, Accounts) * d
    BY <1>1, <2>1, SumScale
  <2>3. SumFunctionOnSet(stakedAmounts, Accounts) = totalSupply
    BY <1>1 DEF StakesAddUp, SumFunction
  <2> QED BY <2>2, <2>3
<1>7. SumFunctionOnSet(paid, Accounts) = Precision * n
  <2>1. CASE n = 0
    <3>1. Precision * n = 0
      BY <1>1, <2>1
    <3>2. \A a \in Accounts : paid[a] = 0
      BY <1>2, <3>1
    <3> QED BY <1>1, <3>1, <3>2, SumZero
  <2>2. CASE n # 0
    <3>1. payee \in Accounts
      BY <2>2
    <3>2. \A a \in Accounts : paid[a] = IF a = payee THEN Precision * n ELSE 0
      BY <1>2
    <3>3. Precision * n \in Int
      BY <1>1
    <3> QED BY <1>1, <3>1, <3>2, <3>3, SumOne
  <2> QED BY <2>1, <2>2
<1>8. SumFunctionOnSet(after, Accounts) <= SumFunctionOnSet(bound, Accounts)
  BY <1>1, <1>3, SumMonotone
<1>9. /\ SumFunctionOnSet(before, Accounts) \in Int
      /\ SumFunctionOnSet(bound, Accounts) \in Int
      /\ SumFunctionOnSet(after, Accounts) \in Int
  BY <1>1, <1>3, SumType
<1>10. SumFunctionOnSet(after, Accounts) + Precision * n
           <= SumFunctionOnSet(before, Accounts) + Precision * Distributed
  <2>1. totalSupply * d \in Nat /\ Precision * Distributed \in Nat
    BY <1>1, ProductNat
  <2> QED BY <1>1, <1>4, <1>5, <1>6, <1>7, <1>8, <1>9, <2>1
<1>11. /\ DOMAIN ExactlyOwed = Accounts /\ DOMAIN ExactlyOwed' = Accounts
       /\ SumFunction(ExactlyOwed) = SumFunctionOnSet(before, Accounts)
       /\ SumFunction(ExactlyOwed') = SumFunctionOnSet(after, Accounts)
  <2>1. DOMAIN ExactlyOwed = Accounts /\ DOMAIN ExactlyOwed' = Accounts
    BY DEF ExactlyOwed
  <2> QED BY <1>2, <2>1 DEF SumFunction
<1>12. ASSUME NEW t \in Tokens
       PROVE  (IF t = RewardToken THEN SumFunction(ExactlyOwed') ELSE 0)
                  <= Precision * (held'[t] - totalDepositSupply'[t])
  <2>1. PICK x \in Int : x = held[t] - totalDepositSupply[t]
    BY DEF IInv, TypeOK, StakesOK, DistributorOK
  <2>2. PICK y \in Int : y = held'[t] - totalDepositSupply'[t]
    BY DEF IInv, TypeOK, StakesOK, DistributorOK
  <2>3. (IF t = RewardToken THEN SumFunction(ExactlyOwed) ELSE 0)
            <= Precision * x
    BY <2>1, Zenon DEF Backed
  <2>4. y = x + (IF t = RewardToken THEN Distributed - n ELSE 0)
    BY <2>1, <2>2
  <2>5. CASE t = RewardToken
    <3>1. Precision * y = Precision * x + (Precision * Distributed - Precision * n)
      <4>1. y = x + (Distributed - n) /\ Distributed - n \in Int
        BY <1>1, <2>4, <2>5
      <4>2. Precision * (x + (Distributed - n))
                = Precision * x + Precision * (Distributed - n)
        BY <1>1, <4>1, Distributive
      <4>3. Precision * (Distributed - n)
                = Precision * Distributed - Precision * n
        BY <1>1, Distributive
      <4> QED BY <4>1, <4>2, <4>3
    <3>2. SumFunctionOnSet(before, Accounts) <= Precision * x
      BY <1>11, <2>3, <2>5
    <3>3. Precision * x \in Int /\ Precision * Distributed \in Int
      BY <1>1
    <3>4. SumFunctionOnSet(after, Accounts) <= Precision * y
      BY <1>1, <1>9, <1>10, <3>1, <3>2, <3>3
    <3> QED BY <1>11, <2>2, <2>5, <3>4
  <2>6. CASE t # RewardToken
    <3>1. y = x
      BY <2>4, <2>6
    <3> QED BY <2>2, <2>3, <2>6, <3>1
  <2> QED BY <2>5, <2>6
<1> QED BY <1>12 DEF Backed

(* A change of a stake moves as much between the tracker and the account.  *)
LEMMA RestakeBacks ==
  ASSUME IInv, IInv', StakesAddUp, Backed,
         NEW account \in Accounts, NEW token \in Tokens,
         NEW amount \in Int, Restake(account, token, amount)
  PROVE  Backed'
<1>1. /\ UpdateRewards({account}) /\ {account} \in SUBSET Accounts
      /\ claimableReward' = Credited(account, amount)
      /\ stakedAmounts' = [stakedAmounts EXCEPT ![account] = @ + amount]
      /\ totalDepositSupply' = [totalDepositSupply EXCEPT ![token] = @ + amount]
      /\ held' = Holdings(token, amount)
  BY DEF Restake
<1>2. /\ claimableReward \in [Accounts -> Nat]
      /\ stakedAmounts \in [Accounts -> Nat]
      /\ totalDepositSupply \in [Tokens -> Nat] /\ held \in [Tokens -> Nat]
      /\ Distributed \in Nat /\ Claimable(account) \in Nat
  BY DistributedType, RewardType
  DEF IInv, TypeOK, StakesOK, RewardsOK, DistributorOK
<1>3. \A a \in {account} : claimableReward'[a] + (IF a = account THEN 0 ELSE 0)
                               = Claimable(a)
  BY <1>1, <1>2 DEF Credited
<1>4. \A a \in Accounts \ {account} :
          /\ claimableReward'[a] = claimableReward[a]
          /\ stakedAmounts'[a] = stakedAmounts[a]
  BY <1>1, <1>2 DEF Credited
<1>5. \A t \in Tokens :
          held'[t] - totalDepositSupply'[t]
              = held[t] - totalDepositSupply[t]
                    + (IF t = RewardToken THEN Distributed - 0 ELSE 0)
  BY <1>1, <1>2 DEF Holdings
<1> QED BY <1>1, <1>3, <1>4, <1>5, UpdateBacks

(* A claim pays what it takes off the account.                             *)
LEMMA ClaimBacks ==
  ASSUME IInv, IInv', StakesAddUp, Backed,
         NEW caller, NEW account \in Accounts, Claim(caller, account)
  PROVE  Backed'
<1>1. PICK n \in Nat : n = Claimable(account)
  BY RewardType
<1>2. /\ UpdateRewards({account}) /\ {account} \in SUBSET Accounts
      /\ claimableReward' = [claimableReward EXCEPT ![account] = 0]
      /\ held' = Holdings(RewardToken, - n) /\ UNCHANGED stakeVars
  BY <1>1 DEF Claim
<1>3. /\ claimableReward \in [Accounts -> Nat]
      /\ totalDepositSupply \in [Tokens -> Nat] /\ held \in [Tokens -> Nat]
      /\ Distributed \in Nat
  BY DistributedType DEF IInv, TypeOK, StakesOK, RewardsOK, DistributorOK
<1>4. \A a \in {account} : claimableReward'[a] + (IF a = account THEN n ELSE 0)
                               = Claimable(a)
  BY <1>1, <1>2, <1>3
<1>5. \A a \in Accounts \ {account} :
          /\ claimableReward'[a] = claimableReward[a]
          /\ stakedAmounts'[a] = stakedAmounts[a]
  BY <1>2, <1>3 DEF stakeVars
<1>6. \A t \in Tokens :
          held'[t] - totalDepositSupply'[t]
              = held[t] - totalDepositSupply[t]
                    + (IF t = RewardToken THEN Distributed - n ELSE 0)
  BY <1>2, <1>3 DEF Holdings, stakeVars
<1>7. account \in {account}
  OBVIOUS
<1> QED BY <1>2, <1>4, <1>5, <1>6, <1>7, UpdateBacks

(* An update on nobody's behalf takes in what has become due.              *)
LEMMA RefreshBacks ==
  ASSUME IInv, IInv', StakesAddUp, Backed, UpdateRewards({}),
         held' = Holdings(RewardToken, 0),
         UNCHANGED <<stakeVars, claimableReward>>
  PROVE  Backed'
<1>1. /\ claimableReward' = claimableReward /\ stakedAmounts' = stakedAmounts
      /\ totalDepositSupply' = totalDepositSupply /\ {} \in SUBSET Accounts
  BY DEF stakeVars
<1>2. /\ totalDepositSupply \in [Tokens -> Nat] /\ held \in [Tokens -> Nat]
      /\ Distributed \in Nat
  BY DistributedType DEF IInv, TypeOK, StakesOK, DistributorOK
<1>3. \A t \in Tokens :
          held'[t] - totalDepositSupply'[t]
              = held[t] - totalDepositSupply[t]
                    + (IF t = RewardToken THEN Distributed - 0 ELSE 0)
  BY <1>1, <1>2 DEF Holdings
<1>4. \A a \in Accounts \ {} : /\ claimableReward'[a] = claimableReward[a]
                               /\ stakedAmounts'[a] = stakedAmounts[a]
  BY <1>1
<1>5. \A a \in {} : claimableReward'[a] + (IF a = 0 THEN 0 ELSE 0) = Claimable(a)
  OBVIOUS
<1> QED BY <1>1, <1>3, <1>4, <1>5, UpdateBacks

(* The backing depends on stakes, rewards and holdings only.               *)
LEMMA BackingUntouched ==
  ASSUME Backed,
         UNCHANGED <<stakedAmounts, totalDepositSupply, claimableReward,
                     previousCumulatedRewardPerToken, cumulativeRewardPerToken,
                     held>>
  PROVE  Backed'
<1>1. \A a \in Accounts : Exactly(a)' = Exactly(a)
  BY DEF Exactly, Ahead
<1>2. ExactlyOwed' = ExactlyOwed
  BY <1>1 DEF ExactlyOwed
<1> QED BY <1>2 DEF Backed

(* A step that touches no stake, reward or holding keeps the books.        *)
LEMMA OthersKeepBooks ==
  ASSUME UNCHANGED <<stakeVars, rewardVars, cumulativeRewardPerToken, held>>
  PROVE  (StakesAddUp => StakesAddUp') /\ (Backed => Backed')
BY DEF stakeVars, rewardVars, StakesAddUp, Backed, ExactlyOwed, Exactly, Ahead

(* Every step of the tracker keeps its books and its backing.              *)
LEMMA LedgersInductive ==
  ASSUME IInv, [Next]_vars, StakesAddUp, Backed
  PROVE  StakesAddUp' /\ Backed'
<1>0. IInv' /\ TypeOK /\ TypeOK'
  BY Inductive DEF IInv
<1>1. ASSUME NEW account \in Accounts, NEW token \in Tokens, NEW n \in Int,
             Restake(account, token, n)
      PROVE  StakesAddUp' /\ Backed'
  BY <1>0, <1>1, RestakeAddsUp, RestakeBacks
<1>2. ASSUME NEW caller \in Callers, NEW account \in Accounts,
             NEW token \in Tokens, NEW n \in Amounts,
             Stake(caller, account, token, n) \/ Unstake(caller, account, token, n)
      PROVE  StakesAddUp' /\ Backed'
  <2>1. n \in Int /\ - n \in Int
    BY TrackerAssumption
  <2> QED BY <1>1, <1>2, <2>1 DEF Stake, Unstake
<1>3. ASSUME NEW caller \in Callers, NEW account \in Accounts,
             Claim(caller, account)
      PROVE  StakesAddUp' /\ Backed'
  <2>1. StakesAddUp'
    BY <1>3 DEF Claim, stakeVars, StakesAddUp
  <2> QED BY <1>0, <1>3, <2>1, ClaimBacks
<1>4. ASSUME NEW caller \in Callers, NEW account \in Accounts,
             NEW other \in Accounts, NEW n \in Amounts,
             Transfer(caller, account, other, n)
      PROVE  StakesAddUp' /\ Backed'
  <2>1. n \in Int /\ balances \in [Accounts -> Int] /\ other # account
    BY <1>0, <1>4, BookTypes, TrackerAssumption DEF Transfer
  <2>2. /\ balances' = [balances EXCEPT ![account] = @ - n, ![other] = @ + n]
        /\ UNCHANGED <<depositBalances, totalDepositSupply, stakedAmounts,
                       totalSupply>>
    BY <1>4 DEF Transfer
  <2>3. Shifted(Accounts, balances, balances', other, account, n)
    <3>1. balances' \in [Accounts -> Int]
      BY <2>1, <2>2
    <3>2. \A a \in Accounts : balances'[a] = balances[a]
              + (IF a = other THEN n ELSE 0) - (IF a = account THEN n ELSE 0)
      BY <2>1, <2>2
    <3> QED BY <2>1, <3>1, <3>2 DEF Shifted, Moves
  <2>4. StakesAddUp'
    BY <2>2, <2>3, SharesMoveAddsUp
  <2>5. Backed'
    <3>1. UNCHANGED <<stakedAmounts, totalDepositSupply, claimableReward,
                      previousCumulatedRewardPerToken, cumulativeRewardPerToken,
                      held>>
      BY <1>4 DEF Transfer, rewardVars
    <3> QED BY <3>1, BackingUntouched
  <2> QED BY <2>4, <2>5
<1>5. ASSUME Refresh \/ \E n \in Rates : SetRate(n)
      PROVE  StakesAddUp' /\ Backed'
  <2>1. /\ UpdateRewards({}) /\ held' = Holdings(RewardToken, 0)
        /\ UNCHANGED <<stakeVars, claimableReward>>
    BY <1>5 DEF Refresh, SetRate
  <2>2. StakesAddUp'
    BY <2>1 DEF stakeVars, StakesAddUp
  <2> QED BY <1>0, <2>1, <2>2, RefreshBacks
<1>6. CASE UNCHANGED <<stakeVars, rewardVars, cumulativeRewardPerToken, held>>
  BY <1>6, OthersKeepBooks
<1>7. CASE Staking
  BY <1>2, <1>3, <1>4, <1>7, Zenon DEF Staking
<1>8. CASE Administration
  BY <1>5, <1>6, <1>8
  DEF Administration, SetDepositToken, SetPrivateModes,
      UpdateLastDistributionTime, WithdrawFunds
<1>9. CASE Refresh
  BY <1>5, <1>9
<1>10. CASE Tick \/ UNCHANGED vars
  BY <1>6, <1>10 DEF Tick, vars
<1> QED BY <1>7, <1>8, <1>9, <1>10 DEF Next

(* Nothing is staked or owed at first.                                     *)
LEMMA LedgersInitially == Init => StakesAddUp /\ Backed
<1> SUFFICES ASSUME Init PROVE StakesAddUp /\ Backed
  OBVIOUS
<1>1. \A a \in Accounts : SumFunction(depositBalances[a]) = 0
  <2> TAKE a \in Accounts
  <2>1. depositBalances[a] = [t \in Tokens |-> 0]
    BY DEF Init
  <2>2. SumFunctionOnSet(depositBalances[a], Tokens) = 0
    BY <2>1, TokensFinite, SumZero
  <2> QED BY <2>1, <2>2 DEF SumFunction
<1>2. PICK zero : zero = [a \in Accounts |-> 0]
  OBVIOUS
<1>3. SumFunction(zero) = 0
  <2>1. SumFunctionOnSet(zero, Accounts) = 0
    BY <1>2, TrackerAssumption, SumZero
  <2> QED BY <1>2, <2>1 DEF SumFunction
<1>4. \A t \in Tokens : [a \in Accounts |-> depositBalances[a][t]] = zero
  <2> TAKE t \in Tokens
  <2>1. \A a \in Accounts : depositBalances[a][t] = 0
    BY DEF Init
  <2> QED BY <1>2, <2>1
<1>5. stakedAmounts = zero /\ balances = zero
  BY <1>2 DEF Init
<1>6. StakesAddUp
  BY <1>1, <1>2, <1>3, <1>4, <1>5 DEF StakesAddUp, Init
<1>7. ExactlyOwed = zero
  <2>1. \A a \in Accounts : Exactly(a) = 0
    <3>1. 0 - 0 = 0 /\ 0 * 0 = 0 /\ Precision * 0 = 0 /\ 0 + 0 = 0
      BY TrackerAssumption
    <3> QED BY <3>1 DEF Init, Exactly, Ahead
  <2> QED BY <1>2, <2>1 DEF ExactlyOwed
<1>8. \A t \in Tokens : Precision * (held[t] - totalDepositSupply[t]) = 0
  <2>1. Precision * (0 - 0) = 0
    BY TrackerAssumption
  <2> QED BY <2>1 DEF Init
<1>9. Backed
  BY <1>3, <1>7, <1>8 DEF Backed
<1> QED BY <1>6, <1>9

(* The supply that rewards are divided by is always the sum of the stakes  *)
(* that share in them, and every other book agrees with it.                *)
THEOREM StakesStayInStep == Spec => []StakesAddUp
<1>1. Init => IInv /\ StakesAddUp /\ Backed
  BY Initially, LedgersInitially
<1>2. IInv /\ StakesAddUp /\ Backed /\ [Next]_vars
          => (IInv /\ StakesAddUp /\ Backed)'
  BY Inductive, LedgersInductive
<1> QED BY <1>1, <1>2, PTL DEF Spec

(* The tracker can pay every stake and every reward at any time, also when *)
(* stakes and rewards are the same token: however often rewards are        *)
(* divided and rounded, the roundings never add up against it.             *)
THEOREM TrackerStaysSolvent == Spec => []Solvent
<1>1. Init => IInv /\ StakesAddUp /\ Backed
  BY Initially, LedgersInitially
<1>2. IInv /\ StakesAddUp /\ Backed /\ [Next]_vars
          => (IInv /\ StakesAddUp /\ Backed)'
  BY Inductive, LedgersInductive
<1>3. IInv /\ Backed => Solvent
  BY BackedIsSolvent
<1> QED BY <1>1, <1>2, <1>3, PTL DEF Spec

-----------------------------------------------------------------------------
(* The vester.                                                             *)

RightsOK ==
    /\ transferredAverageStakedAmounts \in [Users -> Nat]
    /\ transferredCumulativeRewards \in [Users -> Nat]
    /\ cumulativeRewardDeductions \in [Users -> Nat]
    /\ bonusRewards \in [Users -> Nat]

VestingOK ==
    /\ vestingBalances \in [Users -> Nat]
    /\ pairAmounts \in [Users -> Nat]
    /\ cumulativeClaimAmounts \in [Users -> Nat]
    /\ claimedAmounts \in [Users -> Nat]
    /\ lastVestingTimes \in [Users -> Nat]
    /\ \A a \in Users : lastVestingTimes[a] <= now
    /\ entrusted \in [Users -> Int]

(* No account has given away more than it ever earned, so that its rewards *)
(* can be handed on: transferStakeValues never reverts.                    *)
DeductionsCovered ==
    \A a \in Users : cumulativeRewardDeductions[a] <= cumulativeRewards[a]

(* The inductive invariant: that of the tracker and the vester's own.      *)
VInv == /\ IInv /\ RightsOK /\ VestingOK
        /\ TokensKept /\ ReserveStaked /\ DeductionsCovered

(* The users are accounts of the tracker.                                  *)
LEMMA UsersAreAccounts == ASSUME NEW a \in Users
                          PROVE  a \in Accounts /\ a # vester
  BY DEF Users

-----------------------------------------------------------------------------
(* What vests next is a part of what is still vesting.                     *)
LEMMA NextClaimableType ==
  ASSUME VestingOK, TypeOK, NEW a \in Users
  PROVE  /\ NextClaimable(a) \in 0..vestingBalances[a]
         /\ TotalVested(a) \in Nat
<1>1. /\ vestingBalances[a] \in Nat /\ cumulativeClaimAmounts[a] \in Nat
      /\ now - lastVestingTimes[a] \in Nat
  BY DEF VestingOK, TypeOK, DistributorOK
<1>2. TotalVested(a) \in Nat
  BY <1>1 DEF TotalVested
<1>3. TotalVested(a) * (now - lastVestingTimes[a]) \in Nat
  BY <1>1, <1>2, ProductNat
<1>4. VestingDuration \in Positive
  BY VesterAssumption DEF Positive
<1>5. (TotalVested(a) * (now - lastVestingTimes[a])) \div VestingDuration \in Nat
  BY <1>3, <1>4, QuotientNat
<1> QED BY <1>1, <1>2, <1>5 DEF NextClaimable

(* A weighted average of amounts is an amount.                             *)
LEMMA CombinedType ==
  ASSUME RightsOK, NEW average \in Nat, NEW cumulative \in Nat, NEW a \in Users
  PROVE  Combined(average, cumulative, a) \in Nat
<1> DEFINE transferred == transferredCumulativeRewards[a]
           total == cumulative + transferred
<1>1. transferred \in Nat /\ transferredAverageStakedAmounts[a] \in Nat
  BY DEF RightsOK
<1>2. CASE total = 0
  BY <1>2 DEF Combined
<1>3. CASE total # 0
  <2>1. total \in Positive
    BY <1>1, <1>3 DEF Positive
  <2>2. /\ average * cumulative \in Nat
        /\ transferredAverageStakedAmounts[a] * transferred \in Nat
    BY <1>1, ProductNat
  <2>3. /\ (average * cumulative) \div total \in Nat
        /\ (transferredAverageStakedAmounts[a] * transferred) \div total \in Nat
    BY <2>1, <2>2, QuotientNat
  <2>4. Combined(average, cumulative, a)
            = (average * cumulative) \div total
              + (transferredAverageStakedAmounts[a] * transferred) \div total
    BY <1>3 DEF Combined
  <2> HIDE DEF total, transferred
  <2> QED BY <2>3, <2>4
<1> QED BY <1>2, <1>3

(* The shares a vesting account has to reserve are an amount.              *)
LEMMA PairAmountType ==
  ASSUME RightsOK, TypeOK, NEW a \in Users, NEW n \in Nat
  PROVE  PairAmount(a, n) \in Nat
<1>1. averageStakedAmounts[a] \in Nat /\ cumulativeRewards[a] \in Nat
  BY UsersAreAccounts DEF TypeOK, RewardsOK
<1>2. CombinedAverage(a) \in Nat
  BY <1>1, CombinedType DEF CombinedAverage
<1>3. MaxVestable(a) \in Nat
  BY <1>1 DEF MaxVestable, RightsOK
<1>4. n * CombinedAverage(a) \in Nat
  BY <1>2, ProductNat
<1>5. CASE MaxVestable(a) = 0
  BY <1>5 DEF PairAmount
<1>6. CASE MaxVestable(a) # 0
  <2>1. MaxVestable(a) \in Positive
    BY <1>3, <1>6 DEF Positive
  <2>2. (n * CombinedAverage(a)) \div MaxVestable(a) \in Nat
    BY <1>4, <2>1, QuotientNat
  <2> QED BY <1>6, <2>2 DEF PairAmount
<1> QED BY <1>5, <1>6

(* Rewards that were earned stay earned.                                   *)
LEMMA CumulativeRewardsGrow ==
  ASSUME IInv, NEW as \in SUBSET Accounts, UpdateRewards(as), NEW a \in Accounts
  PROVE  cumulativeRewards[a] <= cumulativeRewards'[a]
<1>1. cumulativeRewards[a] \in Nat /\ AccountReward(a) \in Nat
  BY RewardType DEF IInv, TypeOK, RewardsOK
<1>2. cumulativeRewards'[a] = IF a \in Averaged(as) THEN NextCumulativeReward(a)
                              ELSE cumulativeRewards[a]
  BY DEF UpdateRewards
<1>3. NextCumulativeReward(a) = cumulativeRewards[a] + AccountReward(a)
  BY DEF NextCumulativeReward
<1>4. CASE a \in Averaged(as)
  BY <1>1, <1>2, <1>3, <1>4
<1>5. CASE a \notin Averaged(as)
  BY <1>1, <1>2, <1>5
<1> QED BY <1>4, <1>5

-----------------------------------------------------------------------------
(* The tracker's invariant does not depend on what others keep.            *)
LEMMA TrackerUntouched == ASSUME IInv, UNCHANGED trackerVars PROVE IInv'
<1>1. [Next]_vars
  BY DEF trackerVars
<1> QED BY <1>1, Inductive

(* Moving the tracker's own token between its holders keeps the invariant. *)
LEMMA SharesMove ==
  ASSUME IInv, balances' \in [Accounts -> Nat],
         UNCHANGED <<depositBalances, totalDepositSupply, stakedAmounts,
                     totalSupply, peakStake, rewardVars, distributorVars,
                     configVars, cumulativeRewardPerToken, held, now>>
  PROVE  IInv'
  BY DEF rewardVars, distributorVars, configVars, IInv, TypeOK, StakesOK,
         RewardsOK, DistributorOK, NobodyAhead, AverageComputable
-----------------------------------------------------------------------------
(* The vester's own operations.                                            *)

(* A deposit reserves what it needs and keeps the account's tokens.        *)
LEMMA DepositStep ==
  ASSUME VInv, NEW a \in Users, NEW amount \in Nat, DepositToVest(a, amount)
  PROVE  VInv'
<1> DEFINE v == NextClaimable(a)
           balance == vestingBalances[a] - v + amount
           needed == PairAmount(a, balance)
           reserve == IF needed > pairAmounts[a] THEN needed - pairAmounts[a]
                      ELSE 0
<1>1. /\ amount > 0 /\ balances[a] >= reserve
      /\ lastVestingTimes' = [lastVestingTimes EXCEPT ![a] = now]
      /\ vestingBalances' = [vestingBalances EXCEPT ![a] = balance]
      /\ cumulativeClaimAmounts' = [cumulativeClaimAmounts EXCEPT ![a] = @ + v]
      /\ entrusted' = [entrusted EXCEPT ![a] = @ + amount]
      /\ pairAmounts' = [pairAmounts EXCEPT ![a] = @ + reserve]
      /\ balances' = [balances EXCEPT ![a] = @ - reserve, ![vester] = @ + reserve]
      /\ claimedAmounts' = claimedAmounts
      /\ UNCHANGED <<depositBalances, totalDepositSupply, stakedAmounts,
                     totalSupply, peakStake, rewardVars, distributorVars,
                     configVars, cumulativeRewardPerToken, held, now, rightVars>>
  BY DEF DepositToVest
<1>2. /\ IInv /\ RightsOK /\ VestingOK /\ TokensKept /\ ReserveStaked
      /\ DeductionsCovered /\ TypeOK
  BY DEF VInv, IInv
<1>3. v \in Nat /\ v <= vestingBalances[a] /\ TotalVested(a) \in Nat
  BY <1>2, NextClaimableType DEF VestingOK
<1>4. balance \in Nat
  BY <1>2, <1>3 DEF VestingOK
<1>5. needed \in Nat
  BY <1>2, <1>4, PairAmountType
<1> HIDE DEF v, balance, needed
<1>6. reserve \in Nat
  BY <1>2, <1>5 DEF VestingOK
<1> HIDE DEF reserve
<1>7. a \in Accounts /\ a # vester /\ vester \in Accounts
  BY UsersAreAccounts, VesterAssumption
<1>8. balances \in [Accounts -> Nat] /\ stakedAmounts \in [Accounts -> Nat]
  BY <1>2 DEF TypeOK, StakesOK
<1>9. balances' \in [Accounts -> Nat]
  BY <1>1, <1>6, <1>7, <1>8
<1>10. IInv'
  BY <1>1, <1>2, <1>9, SharesMove
<1>11. RightsOK'
  BY <1>1, <1>2 DEF RightsOK, rightVars
<1>12. VestingOK'
  <2>1. now' = now /\ now \in Nat
    BY <1>1, <1>2 DEF TypeOK, DistributorOK
  <2> QED BY <1>1, <1>2, <1>3, <1>4, <1>6, <2>1 DEF VestingOK
<1>13. TokensKept'
  BY <1>1, <1>2, <1>3 DEF TokensKept, VestingOK, TotalVested, balance
<1>14. ReserveStaked'
  <2> SUFFICES ASSUME NEW b \in Users
               PROVE  /\ stakedAmounts'[b] = balances'[b] + pairAmounts'[b]
                      /\ pairAmounts'[b] > 0 => TotalVested(b)' > 0
    BY DEF ReserveStaked
  <2>1. b \in Accounts /\ b # vester /\ stakedAmounts' = stakedAmounts
    BY <1>1, UsersAreAccounts
  <2>2. stakedAmounts[b] = balances[b] + pairAmounts[b]
    BY <1>2 DEF ReserveStaked
  <2>3. stakedAmounts'[b] = balances'[b] + pairAmounts'[b]
    BY <1>1, <1>2, <1>6, <1>8, <2>1, <2>2 DEF VestingOK
  <2>4. pairAmounts'[b] > 0 => TotalVested(b)' > 0
    BY <1>1, <1>2, <1>3 DEF ReserveStaked, VestingOK, TotalVested, balance
  <2> QED BY <2>3, <2>4
<1>15. DeductionsCovered'
  BY <1>1, <1>2 DEF DeductionsCovered, rightVars, rewardVars
<1> QED BY <1>10, <1>11, <1>12, <1>13, <1>14, <1>15 DEF VInv

(* A claim pays what has vested, and no more.                              *)
LEMMA ClaimVestedStep ==
  ASSUME VInv, NEW a \in Users, ClaimVested(a)
  PROVE  VInv'
<1>1. /\ IInv /\ RightsOK /\ VestingOK /\ TokensKept /\ ReserveStaked
      /\ DeductionsCovered /\ TypeOK
  BY DEF VInv, IInv
<1>2. /\ NextClaimable(a) \in Nat /\ NextClaimable(a) <= vestingBalances[a]
  BY <1>1, NextClaimableType DEF VestingOK
<1>3. UNCHANGED <<vars, pairAmounts, rightVars>>
  BY DEF ClaimVested, trackerVars
<1>4. IInv'
  BY <1>1, <1>3, TrackerUntouched DEF trackerVars
<1>5. RightsOK' /\ DeductionsCovered'
  BY <1>1, <1>3 DEF RightsOK, DeductionsCovered, rightVars, vars, rewardVars
<1>6. now' = now /\ now \in Nat
  BY <1>1, <1>3 DEF vars, TypeOK, DistributorOK
<1>7. VestingOK' /\ TokensKept'
  BY <1>1, <1>2, <1>3, <1>6
  DEF ClaimVested, ClaimableVested, VestingOK, TokensKept, TotalVested
<1>8. ReserveStaked'
  <2>1. stakedAmounts' = stakedAmounts /\ balances' = balances
    BY <1>3 DEF vars, stakeVars
  <2>2. \A b \in Users : TotalVested(b)' = TotalVested(b)
    BY <1>1, <1>2 DEF ClaimVested, VestingOK, TotalVested
  <2> QED BY <1>1, <1>3, <2>1, <2>2 DEF ReserveStaked
<1> QED BY <1>4, <1>5, <1>7, <1>8 DEF VInv

(* A withdrawal leaves the account with nothing in the vester.             *)
LEMMA WithdrawStep ==
  ASSUME VInv, NEW a \in Users, Withdraw(a)
  PROVE  VInv'
<1>1. /\ IInv /\ RightsOK /\ VestingOK /\ TokensKept /\ ReserveStaked
      /\ DeductionsCovered /\ TypeOK
  BY DEF VInv, IInv
<1>2. /\ NextClaimable(a) \in Nat /\ NextClaimable(a) <= vestingBalances[a]
  BY <1>1, NextClaimableType DEF VestingOK
<1>3. /\ balances[vester] >= pairAmounts[a]
      /\ balances' = [balances EXCEPT ![a] = @ + pairAmounts[a],
                                      ![vester] = @ - pairAmounts[a]]
      /\ pairAmounts' = [pairAmounts EXCEPT ![a] = 0]
      /\ UNCHANGED <<depositBalances, totalDepositSupply, stakedAmounts,
                     totalSupply, peakStake, rewardVars, distributorVars,
                     configVars, cumulativeRewardPerToken, held, now, rightVars>>
  BY DEF Withdraw
<1>4. a \in Accounts /\ a # vester /\ vester \in Accounts
  BY UsersAreAccounts, VesterAssumption
<1>5. balances \in [Accounts -> Nat] /\ stakedAmounts \in [Accounts -> Nat]
  BY <1>1 DEF TypeOK, StakesOK
<1>6. balances' \in [Accounts -> Nat]
  BY <1>1, <1>3, <1>4, <1>5 DEF VestingOK
<1>7. IInv'
  BY <1>1, <1>3, <1>6, SharesMove
<1>8. RightsOK' /\ DeductionsCovered'
  BY <1>1, <1>3 DEF RightsOK, DeductionsCovered, rightVars, rewardVars
<1>9. now' = now /\ now \in Nat
  BY <1>1, <1>3 DEF TypeOK, DistributorOK
<1>10. VestingOK' /\ TokensKept'
  BY <1>1, <1>2, <1>9
  DEF Withdraw, ClaimableVested, VestingOK, TokensKept, TotalVested
<1>11. ReserveStaked'
  <2> SUFFICES ASSUME NEW b \in Users
               PROVE  /\ stakedAmounts'[b] = balances'[b] + pairAmounts'[b]
                      /\ pairAmounts'[b] > 0 => TotalVested(b)' > 0
    BY DEF ReserveStaked
  <2>1. b \in Accounts /\ b # vester
    BY UsersAreAccounts
  <2>2. stakedAmounts[b] = balances[b] + pairAmounts[b]
    BY <1>1 DEF ReserveStaked
  <2>3. stakedAmounts'[b] = balances'[b] + pairAmounts'[b]
    BY <1>1, <1>3, <1>4, <1>5, <2>1, <2>2 DEF VestingOK
  <2>4. pairAmounts'[b] > 0 => TotalVested(b)' > 0
    BY <1>1 DEF Withdraw, ReserveStaked, VestingOK, TotalVested
  <2> QED BY <2>3, <2>4
<1> QED BY <1>7, <1>8, <1>10, <1>11 DEF VInv

-----------------------------------------------------------------------------
(* The tracker's own calls, and the router's.                              *)

(* What the tracker does for the router leaves reserves staked and vested  *)
(* tokens alone.                                                           *)
LEMMA TrackerStepKeeps ==
  ASSUME VInv, [Next]_vars, UNCHANGED <<vestingVars, rightVars>>,
         now <= now',
         \A a \in Users : stakedAmounts'[a] - stakedAmounts[a]
                              = balances'[a] - balances[a],
         \A a \in Users : cumulativeRewards[a] <= cumulativeRewards'[a]
  PROVE  VInv'
<1>1. IInv /\ IInv' /\ RightsOK /\ VestingOK /\ TokensKept /\ ReserveStaked
  BY Inductive DEF VInv
<1>2. RightsOK' /\ TokensKept'
  BY <1>1 DEF RightsOK, TokensKept, TotalVested, rightVars, vestingVars
<1>3. VestingOK'
  <2>1. now \in Nat /\ now' \in Nat
    BY <1>1 DEF IInv, TypeOK, DistributorOK
  <2> QED BY <1>1, <2>1 DEF VestingOK, vestingVars
<1>4. ASSUME NEW a \in Users
      PROVE  /\ stakedAmounts[a] \in Nat /\ stakedAmounts'[a] \in Nat
             /\ balances[a] \in Nat /\ balances'[a] \in Nat
             /\ cumulativeRewards[a] \in Nat /\ cumulativeRewards'[a] \in Nat
  BY <1>1, UsersAreAccounts DEF IInv, TypeOK, StakesOK, RewardsOK
<1>5. ReserveStaked'
  <2> SUFFICES ASSUME NEW a \in Users
               PROVE  /\ stakedAmounts'[a] = balances'[a] + pairAmounts'[a]
                      /\ pairAmounts'[a] > 0 => TotalVested(a)' > 0
    BY DEF ReserveStaked
  <2>1. /\ stakedAmounts[a] = balances[a] + pairAmounts[a]
        /\ pairAmounts[a] > 0 => TotalVested(a) > 0
        /\ pairAmounts[a] \in Nat
    BY <1>1 DEF ReserveStaked, VestingOK
  <2>2. pairAmounts' = pairAmounts /\ TotalVested(a)' = TotalVested(a)
    BY DEF vestingVars, TotalVested
  <2>3. stakedAmounts'[a] - stakedAmounts[a] = balances'[a] - balances[a]
    OBVIOUS
  <2> QED BY <1>4, <2>1, <2>2, <2>3
<1>6. DeductionsCovered'
  BY <1>1, <1>4 DEF VInv, DeductionsCovered, RightsOK, rightVars
<1> QED BY <1>1, <1>2, <1>3, <1>5, <1>6 DEF VInv

(* A stake grows and shrinks together with the shares in hand.             *)
LEMMA RestakeKeeps ==
  ASSUME VInv, NEW account \in Accounts, NEW token \in Tokens,
         NEW amount \in Int, Restake(account, token, amount), [Next]_vars,
         UNCHANGED accountVars
  PROVE  VInv'
<1>1. IInv /\ TypeOK
  BY DEF VInv, IInv
<1>2. /\ stakedAmounts \in [Accounts -> Nat] /\ balances \in [Accounts -> Nat]
      /\ now \in Nat
  BY <1>1 DEF TypeOK, StakesOK, DistributorOK
<1>3. /\ stakedAmounts' = [stakedAmounts EXCEPT ![account] = @ + amount]
      /\ balances' = [balances EXCEPT ![account] = @ + amount]
      /\ now' = now /\ UpdateRewards({account})
  BY DEF Restake
<1>4. ASSUME NEW a \in Users
      PROVE  /\ stakedAmounts'[a] - stakedAmounts[a] = balances'[a] - balances[a]
             /\ cumulativeRewards[a] <= cumulativeRewards'[a]
  <2>1. a \in Accounts /\ {account} \in SUBSET Accounts
    BY UsersAreAccounts
  <2> QED BY <1>1, <1>2, <1>3, <2>1, CumulativeRewardsGrow
<1> QED BY <1>2, <1>3, <1>4, TrackerStepKeeps DEF accountVars

(* A step of the tracker that moves no stake.                              *)
LEMMA UpdateKeeps ==
  ASSUME VInv, NEW as \in SUBSET Accounts, UpdateRewards(as), [Next]_vars,
         UNCHANGED <<stakeVars, now, vestingVars, rightVars>>
  PROVE  VInv'
<1>1. IInv /\ TypeOK
  BY DEF VInv, IInv
<1>2. ASSUME NEW a \in Users
      PROVE  /\ stakedAmounts[a] \in Nat /\ balances[a] \in Nat
             /\ cumulativeRewards[a] <= cumulativeRewards'[a]
  BY <1>1, UsersAreAccounts, CumulativeRewardsGrow DEF TypeOK, StakesOK
<1>3. now \in Nat /\ now' = now
  BY <1>1 DEF TypeOK, DistributorOK
<1> QED BY <1>2, <1>3, TrackerStepKeeps DEF stakeVars

LEMMA TrackerSteps == ASSUME VInv, TrackerStep PROVE VInv'
<1>1. IInv /\ TypeOK /\ rewardRouter \in Callers
  BY VesterAssumption DEF VInv, IInv, Callers
<1>2. UNCHANGED accountVars /\ UNCHANGED <<vestingVars, rightVars>>
  BY DEF TrackerStep, accountVars
<1>3. ASSUME NEW a \in Users, NEW token \in DepositTokens, NEW n \in Amounts,
             \/ Stake(rewardRouter, a, token, n)
             \/ Unstake(rewardRouter, a, token, n)
      PROVE  VInv'
  <2>1. a \in Accounts /\ token \in Tokens /\ n \in Int /\ - n \in Int
    BY UsersAreAccounts, TrackerAssumption DEF Tokens
  <2>2. Next
    BY <1>1, <1>3, <2>1 DEF Next, Staking
  <2>3. Restake(a, token, n) \/ Restake(a, token, - n)
    BY <1>3 DEF Stake, Unstake
  <2> QED BY <1>2, <2>1, <2>2, <2>3, RestakeKeeps
<1>4. CASE Refresh
  <2>1. Next /\ {} \in SUBSET Accounts
    BY <1>4 DEF Next
  <2>2. UpdateRewards({}) /\ UNCHANGED <<stakeVars, now>>
    BY <1>4 DEF Refresh
  <2> QED BY <1>2, <2>1, <2>2, UpdateKeeps
<1>5. ASSUME NEW n \in Rates, SetRate(n) PROVE VInv'
  <2>1. Next /\ {} \in SUBSET Accounts
    BY <1>5 DEF Next, Administration
  <2>2. UpdateRewards({}) /\ UNCHANGED <<stakeVars, now>>
    BY <1>5 DEF SetRate
  <2> QED BY <1>2, <2>1, <2>2, UpdateKeeps
<1>6. CASE UpdateLastDistributionTime \/ Tick
  <2>1. Next
    BY <1>6 DEF Next, Administration
  <2>2. UNCHANGED <<stakeVars, rewardVars>> /\ now \in Nat /\ now <= now'
    BY <1>1, <1>6
    DEF UpdateLastDistributionTime, Tick, TypeOK, DistributorOK
  <2>3. ASSUME NEW a \in Users
        PROVE  /\ stakedAmounts[a] \in Nat /\ balances[a] \in Nat
               /\ cumulativeRewards[a] \in Nat
    BY <1>1, UsersAreAccounts DEF TypeOK, StakesOK, RewardsOK
  <2> QED BY <1>2, <2>1, <2>2, <2>3, TrackerStepKeeps DEF stakeVars, rewardVars
<1> QED BY <1>3, <1>4, <1>5, <1>6 DEF TrackerStep

(* A claim of rewards touches neither stakes nor vesting.                  *)
LEMMA ClaimRewardsStep ==
  ASSUME VInv, NEW a \in Users, ClaimRewards(a)
  PROVE  VInv'
<1>1. a \in Accounts /\ {a} \in SUBSET Accounts /\ rewardRouter \in Callers
  BY UsersAreAccounts, VesterAssumption DEF Callers
<1>2. Claim(rewardRouter, a) /\ UNCHANGED <<vestingVars, rightVars>>
  BY DEF ClaimRewards
<1>3. Next
  BY <1>1, <1>2 DEF Next, Staking
<1>4. UpdateRewards({a}) /\ UNCHANGED <<stakeVars, now>>
  BY <1>2 DEF Claim
<1> QED BY <1>1, <1>2, <1>3, <1>4, UpdateKeeps

(* Steps that change only grants, funds or signals.                        *)
LEMMA GovernanceStep ==
  ASSUME VInv, UNCHANGED trackerVars,
         UNCHANGED <<vestingBalances, pairAmounts, cumulativeClaimAmounts,
                     claimedAmounts, lastVestingTimes, entrusted,
                     transferredAverageStakedAmounts,
                     transferredCumulativeRewards, cumulativeRewardDeductions>>,
         bonusRewards' \in [Users -> Nat]
  PROVE  VInv'
<1>1. IInv'
  BY TrackerUntouched DEF VInv
<1>2. UNCHANGED <<now, stakedAmounts, balances, cumulativeRewards>>
  BY DEF trackerVars, vars, stakeVars, rewardVars
<1> QED BY <1>1, <1>2 DEF VInv, RightsOK, VestingOK, TokensKept, TotalVested,
                         ReserveStaked, DeductionsCovered

-----------------------------------------------------------------------------
(* An account is transferred: the tracker's ledgers stay in order, the     *)
(* sender's deduction is what it has handed on.                            *)
LEMMA AcceptTransferTracker ==
  ASSUME VInv, NEW sender \in Users, NEW receiver \in Users,
         NEW token \in DepositTokens, AcceptTransfer(sender, receiver, token)
  PROVE  IInv'
<1> DEFINE reward == Claimable(sender)
           amount == depositBalances[sender][token]
           touched == {sender} \cup (IF amount > 0 THEN {receiver} ELSE {})
<1>1. /\ IInv /\ TypeOK /\ StakesOK /\ RewardsOK
  BY DEF VInv, IInv, TypeOK
<1>2. /\ sender \in Accounts /\ receiver \in Accounts /\ token \in Tokens
      /\ touched \in SUBSET Accounts
  BY UsersAreAccounts DEF Tokens
<1>3. /\ UpdateRewards(touched)
      /\ claimableReward' = [a \in Accounts |->
             IF a = sender THEN 0
             ELSE IF a \in touched THEN Claimable(a) ELSE claimableReward[a]]
      /\ held' = Holdings(RewardToken, - reward)
      /\ Holdings(RewardToken, - reward)[RewardToken] >= 0
      /\ received' = [received EXCEPT ![sender] = @ + reward]
      /\ stakedAmounts' = Moved(stakedAmounts, sender, receiver, amount)
      /\ balances' = Moved(balances, sender, receiver, amount)
      /\ depositBalances' = [a \in Accounts |->
             [depositBalances[a] EXCEPT ![token] =
                 @ + (IF a = receiver THEN amount ELSE 0)
                   - (IF a = sender THEN amount ELSE 0)]]
      /\ peakStake' = [peakStake EXCEPT ![receiver] =
             Max({@, peakStake[sender], stakedAmounts'[receiver]})]
      /\ stakedAmounts[sender] >= amount /\ balances[sender] >= amount
      /\ UNCHANGED <<totalDepositSupply, totalSupply, rate, configVars, now>>
  BY DEF AcceptTransfer, CanUnstake
<1>4. amount \in Nat /\ reward \in Nat
  BY <1>1, <1>2, RewardType DEF StakesOK
<1>5. Claimable(receiver) \in Nat
  BY <1>1, <1>2, RewardType
<1> HIDE DEF reward, amount, touched
<1>6. stakedAmounts' \in [Accounts -> Nat]
  <2>1. ASSUME NEW a \in Accounts
        PROVE  stakedAmounts[a] + (IF a = receiver THEN amount ELSE 0)
                   - (IF a = sender THEN amount ELSE 0) \in Nat
    BY <1>1, <1>2, <1>3, <1>4 DEF StakesOK
  <2>2. DOMAIN stakedAmounts = Accounts
    BY <1>1 DEF StakesOK
  <2> QED BY <1>3, <2>1, <2>2 DEF Moved
<1>7. balances' \in [Accounts -> Nat]
  <2>1. ASSUME NEW a \in Accounts
        PROVE  balances[a] + (IF a = receiver THEN amount ELSE 0)
                   - (IF a = sender THEN amount ELSE 0) \in Nat
    BY <1>1, <1>2, <1>3, <1>4 DEF StakesOK
  <2>2. DOMAIN balances = Accounts
    BY <1>1 DEF StakesOK
  <2> QED BY <1>3, <2>1, <2>2 DEF Moved
<1>8. depositBalances' \in [Accounts -> [Tokens -> Nat]]
  <2>1. ASSUME NEW a \in Accounts
        PROVE  [depositBalances[a] EXCEPT ![token] =
                   @ + (IF a = receiver THEN amount ELSE 0)
                     - (IF a = sender THEN amount ELSE 0)] \in [Tokens -> Nat]
    <3>1. depositBalances[a] \in [Tokens -> Nat]
      BY <1>1 DEF StakesOK
    <3>2. depositBalances[a][token] + (IF a = receiver THEN amount ELSE 0)
              - (IF a = sender THEN amount ELSE 0) \in Nat
      BY <1>2, <1>4, <3>1 DEF amount
    <3> QED BY <3>1, <3>2
  <2> QED BY <1>3, <2>1
<1>9. peakStake' \in [Accounts -> Nat]
  <2> DEFINE S == {peakStake[receiver], peakStake[sender],
                   stakedAmounts'[receiver]}
  <2>1. /\ peakStake \in [Accounts -> Nat]
        /\ peakStake[receiver] \in Nat /\ peakStake[sender] \in Nat
        /\ stakedAmounts'[receiver] \in Nat
    BY <1>1, <1>2, <1>6 DEF StakesOK
  <2>2. Max(S) \in Nat
    <3>1. \E x \in S : \A y \in S : x >= y
      BY <2>1
    <3>2. Max(S) \in S
      BY <3>1 DEF Max
    <3> QED BY <2>1, <3>2
  <2> QED BY <1>3, <2>1, <2>2
<1>10. StakesOK'
  BY <1>1, <1>3, <1>6, <1>7, <1>8, <1>9 DEF StakesOK
<1>11. claimableReward' \in [Accounts -> Nat] /\ received' \in [Accounts -> Nat]
  BY <1>1, <1>2, <1>3, <1>4, <1>5, RewardType DEF RewardsOK
<1>12. RewardsOK'
  BY <1>1, <1>2, <1>3, <1>11, UpdateFacts DEF RewardsOK
<1>13. DistributorOK'
  <2>1. held' \in [Tokens -> Nat]
    BY <1>1, <1>3, <1>4, HoldingsType
  <2> QED BY <1>1, <1>2, <1>3, <2>1, UpdateFacts
          DEF configVars, DistributorOK, TypeOK
<1>14. NobodyAhead'
  BY <1>1, <1>2, <1>3, UpdateFacts DEF NobodyAhead
<1>15. AverageComputable'
  <2> SUFFICES ASSUME NEW a \in Accounts
               PROVE  claimableReward'[a] <= cumulativeRewards'[a]
    BY DEF AverageComputable
  <2>1. claimableReward'[a]
            = IF a = sender THEN 0
              ELSE IF a \in touched THEN Claimable(a) ELSE claimableReward[a]
    BY <1>3
  <2>2. cumulativeRewards'[a] \in Nat
    BY <1>12 DEF RewardsOK
  <2>3. CASE a = sender
    BY <2>1, <2>2, <2>3
  <2>4. CASE a # sender /\ a \in touched
    BY <1>1, <1>2, <1>3, <2>1, <2>4, UpdateFacts
  <2>5. CASE a # sender /\ a \notin touched
    <3>1. cumulativeRewards'[a] = cumulativeRewards[a]
      BY <1>1, <1>2, <1>3, <2>5, UpdateFacts
    <3> QED BY <1>1, <2>1, <2>5, <3>1 DEF IInv, AverageComputable
  <2> QED BY <2>3, <2>4, <2>5
<1> QED BY <1>10, <1>12, <1>13, <1>14, <1>15 DEF IInv, TypeOK

(* What is handed on was the sender's to give.                             *)
LEMMA AcceptTransferStep ==
  ASSUME VInv, NEW sender \in Users, NEW receiver \in Users,
         NEW token \in DepositTokens, AcceptTransfer(sender, receiver, token)
  PROVE  VInv'
<1> DEFINE amount == depositBalances[sender][token]
           touched == {sender} \cup (IF amount > 0 THEN {receiver} ELSE {})
           earned == cumulativeRewards'[sender]
                         - cumulativeRewardDeductions[sender]
           average == Combined(averageStakedAmounts'[sender],
                               cumulativeRewards'[sender], sender)
<1>1. /\ IInv /\ IInv' /\ RightsOK /\ VestingOK /\ TokensKept /\ ReserveStaked
      /\ DeductionsCovered
  BY AcceptTransferTracker DEF VInv
<1>2. /\ UpdateRewards(touched) /\ touched \in SUBSET Accounts
      /\ stakedAmounts' = Moved(stakedAmounts, sender, receiver, amount)
      /\ balances' = Moved(balances, sender, receiver, amount)
      /\ TransferStakeValues(sender, receiver)
      /\ UNCHANGED <<now, vestingVars>>
  BY UsersAreAccounts DEF AcceptTransfer
<1>3. amount \in Nat
  BY <1>1, UsersAreAccounts DEF IInv, TypeOK, StakesOK, Tokens
<1> HIDE DEF touched, amount
<1>4. ASSUME NEW a \in Users
      PROVE  /\ cumulativeRewards[a] \in Nat /\ cumulativeRewards'[a] \in Nat
             /\ averageStakedAmounts'[a] \in Nat
             /\ cumulativeRewards[a] <= cumulativeRewards'[a]
  BY <1>1, <1>2, UsersAreAccounts, CumulativeRewardsGrow
  DEF IInv, TypeOK, RewardsOK
<1>5. /\ transferredAverageStakedAmounts' =
             [transferredAverageStakedAmounts EXCEPT ![receiver] = average,
                                                     ![sender] = 0]
      /\ transferredCumulativeRewards' =
             [transferredCumulativeRewards EXCEPT
                 ![receiver] = transferredCumulativeRewards[sender] + earned,
                 ![sender] = 0]
      /\ cumulativeRewardDeductions' =
             [cumulativeRewardDeductions EXCEPT ![sender] = @ + earned]
      /\ bonusRewards' = [bonusRewards EXCEPT ![receiver] = bonusRewards[sender],
                                              ![sender] = 0]
  BY <1>2 DEF TransferStakeValues, Deducted
<1>6. earned \in Nat /\ average \in Nat
  <2>1. cumulativeRewardDeductions[sender] <= cumulativeRewards[sender]
    BY <1>1 DEF DeductionsCovered
  <2>2. cumulativeRewardDeductions[sender] \in Nat
    BY <1>1 DEF RightsOK
  <2>3. earned \in Nat
    BY <1>4, <2>1, <2>2
  <2>4. average \in Nat
    BY <1>1, <1>4, CombinedType
  <2> QED BY <2>3, <2>4
<1>7. cumulativeRewardDeductions[sender] + earned = cumulativeRewards'[sender]
  BY <1>1, <1>4 DEF RightsOK
<1> HIDE DEF earned, average
<1>8. RightsOK'
  BY <1>1, <1>5, <1>6 DEF RightsOK
<1>9. DeductionsCovered'
  <2> SUFFICES ASSUME NEW a \in Users
               PROVE  cumulativeRewardDeductions'[a] <= cumulativeRewards'[a]
    BY DEF DeductionsCovered
  <2>1. CASE a = sender
    BY <1>1, <1>4, <1>5, <1>7, <2>1 DEF RightsOK
  <2>2. CASE a # sender
    BY <1>1, <1>4, <1>5, <2>2 DEF RightsOK, DeductionsCovered
  <2> QED BY <2>1, <2>2
<1>10. VestingOK' /\ TokensKept'
  BY <1>1, <1>2 DEF VestingOK, TokensKept, TotalVested, vestingVars
<1>11. ReserveStaked'
  <2> SUFFICES ASSUME NEW a \in Users
               PROVE  /\ stakedAmounts'[a] = balances'[a] + pairAmounts'[a]
                      /\ pairAmounts'[a] > 0 => TotalVested(a)' > 0
    BY DEF ReserveStaked
  <2>1. /\ stakedAmounts[a] = balances[a] + pairAmounts[a]
        /\ pairAmounts[a] > 0 => TotalVested(a) > 0
        /\ pairAmounts[a] \in Nat /\ stakedAmounts[a] \in Nat
        /\ balances[a] \in Nat
    BY <1>1, UsersAreAccounts
    DEF ReserveStaked, VestingOK, IInv, TypeOK, StakesOK
  <2>2. pairAmounts' = pairAmounts /\ TotalVested(a)' = TotalVested(a)
    BY <1>2 DEF vestingVars, TotalVested
  <2>3. a \in DOMAIN stakedAmounts /\ a \in DOMAIN balances
    BY <1>1, UsersAreAccounts DEF IInv, TypeOK, StakesOK
  <2>4. stakedAmounts'[a] - stakedAmounts[a] = balances'[a] - balances[a]
    BY <1>2, <1>3, <2>1, <2>3 DEF Moved
  <2>5. stakedAmounts'[a] \in Nat /\ balances'[a] \in Nat
    BY <1>1, UsersAreAccounts DEF IInv, TypeOK, StakesOK
  <2> QED BY <2>1, <2>2, <2>4, <2>5
<1> QED BY <1>1, <1>8, <1>9, <1>10, <1>11 DEF VInv

-----------------------------------------------------------------------------
(* The invariant holds at first,                                           *)
LEMMA VesterInitially == InitVester => VInv
<1> SUFFICES ASSUME InitVester PROVE VInv
  OBVIOUS
<1>1. IInv
  BY Initially DEF InitVester
<1>2. \A a \in Users : a \in Accounts
  BY UsersAreAccounts
<1>3. now \in Nat
  BY <1>1 DEF IInv, TypeOK, DistributorOK
<1>4. RightsOK /\ VestingOK /\ TokensKept
  BY <1>3 DEF InitVester, RightsOK, VestingOK, TokensKept, TotalVested
<1>5. ReserveStaked /\ DeductionsCovered
  BY <1>2 DEF InitVester, Init, ReserveStaked, DeductionsCovered, TotalVested
<1> QED BY <1>1, <1>4, <1>5 DEF VInv

(* and every step of the vester, the router and the tracker preserves it.  *)
LEMMA VesterInductive == VInv /\ [NextVester]_allVars => VInv'
<1> SUFFICES ASSUME VInv, [NextVester]_allVars PROVE VInv'
  OBVIOUS
<1>1. CASE TrackerStep
  BY <1>1, TrackerSteps
<1>2. ASSUME NEW a \in Users, ClaimVested(a) PROVE VInv'
  BY <1>2, ClaimVestedStep
<1>3. ASSUME NEW a \in Users, Withdraw(a) PROVE VInv'
  BY <1>3, WithdrawStep
<1>4. ASSUME NEW a \in Users, NEW n \in Amounts, DepositToVest(a, n) PROVE VInv'
  <2>1. n \in Nat
    BY TrackerAssumption
  <2> QED BY <1>4, <2>1, DepositStep
<1>5. ASSUME NEW a \in Users, NEW n \in BonusGrants, SetBonusRewards(a, n)
      PROVE  VInv'
  <2>1. n \in Nat
    BY VesterAssumption
  <2>2. bonusRewards' \in [Users -> Nat]
    BY <1>5, <2>1 DEF SetBonusRewards, VInv, RightsOK
  <2> QED BY <1>5, <2>2, GovernanceStep DEF SetBonusRewards, vestingVars
<1>6. ASSUME NEW n \in FundWithdrawals, WithdrawToken(n) PROVE VInv'
  <2>1. bonusRewards' \in [Users -> Nat]
    BY <1>6 DEF WithdrawToken, VInv, RightsOK, rightVars
  <2> QED BY <1>6, <2>1, GovernanceStep DEF WithdrawToken, rightVars
<1>7. ASSUME NEW a \in Users, NEW b \in Users, SignalTransfer(a, b) PROVE VInv'
  <2>1. bonusRewards' \in [Users -> Nat]
    BY <1>7 DEF SignalTransfer, VInv, RightsOK, rightVars
  <2> QED BY <1>7, <2>1, GovernanceStep
          DEF SignalTransfer, vestingVars, rightVars
<1>8. ASSUME NEW a \in Users, NEW b \in Users, NEW token \in DepositTokens,
             AcceptTransfer(a, b, token)
      PROVE  VInv'
  BY <1>8, AcceptTransferStep
<1>9. ASSUME NEW a \in Users, ClaimRewards(a) PROVE VInv'
  BY <1>9, ClaimRewardsStep
<1>10. CASE UNCHANGED allVars
  <2>1. bonusRewards' \in [Users -> Nat]
    BY <1>10 DEF allVars, accountVars, VInv, RightsOK, rightVars
  <2>2. UNCHANGED trackerVars
    BY <1>10 DEF allVars, trackerVars
  <2> QED BY <1>10, <2>1, <2>2, GovernanceStep
          DEF allVars, accountVars, vestingVars, rightVars
<1> QED BY <1>1, <1>2, <1>3, <1>4, <1>5, <1>6, <1>7, <1>8, <1>9, <1>10
        DEF NextVester, Vesting, AccountTransfer

(* In every reachable state the invariant holds: the guard that            *)
(* transferStakeValues has is never what stops a transfer.                 *)
THEOREM VesterInvariance == SpecVester => []VInv
  BY VesterInitially, VesterInductive, PTL DEF SpecVester

(* Over any sequence of deposits, claims, withdrawals and transfers of     *)
(* accounts the vester has, of each account's esGMX, exactly what it took  *)
(* in and has neither returned nor paid for.                               *)
THEOREM VestingTokensKept == SpecVester => []TokensKept
<1>1. VInv => TokensKept
  BY DEF VInv
<1> QED BY <1>1, VesterInvariance, PTL

(* The shares that a vesting account reserves go on being staked, and the  *)
(* account can get them back.                                              *)
THEOREM ReservesStayStaked == SpecVester => []ReserveStaked
<1>1. VInv => ReserveStaked
  BY DEF VInv
<1> QED BY <1>1, VesterInvariance, PTL

(* With the vester on top of it the tracker keeps its own promises: no     *)
(* ledger goes below zero and the average can always be computed.          *)
THEOREM TrackerStaysSound == SpecVester => [](TypeOK /\ AverageComputable)
<1>1. VInv => TypeOK /\ AverageComputable
  BY DEF VInv, IInv
<1> QED BY <1>1, VesterInvariance, PTL

-----------------------------------------------------------------------------
(* The tracker under the vester: books and money.                          *)

(* What the router has the tracker do is a step of the tracker.            *)
LEMMA RouterCallsTracker ==
  ASSUME TrackerStep \/ \E a \in Users : ClaimRewards(a)
  PROVE  Next
<1>1. rewardRouter \in Callers
  BY VesterAssumption DEF Callers
<1>2. ASSUME NEW a \in Users, ClaimRewards(a) PROVE Next
  BY <1>1, <1>2, UsersAreAccounts DEF ClaimRewards, Next, Staking
<1>3. ASSUME NEW a \in Users, NEW token \in DepositTokens, NEW n \in Amounts,
             \/ Stake(rewardRouter, a, token, n)
             \/ Unstake(rewardRouter, a, token, n)
      PROVE  Next
  <2>1. a \in Accounts /\ token \in Tokens
    BY UsersAreAccounts DEF Tokens
  <2> QED BY <1>1, <1>3, <2>1 DEF Next, Staking
<1>4. CASE \/ Refresh \/ (\E n \in Rates : SetRate(n))
           \/ UpdateLastDistributionTime \/ Tick
  BY <1>4 DEF Next, Administration
<1> QED BY <1>2, <1>3, <1>4 DEF TrackerStep

(* Shares that are reserved, or given back, are still the tracker's.       *)
LEMMA ReserveAddsUp ==
  ASSUME VInv, VInv', StakesAddUp, Backed, NEW a \in Users,
         Withdraw(a) \/ \E n \in Amounts : DepositToVest(a, n)
  PROVE  StakesAddUp' /\ Backed'
<1>1. /\ UNCHANGED <<depositBalances, totalDepositSupply, stakedAmounts,
                     totalSupply, rewardVars, cumulativeRewardPerToken, held>>
      /\ \E n \in Int : balances' = [balances EXCEPT ![a] = @ - n,
                                                     ![vester] = @ + n]
  <2>1. CASE Withdraw(a)
    <3>1. PICK n \in Int : n = - pairAmounts[a]
      BY DEF VInv, VestingOK
    <3>2. balances[a] \in Int /\ balances[vester] \in Int
          /\ pairAmounts[a] \in Int
      BY UsersAreAccounts, VesterAssumption
      DEF VInv, VestingOK, IInv, TypeOK, StakesOK
    <3>3. balances' = [balances EXCEPT ![a] = @ + pairAmounts[a],
                                       ![vester] = @ - pairAmounts[a]]
      BY <2>1 DEF Withdraw
    <3>4. balances' = [balances EXCEPT ![a] = @ - n, ![vester] = @ + n]
      <4>1. /\ balances[a] + pairAmounts[a] = balances[a] - n
            /\ balances[vester] - pairAmounts[a] = balances[vester] + n
        BY <3>1, <3>2
      <4>2. a # vester
        BY UsersAreAccounts
      <4> QED BY <3>3, <4>1, <4>2
    <3> QED BY <2>1, <3>4 DEF Withdraw
  <2>2. ASSUME NEW n \in Amounts, DepositToVest(a, n)
        PROVE  /\ UNCHANGED <<depositBalances, totalDepositSupply, stakedAmounts,
                              totalSupply, rewardVars, cumulativeRewardPerToken,
                              held>>
               /\ \E m \in Int : balances' = [balances EXCEPT ![a] = @ - m,
                                                              ![vester] = @ + m]
    <3>1. PICK needed : needed = PairAmount(a, vestingBalances[a]
                                                   - NextClaimable(a) + n)
      OBVIOUS
    <3>2. needed \in Nat
      <4>1. vestingBalances[a] - NextClaimable(a) + n \in Nat
        <5>1. NextClaimable(a) \in 0..vestingBalances[a]
          BY NextClaimableType DEF VInv, IInv
        <5>2. vestingBalances[a] \in Nat /\ n \in Nat
          BY TrackerAssumption DEF VInv, VestingOK
        <5> QED BY <5>1, <5>2
      <4> QED BY <3>1, <4>1, PairAmountType DEF VInv, IInv
    <3>3. PICK reserve : reserve = IF needed > pairAmounts[a]
                                   THEN needed - pairAmounts[a] ELSE 0
      OBVIOUS
    <3>4. reserve \in Int
      BY <3>2, <3>3 DEF VInv, VestingOK
    <3>5. balances' = [balances EXCEPT ![a] = @ - reserve,
                                       ![vester] = @ + reserve]
      BY <2>2, <3>1, <3>3 DEF DepositToVest
    <3> QED BY <2>2, <3>4, <3>5 DEF DepositToVest
  <2> QED BY <2>1, <2>2
<1>2. PICK n \in Int : balances' = [balances EXCEPT ![a] = @ - n,
                                                    ![vester] = @ + n]
  BY <1>1
<1>3. balances \in [Accounts -> Int] /\ balances' \in [Accounts -> Int]
  <2>1. balances \in [Accounts -> Nat] /\ balances' \in [Accounts -> Nat]
    BY DEF VInv, IInv, TypeOK, StakesOK
  <2> QED BY <2>1
<1>4. a \in Accounts /\ vester \in Accounts /\ a # vester
  BY UsersAreAccounts, VesterAssumption
<1>5. \A b \in Accounts : balances'[b] = balances[b]
          + (IF b = vester THEN n ELSE 0) - (IF b = a THEN n ELSE 0)
  BY <1>2, <1>3, <1>4
<1>6. Shifted(Accounts, balances, balances', vester, a, n)
  BY <1>3, <1>4, <1>5 DEF Shifted, Moves
<1>7. StakesAddUp'
  BY <1>1, <1>6, SharesMoveAddsUp
<1>8. UNCHANGED <<stakedAmounts, totalDepositSupply, claimableReward,
                  previousCumulatedRewardPerToken, cumulativeRewardPerToken,
                  held>>
  BY <1>1 DEF rewardVars
<1> QED BY <1>7, <1>8, BackingUntouched

(* A transferred stake is entered in every book, under the receiver.       *)
LEMMA AcceptTransferAddsUp ==
  ASSUME VInv, VInv', StakesAddUp, NEW sender \in Users, NEW receiver \in Users,
         NEW token \in DepositTokens, AcceptTransfer(sender, receiver, token)
  PROVE  StakesAddUp'
<1>1. /\ sender \in Accounts /\ receiver \in Accounts /\ token \in Tokens
      /\ TypeOK /\ TypeOK'
  BY UsersAreAccounts DEF Tokens, VInv, IInv
<1>2. PICK amount \in Int : amount = depositBalances[sender][token]
  BY <1>1, BookTypes
<1>3. PICK gain : gain = [a \in Accounts |-> (IF a = receiver THEN amount ELSE 0)
                                        - (IF a = sender THEN amount ELSE 0)]
  OBVIOUS
<1>4. /\ stakedAmounts' = Moved(stakedAmounts, sender, receiver, amount)
      /\ balances' = Moved(balances, sender, receiver, amount)
      /\ depositBalances' = [a \in Accounts |->
             [depositBalances[a] EXCEPT ![token] =
                 @ + (IF a = receiver THEN amount ELSE 0)
                   - (IF a = sender THEN amount ELSE 0)]]
      /\ totalDepositSupply' = totalDepositSupply /\ totalSupply' = totalSupply
  BY <1>2 DEF AcceptTransfer
<1>5. /\ stakedAmounts \in [Accounts -> Int] /\ stakedAmounts' \in [Accounts -> Int]
      /\ balances \in [Accounts -> Int] /\ balances' \in [Accounts -> Int]
      /\ totalSupply \in Int /\ totalDepositSupply \in [Tokens -> Int]
      /\ depositBalances \in [Accounts -> [Tokens -> Int]]
      /\ depositBalances' \in [Accounts -> [Tokens -> Int]]
  <2>1. /\ stakedAmounts \in [Accounts -> Nat]
        /\ stakedAmounts' \in [Accounts -> Nat]
        /\ balances \in [Accounts -> Nat] /\ balances' \in [Accounts -> Nat]
        /\ totalSupply \in Nat /\ totalDepositSupply \in [Tokens -> Nat]
        /\ depositBalances \in [Accounts -> [Tokens -> Nat]]
        /\ depositBalances' \in [Accounts -> [Tokens -> Nat]]
    BY <1>1 DEF TypeOK, StakesOK
  <2>2. \A f \in [Tokens -> Nat] : f \in [Tokens -> Int]
    OBVIOUS
  <2> QED BY <2>1, <2>2
<1>6. ASSUME NEW a \in Accounts
      PROVE  /\ gain[a] \in Int
             /\ stakedAmounts'[a] = stakedAmounts[a]
                    + (IF a = receiver THEN amount ELSE 0)
                    - (IF a = sender THEN amount ELSE 0)
             /\ balances'[a] = balances[a]
                    + (IF a = receiver THEN amount ELSE 0)
                    - (IF a = sender THEN amount ELSE 0)
             /\ \A t \in Tokens : depositBalances'[a][t] = depositBalances[a][t]
                    + (IF t = token THEN gain[a] ELSE 0)
  <2>1. a \in DOMAIN stakedAmounts /\ a \in DOMAIN balances
    BY <1>5
  <2>2. gain[a] = (IF a = receiver THEN amount ELSE 0)
                      - (IF a = sender THEN amount ELSE 0)
    BY <1>3
  <2>3. /\ stakedAmounts'[a] = stakedAmounts[a]
               + (IF a = receiver THEN amount ELSE 0)
               - (IF a = sender THEN amount ELSE 0)
        /\ balances'[a] = balances[a]
               + (IF a = receiver THEN amount ELSE 0)
               - (IF a = sender THEN amount ELSE 0)
    BY <1>4, <2>1 DEF Moved
  <2>4. ASSUME NEW t \in Tokens
        PROVE  depositBalances'[a][t] = depositBalances[a][t]
                   + (IF t = token THEN gain[a] ELSE 0)
    <3>1. depositBalances[a] \in [Tokens -> Int]
      BY <1>5
    <3>2. depositBalances'[a] = [depositBalances[a] EXCEPT ![token] =
                 @ + (IF a = receiver THEN amount ELSE 0)
                   - (IF a = sender THEN amount ELSE 0)]
      BY <1>4
    <3>3. CASE t = token
      BY <2>2, <3>1, <3>2, <3>3
    <3>4. CASE t # token
      BY <3>1, <3>2, <3>4
    <3> QED BY <3>3, <3>4
  <2> QED BY <2>2, <2>3, <2>4
<1>7. ASSUME NEW a \in Accounts
      PROVE  stakedAmounts'[a] = SumFunction(depositBalances'[a])
  <2>1. stakedAmounts[a] = SumFunction(depositBalances[a])
    BY DEF StakesAddUp
  <2>2. Changed(Tokens, depositBalances[a], depositBalances'[a], token, gain[a])
    BY <1>1, <1>5, <1>6 DEF Changed
  <2>3. SumFunction(depositBalances'[a]) = SumFunction(depositBalances[a]) + gain[a]
    BY <2>2, TokensFinite, TotalChange
  <2>4. stakedAmounts'[a] = stakedAmounts[a] + gain[a]
    BY <1>3, <1>5, <1>6
  <2> QED BY <2>1, <2>3, <2>4
<1>8. ASSUME NEW t \in Tokens
      PROVE  totalDepositSupply'[t]
                 = SumFunction([a \in Accounts |-> depositBalances'[a][t]])
  <2>1. totalDepositSupply[t]
            = SumFunction([a \in Accounts |-> depositBalances[a][t]])
    BY DEF StakesAddUp
  <2>2. PICK f, g : /\ f = [a \in Accounts |-> depositBalances[a][t]]
                    /\ g = [a \in Accounts |-> depositBalances'[a][t]]
    OBVIOUS
  <2>3. f \in [Accounts -> Int] /\ g \in [Accounts -> Int]
    BY <1>5, <2>2
  <2>4. CASE t = token
    <3>1. \A a \in Accounts : g[a] = f[a] + (IF a = receiver THEN amount ELSE 0)
                                          - (IF a = sender THEN amount ELSE 0)
      BY <1>3, <1>6, <2>2, <2>3, <2>4
    <3>2. Shifted(Accounts, f, g, receiver, sender, amount)
      BY <1>1, <2>3, <3>1 DEF Shifted, Moves
    <3>3. SumFunction(g) = SumFunction(f)
      BY <3>2, TrackerAssumption, TotalMove
    <3> QED BY <1>4, <2>1, <2>2, <3>3
  <2>5. CASE t # token
    <3>1. \A a \in Accounts : g[a] = f[a]
      BY <1>5, <1>6, <2>2, <2>5
    <3>2. f = g
      BY <2>2, <3>1
    <3> QED BY <1>4, <2>1, <2>2, <3>2
  <2> QED BY <2>4, <2>5
<1>9. /\ Shifted(Accounts, stakedAmounts, stakedAmounts', receiver, sender, amount)
      /\ Shifted(Accounts, balances, balances', receiver, sender, amount)
  BY <1>1, <1>5, <1>6 DEF Shifted, Moves
<1>10. /\ SumFunction(stakedAmounts') = SumFunction(stakedAmounts)
       /\ SumFunction(balances') = SumFunction(balances)
  BY <1>9, TrackerAssumption, TotalMove
<1> QED BY <1>4, <1>7, <1>8, <1>10 DEF StakesAddUp

(* The sender's rewards are paid, and the receiver's credited, before the  *)
(* stake moves.                                                            *)
LEMMA AcceptTransferBacks ==
  ASSUME VInv, VInv', StakesAddUp, Backed,
         NEW sender \in Users, NEW receiver \in Users,
         NEW token \in DepositTokens, AcceptTransfer(sender, receiver, token)
  PROVE  Backed'
<1>1. /\ sender \in Accounts /\ receiver \in Accounts /\ token \in Tokens
      /\ IInv /\ IInv'
  BY UsersAreAccounts DEF Tokens, VInv
<1>2. /\ claimableReward \in [Accounts -> Nat]
      /\ stakedAmounts \in [Accounts -> Nat]
      /\ depositBalances[sender][token] \in Nat
      /\ totalDepositSupply \in [Tokens -> Nat] /\ held \in [Tokens -> Nat]
      /\ Distributed \in Nat
  BY <1>1, DistributedType DEF IInv, TypeOK, StakesOK, RewardsOK, DistributorOK
<1>3. PICK reward \in Nat : reward = Claimable(sender)
  BY <1>1, RewardType
<1>4. PICK amount \in Nat : amount = depositBalances[sender][token]
  BY <1>2
<1>5. PICK as \in SUBSET Accounts :
          as = {sender} \cup (IF amount > 0 THEN {receiver} ELSE {})
  BY <1>1
<1>6. /\ UpdateRewards(as)
      /\ claimableReward' = [a \in Accounts |->
             IF a = sender THEN 0
             ELSE IF a \in as THEN Claimable(a) ELSE claimableReward[a]]
      /\ held' = Holdings(RewardToken, - reward)
      /\ stakedAmounts' = Moved(stakedAmounts, sender, receiver, amount)
      /\ totalDepositSupply' = totalDepositSupply
  BY <1>3, <1>4, <1>5 DEF AcceptTransfer
<1>7. \A a \in as : claimableReward'[a] + (IF a = sender THEN reward ELSE 0)
                        = Claimable(a)
  <2> TAKE a \in as
  <2>1. a \in Accounts /\ Claimable(a) \in Nat
    BY <1>1, RewardType
  <2> QED BY <1>3, <1>6, <2>1
<1>8. \A a \in Accounts \ as : /\ claimableReward'[a] = claimableReward[a]
                               /\ stakedAmounts'[a] = stakedAmounts[a]
  <2> TAKE a \in Accounts \ as
  <2>1. a # sender /\ (a = receiver => amount = 0)
    BY <1>5
  <2>2. a \in DOMAIN stakedAmounts /\ stakedAmounts[a] \in Nat
    BY <1>2
  <2>3. stakedAmounts'[a] = stakedAmounts[a]
    BY <1>6, <2>1, <2>2 DEF Moved
  <2>4. claimableReward'[a] = claimableReward[a]
    BY <1>6, <2>1
  <2> QED BY <2>3, <2>4
<1>9. \A t \in Tokens :
          held'[t] - totalDepositSupply'[t]
              = held[t] - totalDepositSupply[t]
                    + (IF t = RewardToken THEN Distributed - reward ELSE 0)
  BY <1>2, <1>6 DEF Holdings
<1>10. sender \in as
  BY <1>5
<1> QED BY <1>1, <1>6, <1>7, <1>8, <1>9, <1>10, UpdateBacks

(* Every step of the vester, the router and the tracker keeps the books.   *)
LEMMA LedgersKept ==
  ASSUME VInv, VInv', [NextVester]_allVars, StakesAddUp, Backed
  PROVE  StakesAddUp' /\ Backed'
<1>1. IInv
  BY DEF VInv
<1>2. CASE TrackerStep \/ \E a \in Users : ClaimRewards(a)
  BY <1>1, <1>2, RouterCallsTracker, LedgersInductive
<1>3. ASSUME NEW a \in Users,
             Withdraw(a) \/ \E n \in Amounts : DepositToVest(a, n)
      PROVE  StakesAddUp' /\ Backed'
  BY <1>3, ReserveAddsUp
<1>4. ASSUME NEW a \in Users, NEW b \in Users, NEW token \in DepositTokens,
             AcceptTransfer(a, b, token)
      PROVE  StakesAddUp' /\ Backed'
  BY <1>4, AcceptTransferAddsUp, AcceptTransferBacks
<1>5. CASE UNCHANGED trackerVars
  <2>1. [Next]_vars
    BY <1>5 DEF trackerVars
  <2> QED BY <1>1, <2>1, LedgersInductive
<1>6. CASE \/ \E a \in Users : \/ ClaimVested(a)
                               \/ \E n \in BonusGrants : SetBonusRewards(a, n)
                               \/ \E b \in Users : SignalTransfer(a, b)
           \/ \E n \in FundWithdrawals : WithdrawToken(n)
           \/ UNCHANGED allVars
  <2>1. UNCHANGED trackerVars
    BY <1>6 DEF ClaimVested, SetBonusRewards, SignalTransfer, WithdrawToken,
                allVars, trackerVars
  <2> QED BY <1>5, <2>1
<1> QED BY <1>2, <1>3, <1>4, <1>6, Zenon DEF NextVester, Vesting, AccountTransfer

(* Also with reserves and transfers of accounts the tracker's books agree  *)
(* and it can pay every stake and every reward.                            *)
THEOREM TrackerStaysSolventVesting == SpecVester => [](Solvent /\ StakesAddUp)
<1>1. InitVester => StakesAddUp /\ Backed
  BY LedgersInitially DEF InitVester
<1>2. VInv /\ VInv' /\ [NextVester]_allVars /\ StakesAddUp /\ Backed
          => (StakesAddUp /\ Backed)'
  BY LedgersKept
<1>3. VInv /\ StakesAddUp /\ Backed => Solvent /\ StakesAddUp
  BY BackedIsSolvent DEF VInv
<1> QED BY <1>1, <1>2, <1>3, VesterInvariance, PTL DEF SpecVester

-----------------------------------------------------------------------------
(* Rights to vest.                                                         *)

(* There are finitely many users.                                          *)
LEMMA UsersFinite == IsFiniteSet(Users)
  BY TrackerAssumption, FS_Subset DEF Users

(* All that was ever handed on to an account was deducted from another.    *)
HandedOn ==
    SumFunction(transferredCumulativeRewards)
        <= SumFunction(cumulativeRewardDeductions)

(* Then nothing that was earned can be vested twice.                       *)
LEMMA HandedOnVestsOnce == ASSUME VInv, HandedOn PROVE RightsVestOnce
<1>1. PICK T, D, C, h, g :
          /\ T = transferredCumulativeRewards /\ D = cumulativeRewardDeductions
          /\ C = cumulativeRewards /\ h = [a \in Users |-> T[a] + C[a]]
          /\ g = [a \in Users |-> transferredCumulativeRewards[a]
                                      + cumulativeRewards[a]
                                      - cumulativeRewardDeductions[a]]
  OBVIOUS
<1>2. ASSUME NEW a \in Users
      PROVE  /\ T[a] \in Int /\ D[a] \in Int /\ C[a] \in Int /\ g[a] \in Int
             /\ h[a] = T[a] + C[a] /\ h[a] = g[a] + D[a]
  <2>1. /\ transferredCumulativeRewards[a] \in Nat
        /\ cumulativeRewardDeductions[a] \in Nat /\ cumulativeRewards[a] \in Nat
    BY UsersAreAccounts DEF VInv, RightsOK, IInv, TypeOK, RewardsOK
  <2>2. h[a] = T[a] + C[a] /\ g[a] = T[a] + C[a] - D[a]
    BY <1>1
  <2> QED BY <1>1, <2>1, <2>2
<1>3. SumFunctionOnSet(h, Users)
          = SumFunctionOnSet(T, Users) + SumFunctionOnSet(C, Users)
  <2>1. \A a \in Users : T[a] \in Int /\ C[a] \in Int /\ h[a] = T[a] + C[a]
    BY <1>2
  <2> QED BY <2>1, UsersFinite, SumAdd
<1>4. SumFunctionOnSet(h, Users)
          = SumFunctionOnSet(g, Users) + SumFunctionOnSet(D, Users)
  <2>1. \A a \in Users : g[a] \in Int /\ D[a] \in Int /\ h[a] = g[a] + D[a]
    BY <1>2
  <2> QED BY <2>1, UsersFinite, SumAdd
<1>5. /\ SumFunctionOnSet(T, Users) \in Int /\ SumFunctionOnSet(C, Users) \in Int
  BY <1>2, UsersFinite, SumType
<1>6. /\ SumFunctionOnSet(D, Users) \in Int /\ SumFunctionOnSet(g, Users) \in Int
  BY <1>2, UsersFinite, SumType
<1>7. SumFunctionOnSet(T, Users) <= SumFunctionOnSet(D, Users)
  <2>1. /\ DOMAIN transferredCumulativeRewards = Users
        /\ DOMAIN cumulativeRewardDeductions = Users
    BY DEF VInv, RightsOK
  <2>2. /\ SumFunction(transferredCumulativeRewards) = SumFunctionOnSet(T, Users)
        /\ SumFunction(cumulativeRewardDeductions) = SumFunctionOnSet(D, Users)
    BY <1>1, <2>1 DEF SumFunction
  <2> QED BY <2>2 DEF HandedOn
<1>8. SumFunctionOnSet(g, Users) <= SumFunctionOnSet(C, Users)
  BY <1>3, <1>4, <1>5, <1>6, <1>7
<1>9. SumFunction(g) = SumFunctionOnSet(g, Users)
  <2>1. DOMAIN g = Users
    BY <1>1
  <2> QED BY <2>1 DEF SumFunction
<1> QED BY <1>1, <1>8, <1>9 DEF RightsVestOnce

(* A transfer deducts from the sender what it hands on for the first time, *)
(* and hands on once more what the sender was given.                       *)
LEMMA TransferHandsOn ==
  ASSUME VInv, VInv', HandedOn, NEW sender \in Users, NEW receiver \in Users,
         NEW token \in DepositTokens, AcceptTransfer(sender, receiver, token)
  PROVE  HandedOn'
<1>1. PICK T, U, D, E : /\ T = transferredCumulativeRewards
                        /\ U = transferredCumulativeRewards'
                        /\ D = cumulativeRewardDeductions
                        /\ E = cumulativeRewardDeductions'
  OBVIOUS
<1>2. T \in [Users -> Int] /\ U \in [Users -> Int]
      /\ D \in [Users -> Int] /\ E \in [Users -> Int]
  <2>1. /\ T \in [Users -> Nat] /\ U \in [Users -> Nat]
        /\ D \in [Users -> Nat] /\ E \in [Users -> Nat]
    BY <1>1 DEF VInv, RightsOK
  <2> QED BY <2>1
<1>3. PICK earned : earned = cumulativeRewards'[sender]
                                 - cumulativeRewardDeductions[sender]
  OBVIOUS
<1>4. /\ U = [T EXCEPT ![receiver] = T[sender] + earned, ![sender] = 0]
      /\ E = [D EXCEPT ![sender] = @ + earned]
      /\ T[receiver] = 0 /\ earned >= 0
  BY <1>1, <1>3 DEF AcceptTransfer, TransferStakeValues, Deducted, ValidReceiver
<1>5. earned \in Nat
  <2>1. cumulativeRewards'[sender] \in Nat /\ D[sender] \in Nat
    BY <1>1, UsersAreAccounts DEF VInv, RightsOK, IInv, TypeOK, RewardsOK
  <2> QED BY <1>1, <1>3, <1>4, <2>1
<1>6. Changed(Users, D, E, sender, earned)
  BY <1>2, <1>4, <1>5 DEF Changed
<1>7. SumFunction(E) = SumFunction(D) + earned /\ SumFunction(D) \in Int
  BY <1>6, UsersFinite, TotalChange
<1>8. SumFunction(U) <= SumFunction(T) + earned /\ SumFunction(T) \in Int
  <2>1. PICK V : V = [T EXCEPT ![receiver] = @ + earned]
    OBVIOUS
  <2>2. V \in [Users -> Int]
    BY <1>2, <1>5, <2>1
  <2>3. Changed(Users, T, V, receiver, earned)
    BY <1>2, <1>5, <2>1, <2>2 DEF Changed
  <2>4. SumFunction(V) = SumFunction(T) + earned /\ SumFunction(T) \in Int
    BY <2>3, UsersFinite, TotalChange
  <2>5. CASE sender = receiver
    <3>1. U = T
      BY <1>2, <1>4, <2>5
    <3> QED BY <1>5, <2>4, <3>1
  <2>6. CASE sender # receiver
    <3>1. \A a \in Users : U[a] = V[a] + (IF a = receiver THEN T[sender] ELSE 0)
                                       - (IF a = sender THEN T[sender] ELSE 0)
      BY <1>2, <1>4, <1>5, <2>1, <2>6
    <3>2. Shifted(Users, V, U, receiver, sender, T[sender])
      BY <1>2, <2>2, <3>1 DEF Shifted, Moves
    <3>3. SumFunction(U) = SumFunction(V)
      BY <3>2, UsersFinite, TotalMove
    <3> QED BY <1>5, <2>4, <3>3
  <2> QED BY <2>5, <2>6
<1>9. SumFunction(T) <= SumFunction(D)
  BY <1>1 DEF HandedOn
<1>10. SumFunction(U) \in Int
  <2>1. \A a \in Users : U[a] \in Int
    BY <1>2
  <2>2. SumFunctionOnSet(U, Users) \in Int
    BY <2>1, UsersFinite, SumType
  <2>3. DOMAIN U = Users
    BY <1>2
  <2> QED BY <2>2, <2>3 DEF SumFunction
<1>11. SumFunction(U) <= SumFunction(E)
  BY <1>5, <1>7, <1>8, <1>9, <1>10
<1> QED BY <1>1, <1>11 DEF HandedOn

(* Nothing else touches what was handed on.                                *)
LEMMA RightsKept ==
  ASSUME VInv, VInv', [NextVester]_allVars, HandedOn
  PROVE  HandedOn'
<1>1. CASE UNCHANGED <<transferredCumulativeRewards, cumulativeRewardDeductions>>
  BY <1>1 DEF HandedOn
<1>2. ASSUME NEW a \in Users, NEW b \in Users, NEW token \in DepositTokens,
             AcceptTransfer(a, b, token)
      PROVE  HandedOn'
  BY <1>2, TransferHandsOn
<1>3. CASE \/ TrackerStep \/ Vesting \/ UNCHANGED allVars
           \/ \E a \in Users : ClaimRewards(a) \/ \E b \in Users : SignalTransfer(a, b)
  BY <1>1, <1>3
  DEF TrackerStep, ClaimRewards, Vesting, ClaimVested, Withdraw, DepositToVest,
      SetBonusRewards, WithdrawToken, SignalTransfer, allVars, accountVars,
      rightVars
<1> QED BY <1>2, <1>3, Zenon DEF NextVester, AccountTransfer

(* Over any sequence of deposits, claims, withdrawals and transfers of     *)
(* accounts the vester has, of each account's esGMX, exactly what it took  *)
(* in and has neither returned nor paid for; the shares that an account    *)
(* reserves go on being staked and can be got back; and whatever has been  *)
(* earned can be vested by one account at a time.                          *)
THEOREM LedgersAgree == SpecVester => []VestingAddsUp
<1>1. InitVester => HandedOn
  <2> SUFFICES ASSUME InitVester PROVE HandedOn
    OBVIOUS
  <2>1. transferredCumulativeRewards = cumulativeRewardDeductions
    BY DEF InitVester
  <2>2. \A a \in Users : cumulativeRewardDeductions[a] = 0
    BY DEF InitVester
  <2>3. SumFunctionOnSet(cumulativeRewardDeductions, Users) = 0
    BY <2>2, UsersFinite, SumZero
  <2>4. DOMAIN cumulativeRewardDeductions = Users
    BY DEF InitVester
  <2> QED BY <2>1, <2>3, <2>4 DEF HandedOn, SumFunction
<1>2. VInv /\ VInv' /\ [NextVester]_allVars /\ HandedOn => HandedOn'
  BY RightsKept
<1>3. VInv /\ HandedOn => VestingAddsUp
  BY HandedOnVestsOnce DEF VInv, VestingAddsUp
<1> QED BY <1>1, <1>2, <1>3, VesterInvariance, PTL DEF SpecVester

-----------------------------------------------------------------------------
(* Average stakes.                                                         *)

(* A weighted average of two amounts, each quotient rounded down, is not   *)
(* above both.                                                             *)
LEMMA WeightedAverage ==
  ASSUME NEW A \in Nat, NEW B \in Nat, NEW c \in Nat, NEW t \in Nat,
         NEW M \in Nat, A <= M, B <= M, c + t \in Positive
  PROVE  (A * c) \div (c + t) + (B * t) \div (c + t) <= M
<1>1. PICK s \in Positive : s = c + t
  OBVIOUS
<1>2. A * c \in Nat /\ B * t \in Nat
  BY ProductNat
<1>3. PICK p \in Nat, q \in Nat : p = (A * c) \div s /\ q = (B * t) \div s
  BY <1>1, <1>2, QuotientNat
<1>4. s * p <= A * c /\ s * q <= B * t
  BY <1>1, <1>2, <1>3, QuotientBelow
<1>5. A * c <= M * c /\ B * t <= M * t
  OBVIOUS
<1>6. M * c + M * t = s * M /\ M * c \in Int /\ M * t \in Int
  <2>1. M * (c + t) = M * c + M * t /\ M * c \in Int /\ M * t \in Int
    BY Distributive
  <2>2. M * s = s * M
    BY <1>1 DEF Positive
  <2> QED BY <1>1, <2>1, <2>2
<1>7. s * (p + q) = s * p + s * q /\ s * p \in Int /\ s * q \in Int
  BY <1>1, <1>3, Distributive DEF Positive
<1>8. s * (p + q) <= s * M
  BY <1>2, <1>4, <1>5, <1>6, <1>7
<1>9. p + q <= M
  <2>1. PICK k \in Nat : k = p + q
    BY <1>3
  <2>2. ASSUME k >= M + 1 PROVE FALSE
    <3>1. s * k >= s * (M + 1)
      BY <1>1, <2>1, <2>2 DEF Positive
    <3>2. s * (M + 1) = s * M + s /\ s * M \in Int /\ s \in Int /\ s > 0
      BY <1>1 DEF Positive
    <3> QED BY <1>8, <2>1, <3>1, <3>2
  <2> QED BY <2>1, <2>2
<1> QED BY <1>1, <1>3, <1>9

(* No account's stake or average stake exceeds its largest stake, nor does *)
(* the average that was transferred to it.                                 *)
AveragesPeaked ==
    /\ \A a \in Accounts : /\ stakedAmounts[a] <= peakStake[a]
                           /\ averageStakedAmounts[a] <= peakStake[a]
    /\ \A a \in Users : transferredAverageStakedAmounts[a] <= peakStake[a]

(* Then neither does an average combined with the transferred one.         *)
LEMMA CombinedPeaked ==
  ASSUME RightsOK, NEW average \in Nat, NEW cumulative \in Nat, NEW a \in Users,
         NEW M \in Nat, average <= M, transferredAverageStakedAmounts[a] <= M
  PROVE  Combined(average, cumulative, a) <= M
<1>1. /\ transferredCumulativeRewards[a] \in Nat
      /\ transferredAverageStakedAmounts[a] \in Nat
  BY DEF RightsOK
<1>2. CASE cumulative + transferredCumulativeRewards[a] = 0
  BY <1>2 DEF Combined
<1>3. CASE cumulative + transferredCumulativeRewards[a] # 0
  <2>1. cumulative + transferredCumulativeRewards[a] \in Positive
    BY <1>1, <1>3 DEF Positive
  <2>2. (average * cumulative) \div (cumulative + transferredCumulativeRewards[a])
            + (transferredAverageStakedAmounts[a]
                   * transferredCumulativeRewards[a])
                  \div (cumulative + transferredCumulativeRewards[a]) <= M
    BY <1>1, <2>1, WeightedAverage
  <2> QED BY <1>3, <2>2 DEF Combined
<1> QED BY <1>2, <1>3

(* An update weighs the average so far with the stake.                     *)
LEMMA UpdatePeaked ==
  ASSUME IInv, AveragesPeaked, NEW as \in SUBSET Accounts, UpdateRewards(as),
         NEW a \in Accounts
  PROVE  averageStakedAmounts'[a] <= peakStake[a]
<1>1. /\ averageStakedAmounts[a] \in Nat /\ cumulativeRewards[a] \in Nat
      /\ stakedAmounts[a] \in Nat /\ peakStake[a] \in Nat
      /\ AccountReward(a) \in Nat
      /\ NextCumulativeReward(a) = cumulativeRewards[a] + AccountReward(a)
  BY RewardType DEF IInv, TypeOK, StakesOK, RewardsOK, NextCumulativeReward
<1>2. stakedAmounts[a] <= peakStake[a] /\ averageStakedAmounts[a] <= peakStake[a]
  BY DEF AveragesPeaked
<1>3. averageStakedAmounts'[a] = IF a \in Averaged(as) THEN NextAverage(a)
                                 ELSE averageStakedAmounts[a]
  BY DEF UpdateRewards
<1>4. CASE a \in Averaged(as)
  <2>1. NextCumulativeReward(a) > 0
    BY <1>4 DEF UpdateRewards
  <2>2. cumulativeRewards[a] + AccountReward(a) \in Positive
    BY <1>1, <2>1 DEF Positive
  <2>3. (averageStakedAmounts[a] * cumulativeRewards[a])
                \div (cumulativeRewards[a] + AccountReward(a))
            + (stakedAmounts[a] * AccountReward(a))
                  \div (cumulativeRewards[a] + AccountReward(a))
            <= peakStake[a]
    BY <1>1, <1>2, <2>2, WeightedAverage
  <2> QED BY <1>1, <1>3, <1>4, <2>3 DEF NextAverage
<1>5. CASE a \notin Averaged(as)
  BY <1>2, <1>3, <1>5
<1> QED BY <1>4, <1>5

(* What a step has to do to the largest stakes: it may only raise them,    *)
(* and must raise them with the stakes.                                    *)
PeaksRise ==
    \A a \in Accounts : /\ peakStake[a] <= peakStake'[a]
                        /\ stakedAmounts'[a] <= peakStake'[a]

LEMMA PeaksRiseKeeps ==
  ASSUME VInv, VInv', AveragesPeaked, PeaksRise,
         \/ \E as \in SUBSET Accounts : UpdateRewards(as)
         \/ UNCHANGED averageStakedAmounts,
         \A a \in Users : transferredAverageStakedAmounts'[a] <= peakStake'[a]
  PROVE  AveragesPeaked'
<1>1. ASSUME NEW a \in Accounts
      PROVE  averageStakedAmounts'[a] <= peakStake'[a]
  <2>1. averageStakedAmounts'[a] <= peakStake[a]
    <3>1. CASE UNCHANGED averageStakedAmounts
      BY <3>1 DEF AveragesPeaked
    <3>2. ASSUME NEW as \in SUBSET Accounts, UpdateRewards(as)
          PROVE  averageStakedAmounts'[a] <= peakStake[a]
      BY <3>2, UpdatePeaked DEF VInv
    <3> QED BY <3>1, <3>2
  <2>2. peakStake[a] <= peakStake'[a]
    BY DEF PeaksRise
  <2>3. /\ averageStakedAmounts'[a] \in Nat
        /\ peakStake[a] \in Nat /\ peakStake'[a] \in Nat
    BY DEF VInv, IInv, TypeOK, StakesOK, RewardsOK
  <2> QED BY <2>1, <2>2, <2>3
<1> QED BY <1>1 DEF AveragesPeaked, PeaksRise

(* The same for steps that hand on no average.                             *)
LEMMA PeaksKeep ==
  ASSUME VInv, VInv', AveragesPeaked, PeaksRise,
         \/ \E as \in SUBSET Accounts : UpdateRewards(as)
         \/ UNCHANGED averageStakedAmounts,
         UNCHANGED transferredAverageStakedAmounts
  PROVE  AveragesPeaked'
<1>1. ASSUME NEW a \in Users
      PROVE  transferredAverageStakedAmounts'[a] <= peakStake'[a]
  <2>1. /\ transferredAverageStakedAmounts[a] <= peakStake[a]
        /\ peakStake[a] <= peakStake'[a]
    BY UsersAreAccounts DEF AveragesPeaked, PeaksRise
  <2>2. /\ transferredAverageStakedAmounts[a] \in Nat
        /\ peakStake[a] \in Nat /\ peakStake'[a] \in Nat
    BY UsersAreAccounts DEF VInv, RightsOK, IInv, TypeOK, StakesOK
  <2> QED BY <2>1, <2>2
<1> QED BY <1>1, PeaksRiseKeeps

(* A change of a stake raises the largest stake with it.                   *)
LEMMA RestakePeaks ==
  ASSUME VInv, VInv', AveragesPeaked, NEW account \in Accounts,
         NEW token \in Tokens, NEW amount \in Int,
         Restake(account, token, amount)
  PROVE  PeaksRise
<1>1. /\ stakedAmounts' = [stakedAmounts EXCEPT ![account] = @ + amount]
      /\ peakStake' = [peakStake EXCEPT ![account] =
             IF stakedAmounts'[account] > @ THEN stakedAmounts'[account] ELSE @]
  BY DEF Restake
<1>2. /\ stakedAmounts \in [Accounts -> Nat] /\ stakedAmounts' \in [Accounts -> Nat]
      /\ peakStake \in [Accounts -> Nat]
  BY DEF VInv, IInv, TypeOK, StakesOK
<1>3. \A a \in Accounts : stakedAmounts[a] <= peakStake[a]
  BY DEF AveragesPeaked
<1> SUFFICES ASSUME NEW a \in Accounts
             PROVE  /\ peakStake[a] <= peakStake'[a]
                    /\ stakedAmounts'[a] <= peakStake'[a]
  BY DEF PeaksRise
<1>4. CASE a = account
  BY <1>1, <1>2, <1>4
<1>5. CASE a # account
  BY <1>1, <1>2, <1>3, <1>5
<1> QED BY <1>4, <1>5

(* A step that changes no stake leaves the largest ones.                   *)
LEMMA PeaksStay ==
  ASSUME VInv, AveragesPeaked, UNCHANGED <<stakedAmounts, peakStake>>
  PROVE  PeaksRise
BY DEF VInv, IInv, TypeOK, StakesOK, AveragesPeaked, PeaksRise

(* The receiver of an account takes over its largest stake too.            *)
LEMMA TransferPeaks ==
  ASSUME VInv, VInv', AveragesPeaked, NEW sender \in Users,
         NEW receiver \in Users, NEW token \in DepositTokens,
         AcceptTransfer(sender, receiver, token)
  PROVE  PeaksRise /\ peakStake[sender] <= peakStake'[receiver]
<1>1. sender \in Accounts /\ receiver \in Accounts /\ token \in Tokens
  BY UsersAreAccounts DEF Tokens
<1>2. /\ stakedAmounts \in [Accounts -> Nat] /\ stakedAmounts' \in [Accounts -> Nat]
      /\ peakStake \in [Accounts -> Nat]
      /\ depositBalances[sender][token] \in Nat
  BY <1>1 DEF VInv, IInv, TypeOK, StakesOK
<1>3. PICK amount \in Nat : amount = depositBalances[sender][token]
  BY <1>2
<1>4. PICK S : S = {peakStake[receiver], peakStake[sender],
                    stakedAmounts'[receiver]}
  OBVIOUS
<1>5. /\ stakedAmounts' = Moved(stakedAmounts, sender, receiver, amount)
      /\ peakStake' = [peakStake EXCEPT ![receiver] = Max(S)]
  BY <1>3, <1>4 DEF AcceptTransfer
<1>6. Max(S) \in S /\ \A y \in S : Max(S) >= y
  <2>1. \E x \in S : \A y \in S : x >= y
    BY <1>1, <1>2, <1>4
  <2> QED BY <2>1 DEF Max
<1>7. /\ peakStake'[receiver] = Max(S)
      /\ peakStake[receiver] <= peakStake'[receiver]
      /\ peakStake[sender] <= peakStake'[receiver]
      /\ stakedAmounts'[receiver] <= peakStake'[receiver]
  <2>1. peakStake'[receiver] = Max(S)
    BY <1>1, <1>2, <1>5
  <2>2. Max(S) \in Nat
    BY <1>1, <1>2, <1>4, <1>6
  <2>3. /\ Max(S) >= peakStake[receiver] /\ Max(S) >= peakStake[sender]
        /\ Max(S) >= stakedAmounts'[receiver]
    BY <1>4, <1>6
  <2>4. /\ peakStake[receiver] \in Nat /\ peakStake[sender] \in Nat
        /\ stakedAmounts'[receiver] \in Nat
    BY <1>1, <1>2
  <2> QED BY <2>1, <2>2, <2>3, <2>4
<1>8. ASSUME NEW a \in Accounts, a # receiver
      PROVE  /\ peakStake[a] <= peakStake'[a]
             /\ stakedAmounts'[a] <= peakStake'[a]
  <2>1. peakStake'[a] = peakStake[a] /\ peakStake[a] \in Nat
    BY <1>2, <1>5, <1>8
  <2>2. /\ a \in DOMAIN stakedAmounts
        /\ stakedAmounts[a] \in Nat /\ stakedAmounts'[a] \in Nat
        /\ stakedAmounts[a] <= peakStake[a]
    BY <1>2 DEF AveragesPeaked
  <2>3. stakedAmounts'[a] = stakedAmounts[a] + 0
                                - (IF a = sender THEN amount ELSE 0)
    BY <1>5, <1>8, <2>2 DEF Moved
  <2> QED BY <2>1, <2>2, <2>3
<1> QED BY <1>7, <1>8 DEF PeaksRise

(* The average that the receiver gets was the sender's.                    *)
LEMMA TransferPeaked ==
  ASSUME VInv, VInv', AveragesPeaked, NEW sender \in Users,
         NEW receiver \in Users, NEW token \in DepositTokens,
         AcceptTransfer(sender, receiver, token)
  PROVE  AveragesPeaked'
<1>1. PeaksRise /\ peakStake[sender] <= peakStake'[receiver]
  BY TransferPeaks
<1>2. PICK as \in SUBSET Accounts : UpdateRewards(as)
  <2>1. {sender} \cup (IF depositBalances[sender][token] > 0 THEN {receiver}
                       ELSE {}) \in SUBSET Accounts
    BY UsersAreAccounts
  <2> QED BY <2>1 DEF AcceptTransfer
<1>3. PICK average : average = Combined(averageStakedAmounts'[sender],
                                        cumulativeRewards'[sender], sender)
  OBVIOUS
<1>4. transferredAverageStakedAmounts' =
          [transferredAverageStakedAmounts EXCEPT ![receiver] = average,
                                                  ![sender] = 0]
  BY <1>3 DEF AcceptTransfer, TransferStakeValues
<1>5. average \in Nat /\ average <= peakStake[sender]
  <2>1. /\ averageStakedAmounts'[sender] \in Nat
        /\ cumulativeRewards'[sender] \in Nat /\ peakStake[sender] \in Nat
    BY UsersAreAccounts DEF VInv, IInv, TypeOK, StakesOK, RewardsOK
  <2>2. averageStakedAmounts'[sender] <= peakStake[sender]
    BY <1>2, UsersAreAccounts, UpdatePeaked DEF VInv
  <2>3. transferredAverageStakedAmounts[sender] <= peakStake[sender]
    BY DEF AveragesPeaked
  <2>4. RightsOK
    BY DEF VInv
  <2> QED BY <1>3, <2>1, <2>2, <2>3, <2>4, CombinedPeaked, CombinedType
<1>6. ASSUME NEW a \in Users
      PROVE  transferredAverageStakedAmounts'[a] <= peakStake'[a]
  <2>1. /\ peakStake[a] \in Nat /\ peakStake'[a] \in Nat
        /\ peakStake[sender] \in Nat /\ peakStake[a] <= peakStake'[a]
    BY <1>1, UsersAreAccounts DEF VInv, IInv, TypeOK, StakesOK, PeaksRise
  <2>2. /\ transferredAverageStakedAmounts \in [Users -> Nat]
        /\ transferredAverageStakedAmounts[a] \in Nat
        /\ transferredAverageStakedAmounts[a] <= peakStake[a]
    BY DEF VInv, RightsOK, AveragesPeaked
  <2>3. CASE a = sender
    BY <1>4, <2>1, <2>2, <2>3
  <2>4. CASE a # sender /\ a = receiver
    BY <1>1, <1>4, <1>5, <2>1, <2>2, <2>4
  <2>5. CASE a # sender /\ a # receiver
    BY <1>4, <2>1, <2>2, <2>5
  <2> QED BY <2>3, <2>4, <2>5
<1> QED BY <1>1, <1>2, <1>6, PeaksRiseKeeps

(* So does every step.                                                     *)
LEMMA AveragesKept ==
  ASSUME VInv, VInv', [NextVester]_allVars, AveragesPeaked
  PROVE  AveragesPeaked'
<1>1. ASSUME NEW a \in Users, NEW token \in DepositTokens, NEW n \in Amounts,
             \/ Stake(rewardRouter, a, token, n)
             \/ Unstake(rewardRouter, a, token, n),
             UNCHANGED accountVars
      PROVE  AveragesPeaked'
  <2>1. a \in Accounts /\ token \in Tokens /\ n \in Int /\ - n \in Int
        /\ {a} \in SUBSET Accounts
    BY UsersAreAccounts, TrackerAssumption DEF Tokens
  <2>2. Restake(a, token, n) \/ Restake(a, token, - n)
    BY <1>1 DEF Stake, Unstake
  <2>3. PeaksRise
    BY <2>1, <2>2, RestakePeaks
  <2>4. UpdateRewards({a})
    BY <2>2 DEF Restake
  <2>5. UNCHANGED transferredAverageStakedAmounts
    BY <1>1 DEF accountVars, rightVars
  <2> QED BY <2>1, <2>3, <2>4, <2>5, PeaksKeep
<1>2. ASSUME NEW as \in SUBSET Accounts, UpdateRewards(as), UNCHANGED stakeVars,
             UNCHANGED transferredAverageStakedAmounts
      PROVE  AveragesPeaked'
  BY <1>2, PeaksStay, PeaksKeep DEF stakeVars
<1>3. CASE UNCHANGED <<stakedAmounts, peakStake, rewardVars,
                       transferredAverageStakedAmounts>>
  <2>1. UNCHANGED averageStakedAmounts
    BY <1>3 DEF rewardVars
  <2> QED BY <1>3, <2>1, PeaksStay, PeaksKeep
<1>4. CASE TrackerStep
  <2>1. /\ {} \in SUBSET Accounts /\ UNCHANGED accountVars
        /\ UNCHANGED transferredAverageStakedAmounts
    BY <1>4 DEF TrackerStep, accountVars, rightVars
  <2>2. CASE Refresh \/ \E n \in Rates : SetRate(n)
    BY <1>2, <2>1, <2>2 DEF Refresh, SetRate
  <2>3. CASE UpdateLastDistributionTime \/ Tick
    BY <1>3, <2>1, <2>3 DEF UpdateLastDistributionTime, Tick, stakeVars
  <2> QED BY <1>1, <1>4, <2>1, <2>2, <2>3, Zenon DEF TrackerStep
<1>5. ASSUME NEW a \in Users, ClaimRewards(a) PROVE AveragesPeaked'
  <2>1. {a} \in SUBSET Accounts
    BY UsersAreAccounts
  <2> QED BY <1>2, <1>5, <2>1 DEF ClaimRewards, Claim, rightVars
<1>6. CASE \/ Vesting \/ UNCHANGED allVars
           \/ \E a, b \in Users : SignalTransfer(a, b)
  <2>1. UNCHANGED <<stakedAmounts, peakStake, rewardVars,
                    transferredAverageStakedAmounts>>
    BY <1>6
    DEF Vesting, ClaimVested, Withdraw, DepositToVest, SetBonusRewards,
        WithdrawToken, SignalTransfer, allVars, trackerVars, vars, stakeVars,
        accountVars, rightVars
  <2> QED BY <1>3, <2>1
<1>7. ASSUME NEW a \in Users, NEW b \in Users, NEW token \in DepositTokens,
             AcceptTransfer(a, b, token)
      PROVE  AveragesPeaked'
  BY <1>7, TransferPeaked
<1> QED BY <1>4, <1>5, <1>6, <1>7, Zenon DEF NextVester, AccountTransfer

(* What a vesting account has to reserve is measured by an average that    *)
(* never exceeds the largest stake that it, or an account that was         *)
(* transferred to it, ever had, however averages are weighed and passed on.*)
THEOREM AveragesWithinStakes == SpecVester => []CombinedAverageWithinStakes
<1>1. InitVester => AveragesPeaked
  BY UsersAreAccounts DEF InitVester, Init, AveragesPeaked
<1>2. VInv /\ VInv' /\ [NextVester]_allVars /\ AveragesPeaked => AveragesPeaked'
  BY AveragesKept
<1>3. VInv /\ AveragesPeaked => CombinedAverageWithinStakes
  <2> SUFFICES ASSUME VInv, AveragesPeaked, NEW a \in Users
               PROVE  CombinedAverage(a) <= peakStake[a]
    BY DEF CombinedAverageWithinStakes
  <2>1. /\ averageStakedAmounts[a] \in Nat /\ cumulativeRewards[a] \in Nat
        /\ peakStake[a] \in Nat /\ a \in Accounts
    BY UsersAreAccounts DEF VInv, IInv, TypeOK, StakesOK, RewardsOK
  <2>2. /\ averageStakedAmounts[a] <= peakStake[a]
        /\ transferredAverageStakedAmounts[a] <= peakStake[a]
    BY <2>1 DEF AveragesPeaked
  <2>3. RightsOK
    BY DEF VInv
  <2> QED BY <2>1, <2>2, <2>3, CombinedPeaked DEF CombinedAverage
<1> QED BY <1>1, <1>2, <1>3, VesterInvariance, PTL DEF SpecVester
=============================================================================
