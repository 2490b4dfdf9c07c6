----------------------------- MODULE RewardTracker -----------------------------
(***************************************************************************)
(* Staking: contracts/staking/RewardTracker.sol with the distributor that  *)
(* feeds it, RewardDistributor.sol or, when Bonus is TRUE,                 *)
(* BonusDistributor.sol. Accounts stake deposit tokens; whenever somebody  *)
(* calls the tracker it pulls the rewards that have become due and spreads *)
(* them over the supply by raising cumulativeRewardPerToken.               *)
(*                                                                         *)
(* A step is one transaction. The reward token may itself be a deposit     *)
(* token, as esGMX is, so that stakes and unclaimed rewards are held in    *)
(* one balance.                                                            *)
(***************************************************************************)
EXTENDS Integers, FiniteSets, FiniteSetsExt

CONSTANTS
    Accounts,
    Handlers,               \* isHandler: trusted contracts
    DepositTokens,          \* tokens that may be made deposit tokens
    RewardToken,
    Bonus,                  \* TRUE for BonusDistributor
    Precision,              \* PRECISION
    BPS, BonusDuration,     \* BASIS_POINTS_DIVISOR, BONUS_DURATION
    InitFunds, StartTime,
    Amounts, Rates, FundAmounts, PrivateSettings, DepositSettings, \* inputs
    MaxSupply, MaxTime      \* bounds only model checking needs

Tokens == DepositTokens \cup {RewardToken}
Callers == Accounts \cup Handlers
Modes == {"transfer", "staking", "claiming"}

ASSUME TrackerAssumption ==
    /\ IsFiniteSet(Accounts) /\ IsFiniteSet(DepositTokens)
    /\ Bonus \in BOOLEAN
    /\ {Precision, BPS, BonusDuration, StartTime} \subseteq Nat \ {0}
    /\ InitFunds \in Nat
    /\ Amounts \subseteq Nat /\ Rates \subseteq Nat /\ FundAmounts \subseteq Nat
    /\ PrivateSettings \subseteq SUBSET Modes
    /\ DepositSettings \subseteq BOOLEAN
    /\ MaxSupply \in Nat /\ MaxTime \in Nat

VARIABLES
    depositBalances, totalDepositSupply,    \* stakes, per token
    stakedAmounts,                          \* stakes, all tokens together
    balances, totalSupply,                  \* the tracker's own token
    cumulativeRewardPerToken,
    claimableReward, previousCumulatedRewardPerToken,
    cumulativeRewards, averageStakedAmounts,
    isDepositToken, privateModes,
    held,                   \* balanceOf(tracker)
    funds,                  \* the distributor's balance of RewardToken
    rate,                   \* tokensPerInterval, bonusMultiplierBasisPoints
    lastDistributionTime,
    now,                    \* block.timestamp
    received,               \* history: rewards paid to each account
    peakStake               \* history: the largest stake of each account

stakeVars == <<depositBalances, totalDepositSupply, stakedAmounts, balances,
               totalSupply, peakStake>>
rewardVars == <<claimableReward, previousCumulatedRewardPerToken,
                cumulativeRewards, averageStakedAmounts, received>>
distributorVars == <<funds, rate, lastDistributionTime>>
configVars == <<isDepositToken, privateModes>>
vars == <<stakeVars, rewardVars, distributorVars, configVars,
          cumulativeRewardPerToken, held, now>>

StakesOK ==
    /\ depositBalances \in [Accounts -> [Tokens -> Nat]]
    /\ totalDepositSupply \in [Tokens -> Nat]
    /\ stakedAmounts \in [Accounts -> Nat] /\ balances \in [Accounts -> Nat]
    /\ totalSupply \in Nat /\ peakStake \in [Accounts -> Nat]
RewardsOK ==
    /\ cumulativeRewardPerToken \in Nat
    /\ claimableReward \in [Accounts -> Nat]
    /\ previousCumulatedRewardPerToken \in [Accounts -> Nat]
    /\ cumulativeRewards \in [Accounts -> Nat]
    /\ averageStakedAmounts \in [Accounts -> Nat]
    /\ received \in [Accounts -> Nat]
DistributorOK ==
    /\ isDepositToken \in [Tokens -> BOOLEAN] /\ privateModes \in SUBSET Modes
    /\ held \in [Tokens -> Nat] /\ funds \in Nat /\ rate \in Nat
    /\ lastDistributionTime \in Nat /\ now \in Nat
    /\ lastDistributionTime <= now
(* The variables keep their types: no ledger goes below zero and rewards   *)
(* are never distributed ahead of time.                                    *)
TypeOK == StakesOK /\ RewardsOK /\ DistributorOK

Init ==
    /\ depositBalances = [a \in Accounts |-> [t \in Tokens |-> 0]]
    /\ totalDepositSupply = [t \in Tokens |-> 0]
    /\ stakedAmounts = [a \in Accounts |-> 0]
    /\ balances = [a \in Accounts |-> 0] /\ totalSupply = 0
    /\ cumulativeRewardPerToken = 0
    /\ claimableReward = [a \in Accounts |-> 0]
    /\ previousCumulatedRewardPerToken = [a \in Accounts |-> 0]
    /\ cumulativeRewards = [a \in Accounts |-> 0]
    /\ averageStakedAmounts = [a \in Accounts |-> 0]
    /\ isDepositToken = [t \in Tokens |-> t \in DepositTokens]
    /\ privateModes = {}
    /\ held = [t \in Tokens |-> 0] /\ funds = InitFunds
    /\ rate = 0 /\ lastDistributionTime = 0 /\ now = StartTime
    /\ received = [a \in Accounts |-> 0]
    /\ peakStake = [a \in Accounts |-> 0]

-----------------------------------------------------------------------------
(* The distributor: pendingRewards and distribute.                         *)

PendingRewards ==
    LET timeDiff == now - lastDistributionTime
    IN  IF Bonus THEN ((timeDiff * totalSupply * rate) \div BPS) \div BonusDuration
                 ELSE rate * timeDiff

(* Faulty: the distributor promises what it does not have.                 *)
UncappedDistribution == PendingRewards

Distributed == IF PendingRewards > funds THEN funds ELSE PendingRewards

Distribute ==
    /\ funds' = funds - Distributed
    /\ lastDistributionTime' = IF PendingRewards = 0 THEN lastDistributionTime
                               ELSE now

-----------------------------------------------------------------------------
(* _updateRewards                                                          *)

(* Faulty: the share per token is rounded up.                              *)
RoundedUpCumulative ==
    IF totalSupply > 0 /\ Distributed > 0
    THEN cumulativeRewardPerToken
             + (Distributed * Precision + totalSupply - 1) \div totalSupply
    ELSE cumulativeRewardPerToken

NextCumulative ==
    IF totalSupply > 0 /\ Distributed > 0
    THEN cumulativeRewardPerToken
             + (Distributed * Precision) \div totalSupply
    ELSE cumulativeRewardPerToken

Share(staked, perToken) == (staked * perToken) \div Precision

(* What an account's stake has earned since it was last updated.           *)
AccountReward(a) ==
    Share(stakedAmounts[a],
          NextCumulative - previousCumulatedRewardPerToken[a])

Claimable(a) == claimableReward[a] + AccountReward(a)

(* Faulty: an account keeps claiming from where it first began.            *)
PreviousKept(as) == previousCumulatedRewardPerToken

Previous(as) ==
    [a \in Accounts |-> IF a \in as /\ NextCumulative > 0 THEN NextCumulative
                        ELSE previousCumulatedRewardPerToken[a]]

Averaged(as) == {a \in as : Claimable(a) > 0 /\ stakedAmounts[a] > 0}
NextCumulativeReward(a) == cumulativeRewards[a] + AccountReward(a)

NextAverage(a) ==
    (averageStakedAmounts[a] * cumulativeRewards[a])
        \div NextCumulativeReward(a)
    + (stakedAmounts[a] * AccountReward(a)) \div NextCumulativeReward(a)

(* Rewards are distributed and the accounts in `as` (none or one) are      *)
(* brought up to date. A division by zero in NextAverage would revert.     *)
UpdateRewards(as) ==
    /\ Distribute
    /\ cumulativeRewardPerToken' = NextCumulative
    /\ previousCumulatedRewardPerToken' = Previous(as)
    /\ \A a \in Averaged(as) : NextCumulativeReward(a) > 0
    /\ cumulativeRewards' = [a \in Accounts |->
           IF a \in Averaged(as) THEN NextCumulativeReward(a)
           ELSE cumulativeRewards[a]]
    /\ averageStakedAmounts' = [a \in Accounts |->
           IF a \in Averaged(as) THEN NextAverage(a)
           ELSE averageStakedAmounts[a]]

(* The tracker's balances after `token` has moved by `delta`.              *)
Holdings(token, delta) ==
    [t \in Tokens |-> held[t] + (IF t = token THEN delta ELSE 0)
                              + (IF t = RewardToken THEN Distributed ELSE 0)]

-----------------------------------------------------------------------------
(* Staking.                                                                *)

(* A handler may act for anyone, others only for themselves and only while *)
(* the mode is not private.                                                *)
MayAct(caller, account, mode) ==
    caller \in Handlers \/ (caller = account /\ mode \notin privateModes)

(* Faulty: the new stake already shares in the rewards that were due, or   *)
(* the old one does not any more.                                          *)
CreditedLate(account, amount) ==
    [claimableReward EXCEPT ![account] =
        @ + Share(stakedAmounts[account] + amount,
                  NextCumulative - previousCumulatedRewardPerToken[account])]

Uncredited(account, amount) == claimableReward

Credited(account, amount) ==
    [claimableReward EXCEPT ![account] = Claimable(account)]

(* The stake of an account changes by `amount`, which may be negative.     *)
Restake(account, token, amount) ==
    /\ UpdateRewards({account})
    /\ claimableReward' = Credited(account, amount)
    /\ stakedAmounts' = [stakedAmounts EXCEPT ![account] = @ + amount]
    /\ depositBalances' = [depositBalances EXCEPT ![account][token] = @ + amount]
    /\ totalDepositSupply' = [totalDepositSupply EXCEPT ![token] = @ + amount]
    /\ balances' = [balances EXCEPT ![account] = @ + amount]
    /\ totalSupply' = totalSupply + amount
    /\ held' = Holdings(token, amount)
    /\ peakStake' = [peakStake EXCEPT ![account] =
           IF stakedAmounts'[account] > @ THEN stakedAmounts'[account] ELSE @]
    /\ UNCHANGED <<received, rate, configVars, now>>

Stake(caller, account, token, amount) ==
    /\ MayAct(caller, account, "staking")
    /\ amount > 0 /\ isDepositToken[token]
    /\ totalSupply + amount <= MaxSupply
    /\ Restake(account, token, amount)

(* What _unstake and _burn require.                                        *)
CanUnstake(account, token, amount) ==
    /\ stakedAmounts[account] >= amount
    /\ depositBalances[account][token] >= amount
    /\ totalDepositSupply[token] >= amount
    /\ balances[account] >= amount /\ totalSupply >= amount

Unstake(caller, account, token, amount) ==
    /\ MayAct(caller, account, "staking")
    /\ amount > 0 /\ isDepositToken[token]
    /\ CanUnstake(account, token, amount)
    /\ Holdings(token, - amount)[token] >= 0
    /\ Restake(account, token, - amount)

Claim(caller, account) ==
    LET amount == Claimable(account) IN
    /\ MayAct(caller, account, "claiming")
    /\ Holdings(RewardToken, - amount)[RewardToken] >= 0
    /\ UpdateRewards({account})
    /\ claimableReward' = [claimableReward EXCEPT ![account] = 0]
    /\ held' = Holdings(RewardToken, - amount)
    /\ received' = [received EXCEPT ![account] = @ + amount]
    /\ UNCHANGED <<stakeVars, rate, configVars, now>>

(* updateRewards()                                                         *)
Refresh ==
    /\ UpdateRewards({})
    /\ held' = Holdings(RewardToken, 0)
    /\ UNCHANGED <<stakeVars, claimableReward, received, rate, configVars, now>>

(* Faulty: the stake follows the token, but not the deposit behind it.     *)
TransferWithStake(caller, sender, recipient, amount) ==
    /\ MayAct(caller, sender, "transfer")
    /\ balances[sender] >= amount /\ sender # recipient
    /\ balances' = [balances EXCEPT ![sender] = @ - amount,
                                    ![recipient] = @ + amount]
    /\ stakedAmounts' = [stakedAmounts EXCEPT ![sender] = @ - amount,
                                              ![recipient] = @ + amount]
    /\ UNCHANGED <<depositBalances, totalDepositSupply, totalSupply, peakStake,
                   rewardVars, distributorVars, configVars,
                   cumulativeRewardPerToken, held, now>>

(* transfer, transferFrom: the tracker's token moves, the stake does not.  *)
Transfer(caller, sender, recipient, amount) ==
    /\ MayAct(caller, sender, "transfer")
    /\ balances[sender] >= amount /\ sender # recipient
    /\ balances' = [balances EXCEPT ![sender] = @ - amount,
                                    ![recipient] = @ + amount]
    /\ UNCHANGED <<depositBalances, totalDepositSupply, stakedAmounts,
                   totalSupply, peakStake, rewardVars, distributorVars,
                   configVars, cumulativeRewardPerToken, held, now>>

-----------------------------------------------------------------------------
(* Administration and environment.                                         *)

SetDepositToken(token, allowed) ==
    /\ isDepositToken' = [isDepositToken EXCEPT ![token] = allowed]
    /\ UNCHANGED <<stakeVars, rewardVars, distributorVars, privateModes,
                   cumulativeRewardPerToken, held, now>>

SetPrivateModes(modes) ==
    /\ privateModes' = modes
    /\ UNCHANGED <<stakeVars, rewardVars, distributorVars, isDepositToken,
                   cumulativeRewardPerToken, held, now>>

(* setTokensPerInterval, setBonusMultiplier                                *)
SetRate(amount) ==
    /\ lastDistributionTime # 0
    /\ UpdateRewards({})
    /\ held' = Holdings(RewardToken, 0)
    /\ rate' = amount
    /\ UNCHANGED <<stakeVars, claimableReward, received, configVars, now>>

UpdateLastDistributionTime ==
    /\ lastDistributionTime' = now
    /\ UNCHANGED <<stakeVars, rewardVars, funds, rate, configVars,
                   cumulativeRewardPerToken, held, now>>

(* The distributor's withdrawToken.                                        *)
WithdrawFunds(amount) ==
    /\ amount <= funds
    /\ funds' = funds - amount
    /\ UNCHANGED <<stakeVars, rewardVars, rate, lastDistributionTime,
                   configVars, cumulativeRewardPerToken, held, now>>

Tick ==
    /\ now < MaxTime
    /\ now' = now + 1
    /\ UNCHANGED <<stakeVars, rewardVars, distributorVars, configVars,
                   cumulativeRewardPerToken, held>>

-----------------------------------------------------------------------------
Staking ==
    \E caller \in Callers : \E account \in Accounts :
        \/ \E token \in Tokens : \E n \in Amounts :
               \/ Stake(caller, account, token, n)
               \/ Unstake(caller, account, token, n)
        \/ Claim(caller, account)
        \/ \E other \in Accounts : \E n \in Amounts :
               Transfer(caller, account, other, n)

Administration ==
    \/ \E token \in Tokens : \E b \in DepositSettings : SetDepositToken(token, b)
    \/ \E modes \in PrivateSettings : SetPrivateModes(modes)
    \/ \E n \in Rates : SetRate(n)
    \/ UpdateLastDistributionTime
    \/ \E n \in FundAmounts : WithdrawFunds(n)

Next == Staking \/ Refresh \/ Administration \/ Tick

Spec == Init /\ [][Next]_vars

-----------------------------------------------------------------------------
(* Properties.                                                             *)

(* What an account could claim now, and all it has earned so far.          *)
Owed(a) ==
    claimableReward[a]
    + Share(stakedAmounts[a],
            cumulativeRewardPerToken - previousCumulatedRewardPerToken[a])
Earned(a) == received[a] + Owed(a)

(* The tracker can pay back every stake and every reward at any time, even *)
(* when stakes and rewards are the same token: all roundings favour it.    *)
Solvent ==
    \A t \in Tokens :
        held[t] >= totalDepositSupply[t]
                       + (IF t = RewardToken
                          THEN SumFunction([a \in Accounts |-> Owed(a)]) ELSE 0)

(* The supply that rewards are divided by is the sum of the stakes that    *)
(* share in them, per account, per token and of the tracker's own token,   *)
(* although that token can be transferred away from a stake.               *)
StakesAddUp ==
    /\ \A a \in Accounts : stakedAmounts[a] = SumFunction(depositBalances[a])
    /\ \A t \in Tokens :
          totalDepositSupply[t]
              = SumFunction([a \in Accounts |-> depositBalances[a][t]])
    /\ totalSupply = SumFunction(stakedAmounts)
    /\ totalSupply = SumFunction(balances)

(* The running average never divides by zero: an account that is owed      *)
(* something has that in its cumulative rewards too. If this failed every  *)
(* later stake, unstake and claim of the account would revert.             *)
AverageComputable ==
    \A a \in Accounts : claimableReward[a] <= cumulativeRewards[a]

(* No step of anybody, the account itself included, lowers what an account *)
(* has earned: it does not matter who updates the rewards, or when.        *)
EarningsKept ==
    [][\A a \in Accounts : Earned(a)' >= Earned(a)]_vars
=============================================================================
