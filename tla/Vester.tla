-------------------------------- MODULE Vester --------------------------------
(***************************************************************************)
(* Vesting: contracts/staking/Vester.sol as it is deployed for GLP, on top *)
(* of the RewardTracker whose shares it reserves and whose records limit   *)
(* what may be vested, and the transfer of an account by RewardRouterV2,   *)
(* which moves stakes, rewards and the right to vest in one transaction.   *)
(*                                                                         *)
(* The tracker is private, as deployed: its callers are the reward router  *)
(* and the vester. Rewards are claimed in the token that is vested         *)
(* (esGMX); they are paid out in another one (GMX).                        *)
(***************************************************************************)
EXTENDS RewardTracker

CONSTANTS
    vester,                 \* the contract, as a holder of tracker shares
    rewardRouter,           \* the only handler that acts for accounts
    NoReceiver,
    VestingDuration,
    InitEsGmx, InitClaimFunds,
    BonusGrants, FundWithdrawals,   \* inputs
    MaxEvents               \* bound: signals, grants and withdrawals of funds

Users == Accounts \ {vester}

ASSUME VesterAssumption ==
    /\ vester \in Accounts /\ NoReceiver \notin Accounts
    /\ rewardRouter \in Handlers
    /\ RewardToken \notin DepositTokens
    /\ VestingDuration \in Nat \ {0}
    /\ InitEsGmx \in Nat /\ InitClaimFunds \in Nat
    /\ BonusGrants \subseteq Nat /\ FundWithdrawals \subseteq Nat
    /\ MaxEvents \in Nat

VARIABLES
    vestingBalances,                \* the vester's balances
    pairAmounts,                    \* shares reserved, per account
    cumulativeClaimAmounts, claimedAmounts, lastVestingTimes,
    transferredAverageStakedAmounts, transferredCumulativeRewards,
    cumulativeRewardDeductions, bonusRewards,
    pendingReceivers,               \* of RewardRouterV2
    esGmx,                  \* esGMX of each account, in hand or staked as such
    esHeld, claimFunds,     \* what the vester holds of esGMX and of GMX
    entrusted,              \* history: esGMX deposited, less what was returned
                            \* and what was paid for it
    events                  \* counted up to MaxEvents

vestingVars == <<vestingBalances, pairAmounts, cumulativeClaimAmounts,
                 claimedAmounts, lastVestingTimes, esHeld, claimFunds, entrusted>>
rightVars == <<transferredAverageStakedAmounts, transferredCumulativeRewards,
               cumulativeRewardDeductions, bonusRewards>>
accountVars == <<vestingVars, rightVars, pendingReceivers, esGmx, events>>
trackerVars == vars
allVars == <<vars, accountVars>>

InitVester ==
    /\ Init
    /\ vestingBalances = [a \in Users |-> 0]
    /\ pairAmounts = [a \in Users |-> 0]
    /\ cumulativeClaimAmounts = [a \in Users |-> 0]
    /\ claimedAmounts = [a \in Users |-> 0]
    /\ lastVestingTimes = [a \in Users |-> 0]
    /\ transferredAverageStakedAmounts = [a \in Users |-> 0]
    /\ transferredCumulativeRewards = [a \in Users |-> 0]
    /\ cumulativeRewardDeductions = [a \in Users |-> 0]
    /\ bonusRewards = [a \in Users |-> 0]
    /\ pendingReceivers = [a \in Users |-> NoReceiver]
    /\ esGmx = [a \in Users |-> InitEsGmx]
    /\ esHeld = 0 /\ claimFunds = InitClaimFunds
    /\ entrusted = [a \in Users |-> 0]
    /\ events = 0

(* A bound for model checking.                                             *)
CountEvent == events < MaxEvents /\ events' = events + 1

-----------------------------------------------------------------------------
(* What has vested, and what may be vested.                                *)

TotalVested(a) == vestingBalances[a] + cumulativeClaimAmounts[a]

NextClaimable(a) ==
    LET amount == (TotalVested(a) * (now - lastVestingTimes[a]))
                      \div VestingDuration
    IN  IF amount < vestingBalances[a] THEN amount ELSE vestingBalances[a]

ClaimableVested(a) ==
    cumulativeClaimAmounts[a] - claimedAmounts[a] + NextClaimable(a)

MaxVestable(a) ==
    LET rights == transferredCumulativeRewards[a] + bonusRewards[a]
                      + cumulativeRewards[a]
    IN  IF rights < cumulativeRewardDeductions[a] THEN 0
        ELSE rights - cumulativeRewardDeductions[a]

(* Faulty: the transferred average is added in full.                       *)
AddedAverage(average, cumulative, a) ==
    average + transferredAverageStakedAmounts[a]

(* getCombinedAverageStakedAmount, given the tracker's two values of a.    *)
Combined(average, cumulative, a) ==
    LET transferred == transferredCumulativeRewards[a]
        total == cumulative + transferred
    IN  IF total = 0 THEN 0
        ELSE (average * cumulative) \div total
             + (transferredAverageStakedAmounts[a] * transferred) \div total

CombinedAverage(a) == Combined(averageStakedAmounts[a], cumulativeRewards[a], a)

PairAmount(a, esAmount) ==
    IF MaxVestable(a) = 0 THEN 0
    ELSE (esAmount * CombinedAverage(a)) \div MaxVestable(a)

-----------------------------------------------------------------------------
(* The vester's operations.                                                *)

(* _deposit: what has vested so far is moved aside first. More shares are  *)
(* reserved if the new balance needs them, never fewer.                    *)
DepositToVest(a, amount) ==
    LET balance == vestingBalances[a] - NextClaimable(a) + amount
        needed == PairAmount(a, balance)
        reserve == IF needed > pairAmounts[a] THEN needed - pairAmounts[a] ELSE 0
    IN
    /\ amount > 0 /\ esGmx[a] >= amount /\ balances[a] >= reserve
    /\ TotalVested(a) + amount <= MaxVestable(a)
    /\ lastVestingTimes' = [lastVestingTimes EXCEPT ![a] = now]
    /\ vestingBalances' = [vestingBalances EXCEPT ![a] = balance]
    /\ cumulativeClaimAmounts' =
           [cumulativeClaimAmounts EXCEPT ![a] = @ + NextClaimable(a)]
    /\ esGmx' = [esGmx EXCEPT ![a] = @ - amount]
    /\ esHeld' = esHeld + amount - NextClaimable(a)
    /\ entrusted' = [entrusted EXCEPT ![a] = @ + amount]
    /\ pairAmounts' = [pairAmounts EXCEPT ![a] = @ + reserve]
    /\ balances' = [balances EXCEPT ![a] = @ - reserve, ![vester] = @ + reserve]
    /\ UNCHANGED <<depositBalances, totalDepositSupply, stakedAmounts,
                   totalSupply, peakStake, rewardVars, distributorVars,
                   configVars, cumulativeRewardPerToken, held, now,
                   claimedAmounts, claimFunds, rightVars, pendingReceivers,
                   events>>

(* _claim                                                                  *)
ClaimVested(a) ==
    /\ claimFunds >= ClaimableVested(a)
    /\ lastVestingTimes' = [lastVestingTimes EXCEPT ![a] = now]
    /\ vestingBalances' = [vestingBalances EXCEPT ![a] = @ - NextClaimable(a)]
    /\ cumulativeClaimAmounts' =
           [cumulativeClaimAmounts EXCEPT ![a] = @ + NextClaimable(a)]
    /\ claimedAmounts' = [claimedAmounts EXCEPT ![a] = @ + ClaimableVested(a)]
    /\ esHeld' = esHeld - NextClaimable(a)
    /\ claimFunds' = claimFunds - ClaimableVested(a)
    /\ entrusted' = [entrusted EXCEPT ![a] = @ - ClaimableVested(a)]
    /\ UNCHANGED <<trackerVars, pairAmounts, rightVars, pendingReceivers, esGmx,
                   events>>

(* withdraw: a claim, then the rest of the esGMX and the reserved shares.  *)
Withdraw(a) ==
    LET returned == vestingBalances[a] - NextClaimable(a) IN
    /\ TotalVested(a) > 0 /\ claimFunds >= ClaimableVested(a)
    /\ balances[vester] >= pairAmounts[a]
    /\ vestingBalances' = [vestingBalances EXCEPT ![a] = 0]
    /\ cumulativeClaimAmounts' = [cumulativeClaimAmounts EXCEPT ![a] = 0]
    /\ claimedAmounts' = [claimedAmounts EXCEPT ![a] = 0]
    /\ lastVestingTimes' = [lastVestingTimes EXCEPT ![a] = 0]
    /\ esHeld' = esHeld - vestingBalances[a]
    /\ claimFunds' = claimFunds - ClaimableVested(a)
    /\ entrusted' = [entrusted EXCEPT ![a] = @ - ClaimableVested(a) - returned]
    /\ esGmx' = [esGmx EXCEPT ![a] = @ + returned]
    /\ pairAmounts' = [pairAmounts EXCEPT ![a] = 0]
    /\ balances' = [balances EXCEPT ![a] = @ + pairAmounts[a],
                                    ![vester] = @ - pairAmounts[a]]
    /\ UNCHANGED <<depositBalances, totalDepositSupply, stakedAmounts,
                   totalSupply, peakStake, rewardVars, distributorVars,
                   configVars, cumulativeRewardPerToken, held, now,
                   rightVars, pendingReceivers, events>>

(* Governance.                                                             *)
SetBonusRewards(a, amount) ==
    /\ CountEvent
    /\ bonusRewards' = [bonusRewards EXCEPT ![a] = amount]
    /\ UNCHANGED <<trackerVars, vestingVars, transferredAverageStakedAmounts,
                   transferredCumulativeRewards, cumulativeRewardDeductions,
                   pendingReceivers, esGmx>>

(* The vester's withdrawToken, of the token that it pays.                  *)
WithdrawToken(amount) ==
    /\ CountEvent
    /\ amount <= claimFunds
    /\ claimFunds' = claimFunds - amount
    /\ UNCHANGED <<trackerVars, vestingBalances, pairAmounts,
                   cumulativeClaimAmounts, claimedAmounts, lastVestingTimes,
                   esHeld, entrusted, rightVars, pendingReceivers, esGmx>>

-----------------------------------------------------------------------------
(* RewardRouterV2: an account is transferred, in two transactions.         *)

NotVesting(a) == vestingBalances[a] = 0

ValidReceiver(a) ==
    /\ averageStakedAmounts[a] = 0 /\ cumulativeRewards[a] = 0
    /\ transferredAverageStakedAmounts[a] = 0
    /\ transferredCumulativeRewards[a] = 0
    /\ NotVesting(a)

SignalTransfer(sender, receiver) ==
    /\ CountEvent
    /\ NotVesting(sender) /\ ValidReceiver(receiver)
    /\ pendingReceivers' = [pendingReceivers EXCEPT ![sender] = receiver]
    /\ UNCHANGED <<trackerVars, vestingVars, rightVars, esGmx>>

(* Faulty: the sender keeps the right to vest what it has earned.          *)
Undeducted(sender, earned) == cumulativeRewardDeductions

Deducted(sender, earned) ==
    [cumulativeRewardDeductions EXCEPT ![sender] = @ + earned]

(* transferStakeValues, after the tracker has moved on in the same step.   *)
TransferStakeValues(sender, receiver) ==
    LET earned == cumulativeRewards'[sender] - cumulativeRewardDeductions[sender]
    IN
    /\ earned >= 0
    /\ transferredAverageStakedAmounts' =
           [transferredAverageStakedAmounts EXCEPT
               ![receiver] = Combined(averageStakedAmounts'[sender],
                                      cumulativeRewards'[sender], sender),
               ![sender] = 0]
    /\ transferredCumulativeRewards' =
           [transferredCumulativeRewards EXCEPT
               ![receiver] = transferredCumulativeRewards[sender] + earned,
               ![sender] = 0]
    /\ cumulativeRewardDeductions' = Deducted(sender, earned)
    /\ bonusRewards' = [bonusRewards EXCEPT ![receiver] = bonusRewards[sender],
                                            ![sender] = 0]

(* A function moved from the sender to the receiver by `amount`.           *)
Moved(f, sender, receiver, amount) ==
    [a \in DOMAIN f |-> f[a] + (IF a = receiver THEN amount ELSE 0)
                             - (IF a = sender THEN amount ELSE 0)]

(* acceptTransfer: the sender's rewards are compounded, its stake is taken *)
(* out and staked for the receiver, who also gets its esGMX and its right  *)
(* to vest. No reward becomes due between these calls.                     *)
AcceptTransfer(sender, receiver, token) ==
    LET reward == Claimable(sender)
        amount == depositBalances[sender][token]
        touched == {sender} \cup (IF amount > 0 THEN {receiver} ELSE {})
    IN
    /\ NotVesting(sender) /\ pendingReceivers[sender] = receiver
    /\ ValidReceiver(receiver)
    /\ CanUnstake(sender, token, amount)
    /\ isDepositToken[token]
    /\ Holdings(RewardToken, - reward)[RewardToken] >= 0
    /\ pendingReceivers' = [pendingReceivers EXCEPT ![sender] = NoReceiver]
    /\ UpdateRewards(touched)
    /\ claimableReward' = [a \in Accounts |->
           IF a = sender THEN 0
           ELSE IF a \in touched THEN Claimable(a) ELSE claimableReward[a]]
    /\ held' = Holdings(RewardToken, - reward)
    /\ received' = [received EXCEPT ![sender] = @ + reward]
    /\ esGmx' = Moved([esGmx EXCEPT ![sender] = @ + reward], sender, receiver,
                      esGmx[sender] + reward)
    /\ stakedAmounts' = Moved(stakedAmounts, sender, receiver, amount)
    /\ balances' = Moved(balances, sender, receiver, amount)
    /\ depositBalances' = [a \in Accounts |->
           [depositBalances[a] EXCEPT ![token] =
               @ + (IF a = receiver THEN amount ELSE 0)
                 - (IF a = sender THEN amount ELSE 0)]]
    /\ peakStake' = [peakStake EXCEPT ![receiver] =
           Max({@, peakStake[sender], stakedAmounts'[receiver]})]
    /\ TransferStakeValues(sender, receiver)
    /\ UNCHANGED <<totalDepositSupply, totalSupply, rate, configVars, now,
                   vestingVars, events>>

-----------------------------------------------------------------------------
(* The tracker, called by the router. A claim adds to the account's esGMX. *)

ClaimRewards(a) ==
    /\ Claim(rewardRouter, a)
    /\ esGmx' = [esGmx EXCEPT ![a] = @ + Claimable(a)]
    /\ UNCHANGED <<vestingVars, rightVars, pendingReceivers, events>>

TrackerStep ==
    /\ \/ \E a \in Users, token \in DepositTokens, n \in Amounts :
              \/ Stake(rewardRouter, a, token, n)
              \/ Unstake(rewardRouter, a, token, n)
       \/ Refresh
       \/ \E n \in Rates : SetRate(n)
       \/ UpdateLastDistributionTime
       \/ Tick
    /\ UNCHANGED accountVars

Vesting ==
    \/ \E a \in Users : \/ ClaimVested(a)
                        \/ Withdraw(a)
                        \/ \E n \in Amounts : DepositToVest(a, n)
                        \/ \E n \in BonusGrants : SetBonusRewards(a, n)
    \/ \E n \in FundWithdrawals : WithdrawToken(n)

AccountTransfer ==
    \E a, b \in Users : \/ SignalTransfer(a, b)
                        \/ \E token \in DepositTokens : AcceptTransfer(a, b, token)

NextVester ==
    TrackerStep \/ Vesting \/ AccountTransfer \/ \E a \in Users : ClaimRewards(a)

SpecVester == InitVester /\ [][NextVester]_allVars

-----------------------------------------------------------------------------
(* Properties.                                                             *)

(* Nothing deposited is lost or paid twice, over any sequence of deposits, *)
(* partial claims and withdrawals: of each account the vester has exactly  *)
(* what it took in and has not yet returned or paid for. No claim is ever  *)
(* refused because more was claimed than has vested.                       *)
TokensKept ==
    \A a \in Users :
        /\ entrusted[a] = TotalVested(a) - claimedAmounts[a]
        /\ claimedAmounts[a] <= cumulativeClaimAmounts[a]

(* Reserved shares stay staked, and can always be got back: an account     *)
(* with a reserve has something to withdraw.                               *)
ReserveStaked ==
    \A a \in Users :
        /\ stakedAmounts[a] = balances[a] + pairAmounts[a]
        /\ pairAmounts[a] > 0 => TotalVested(a) > 0

(* However accounts are transferred, whatever has been earned can be       *)
(* vested by one account at a time.                                        *)
RightsVestOnce ==
    SumFunction([a \in Users |-> transferredCumulativeRewards[a]
                                    + cumulativeRewards[a]
                                    - cumulativeRewardDeductions[a]])
        <= SumFunctionOnSet(cumulativeRewards, Users)

(* The ledgers of vester, tracker and router agree.                        *)
VestingAddsUp == TokensKept /\ ReserveStaked /\ RightsVestOnce

(* The average stake that a vesting account has to reserve, its own and    *)
(* the transferred one taken together, never exceeds the largest stake     *)
(* that it or an account transferred to it ever had.                       *)
CombinedAverageWithinStakes ==
    \A a \in Users : CombinedAverage(a) <= peakStake[a]
=============================================================================
