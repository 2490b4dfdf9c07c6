------------------------------- MODULE MCVester -------------------------------
(* Small instances of Vester for TLC.                                      *)
EXTENDS Vester, TLC

CONSTANTS alice, bob, carol, feeGlp, esGmxToken

UserSymmetry == Permutations(Users)

(* States are the same if they differ only in a time from which nothing    *)
(* vests, or in a history that no property here reads.                     *)
VestingView ==
    <<stakeVars, claimableReward, previousCumulatedRewardPerToken,
      cumulativeRewards, averageStakedAmounts, distributorVars, configVars,
      cumulativeRewardPerToken, held, now, vestingBalances, pairAmounts,
      cumulativeClaimAmounts, claimedAmounts, esHeld, claimFunds, entrusted,
      [a \in Users |-> IF vestingBalances[a] = 0 THEN 0 ELSE lastVestingTimes[a]],
      rightVars, pendingReceivers, esGmx, events>>
=============================================================================
