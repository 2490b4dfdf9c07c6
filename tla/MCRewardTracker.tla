---------------------------- MODULE MCRewardTracker ----------------------------
(* Small instances of RewardTracker for TLC.                               *)
EXTENDS RewardTracker, TLC

CONSTANTS alice, bob, rewardRouter, gmx, esGmx

AccountSymmetry == Permutations(Accounts)
PrivateOrNot == {{}, Modes}
=============================================================================
