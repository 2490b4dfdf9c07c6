----------------------------- MODULE MCGlpManager -----------------------------
(* Small instances of GlpManager for TLC.                                  *)
EXTENDS GlpManager, MCVault

CONSTANTS lp1, lp2, rewardRouter

(* Prices in tenths of a USDG, so that the AUM is rounded.                 *)
ShareQuotes == [t \in Token |-> IF t = usdc THEN {Flat(10)}
                                ELSE {Flat(15), Wide(25, 4)}]
ShareSends == [a \in Asset |-> IF a = usdc THEN {5} ELSE {}]
ShareFees == [NoFees EXCEPT !.taxBasisPoints = 5,
                            !.mintBurnFeeBasisPoints = 5,
                            !.swapFeeBasisPoints = 5,
                            !.marginFeeBasisPoints = 5]
Liquidity2 == [t \in Token |-> IF t = usdc THEN {30} ELSE {10}]
ShortPoolDeposit == [t \in Token |-> IF t = usdc THEN {2400} ELSE {}]
Adjustments == {<<0, 400>>}
(* What the migration reads off the Vault while nothing is shorted.        *)
MigratedAverages == {[t \in Volatile |-> 0]}
ProviderSymmetry == Permutations(Providers)
=============================================================================
