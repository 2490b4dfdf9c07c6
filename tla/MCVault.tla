------------------------------- MODULE MCVault -------------------------------
(* Small instances of Vault for TLC.                                       *)
EXTENDS Vault, TLC

CONSTANTS eth, usdc, usdgToken, router, delegate, alice, bob

NoLimit == [t \in Token |-> 0]
NoShortLimit == [t \in Volatile |-> 0]
Weights == [t \in Token |-> 1]
Units == [a \in Asset |-> IF a = eth THEN 100 ELSE 1]

(* A price with no spread, the same for both values of includeAmmPrice.    *)
Flat(p) == [amm \in BOOLEAN |-> [min |-> p, max |-> p]]
(* A price the AMM widens by d on either side.                             *)
Wide(p, d) == [amm \in BOOLEAN |-> IF amm THEN [min |-> p - d, max |-> p + d]
                                          ELSE [min |-> p, max |-> p]]

LongQuotes == [t \in Token |-> {Flat(200), Wide(250, 10), Flat(300)}]
ShortQuotes == [t \in Token |-> IF t = usdc THEN {Flat(1)}
                               ELSE {Flat(200), Wide(250, 10), Flat(300)}]
MinProfit == [t \in Volatile |-> 20]

ShortSends == [a \in Asset |-> IF a = usdc THEN {500} ELSE {}]
ShortPool == [a \in Asset |-> IF a = usdc THEN 2400 ELSE 0]
ShortLimit == [t \in Volatile |-> 3600]
LongSends == [a \in Asset |-> IF a = eth THEN {200} ELSE {}]

LongPool == [a \in Asset |-> IF a = eth THEN 640 ELSE 0]

UserSymmetry == Permutations(Users)

NoFees == [taxBasisPoints |-> 0, stableTaxBasisPoints |-> 0,
           mintBurnFeeBasisPoints |-> 0, swapFeeBasisPoints |-> 0,
           stableSwapFeeBasisPoints |-> 0, marginFeeBasisPoints |-> 0,
           liquidationFeeUsd |-> 0, minProfitTime |-> 0,
           hasDynamicFees |-> FALSE]
LeverageFees == [NoFees EXCEPT !.marginFeeBasisPoints = 5,
                               !.liquidationFeeUsd = 200,
                               !.minProfitTime = 0]

SwapQuotes == [t \in Token |-> IF t = usdc THEN {Flat(2)}
                               ELSE {Flat(5), Flat(4), Wide(6, 1)}]
SwapFees == [NoFees EXCEPT !.taxBasisPoints = 20,
                           !.mintBurnFeeBasisPoints = 10,
                           !.swapFeeBasisPoints = 10,
                           !.hasDynamicFees = TRUE]
SwapPool == [a \in Asset |-> 0]
SwapSends == [a \in Asset |-> CASE a = eth -> {11} [] a = usdc -> {20}
                                [] a = usdgToken -> {15}]
SwapUnits == [a \in Asset |-> IF a = usdgToken THEN 2 ELSE 1]
SwapBuffers == [t \in Token |-> IF t = usdc THEN 2 ELSE 0]
SwapCaps == [t \in Token |-> IF t = usdc THEN 45 ELSE 0]

HighFees == [LeverageFees EXCEPT !.marginFeeBasisPoints = 10]
GovernanceFees == {LeverageFees, HighFees}
=============================================================================
