------------------------------- MODULE TokenConfig -------------------------------
(***************************************************************************)
(* The scripts that bring the configuration of core/tokens.js to the chain *)
(* and to the keepers' server: core/setTokenConfig.js,                     *)
(* core/updateUsdgSupply.js, core/setSpread.js, core/setMaxGlobalSizes.js, *)
(* core/setCaps.js and core/setCapLimits.js. Each reads what it needs once *)
(* and then sends its writes one after another, while people go on using   *)
(* the Vault. Prices are 1 and amounts are in the smallest unit of USDG,   *)
(* in which setTokenConfig also takes the limits of core/tokens.js.        *)
(***************************************************************************)
EXTENDS Integers, Sequences, FiniteSetsExt, SequencesExt

CONSTANTS
    Network,    \* "arbitrum" or "avax"
    Traded,     \* the tokens the Vault holds something of
    MaxAmount,  \* bound on what it holds of one, in the beginning
    MaxTrades,  \* bound on deposits and withdrawals
    MaxConfigs  \* bound on runs of the scripts

-----------------------------------------------------------------------------
(* core/tokens.js, and the lists of the scripts.                           *)

Item(token, stable) == [token |-> token, stable |-> stable]
ArbitrumItems ==
    {Item(t, FALSE) : t \in {"btc", "eth", "link", "uni"}}
    \cup {Item(t, TRUE) : t \in {"usdce", "usdc", "usdt", "mim", "frax", "dai"}}
AvaxItems ==
    {Item(t, FALSE) : t \in {"avax", "eth", "btcb", "btc"}}
    \cup {Item(t, TRUE) : t \in {"mim", "usdc", "usdce"}}
MaxUsdgAmount == 1      \* the same for every token of either network

Items == IF Network = "arbitrum" THEN ArbitrumItems ELSE AvaxItems
Tokens == {i.token : i \in Items}
IsStable(t) == Item(t, TRUE) \in Items

ConfigTokens ==
    IF Network = "arbitrum"
    THEN <<"btc", "eth", "usdce", "usdc", "link", "uni", "usdt", "frax", "dai">>
    ELSE <<"avax", "eth", "btcb", "btc", "usdc", "usdce">>
SupplyTokens ==
    IF Network = "arbitrum"
    THEN <<"btc", "eth", "usdce", "usdc", "link", "uni", "usdt", "mim", "frax", "dai">>
    ELSE <<"avax", "eth", "btc", "btcb", "usdce", "usdc">>
SpreadTokens == IF Network = "arbitrum" THEN <<"link", "uni">> ELSE <<"avax">>
CapTokens ==
    IF Network = "arbitrum" THEN <<"btc", "eth", "link", "uni">>
    ELSE <<"avax", "eth", "btc", "btcb">>
PositionContracts == <<"PositionRouter", "PositionManager">>

-----------------------------------------------------------------------------
VARIABLES
    pool, reserved, guaranteed, debt, limit,    \* the Vault, per token
    supply,         \* USDG of the GlpManager
    configured,     \* kinds and keys the script has given their values
    script, writes, \* the script that runs, and what it has still to send
    trades, configs, minted \* history: trades, runs, and USDG minted in a run

vaultVars == <<pool, reserved, guaranteed, debt, limit, supply, configured>>
vars == <<vaultVars, script, writes, trades, configs, minted>>

Ended == {"none", "done", "failed"}
Each(f) == [t \in Tokens |-> IF t \in Traded THEN f[t] ELSE 0]

(* No token has a limit before the first run, as maxUsdgAmounts is 0.      *)
Init ==
    /\ \E held, used, long, owed \in [Traded -> 0 .. MaxAmount] :
        /\ \A t \in Traded : used[t] <= held[t] /\ (IsStable(t) => long[t] = 0)
        /\ pool = Each(held) /\ reserved = Each(used)
        /\ guaranteed = Each(long) /\ debt = Each(owed)
    /\ supply = MapThenSumSet(LAMBDA t : debt[t], Tokens)
    /\ limit = [t \in Tokens |-> 0] /\ configured = {}
    /\ script = "none" /\ writes = <<>> /\ trades = 0 /\ configs = 0 /\ minted = 0

(* The loops of setTokenConfig and updateUsdgSupply.                       *)
Available(t) == IF IsStable(t) THEN pool[t] ELSE pool[t] - reserved[t]
Managed(t) == Available(t) + guaranteed[t]
UsdgAmount(t) == Min({Managed(t), MaxUsdgAmount})
(* Mutant: what longs guarantee is not in the total.                       *)
TotalAvailable(ts) == MapThenSumSet(LAMBDA t : Available(t), ToSet(ts))
TotalUsdg(ts) == MapThenSumSet(LAMBDA t : Managed(t), ToSet(ts))

Write(kind, key, amount) == [kind |-> kind, key |-> key, amount |-> amount]
WriteEach(kind, keys) == [i \in 1 .. Len(keys) |-> Write(kind, keys[i], 0)]

SetTokenConfig ==
    Append([i \in 1 .. Len(ConfigTokens) |->
               Write("config", ConfigTokens[i], UsdgAmount(ConfigTokens[i]))],
           Write("supply", "usdg", TotalUsdg(ConfigTokens)))
UpdateUsdgSupply == <<Write("supply", "usdg", TotalUsdg(SupplyTokens))>>
SetSpread == WriteEach("spread", SpreadTokens)
SetMaxGlobalSizes == WriteEach("sizes", PositionContracts)
SetCaps == WriteEach("caps", CapTokens)
SetCapLimits == WriteEach("capLimits", CapTokens)

Run ==
    /\ script \in Ended /\ configs < MaxConfigs
    /\ configs' = configs + 1 /\ minted' = 0 /\ configured' = {}
    /\ \/ script' = "setTokenConfig" /\ writes' = SetTokenConfig
       \/ script' = "updateUsdgSupply" /\ writes' = UpdateUsdgSupply
       \/ script' = "setSpread" /\ writes' = SetSpread
       \/ script' = "setMaxGlobalSizes" /\ writes' = SetMaxGlobalSizes
       \/ script' = "setCaps" /\ writes' = SetCaps
       \/ script' = "setCapLimits" /\ writes' = SetCapLimits
    /\ UNCHANGED <<pool, reserved, guaranteed, debt, limit, supply, trades>>

(* Timelock.setTokenConfig sets the limit, then the debt; updateUsdgSupply *)
(* mints or burns the difference.                                          *)
Apply(w) ==
    /\ limit' = IF w.kind = "config" THEN [limit EXCEPT ![w.key] = MaxUsdgAmount] ELSE limit
    /\ debt' = IF w.kind = "config" THEN [debt EXCEPT ![w.key] = w.amount] ELSE debt
    /\ supply' = IF w.kind = "supply" THEN w.amount ELSE supply
    /\ configured' = IF w.kind = "supply" THEN configured ELSE configured \cup {<<w.kind, w.key>>}
    /\ UNCHANGED <<pool, reserved, guaranteed>>

(* A transaction that fails ends the script; an answer of the server is    *)
(* only printed, whatever it is.                                           *)
Continue ==
    /\ writes' = Tail(writes)
    /\ script' = IF Len(writes) = 1 THEN "done" ELSE script
Stop == writes' = <<>> /\ script' = "failed"
Send ==
    /\ writes # <<>>
    /\ \/ Apply(Head(writes)) /\ (Continue \/ Stop)
       \/ /\ UNCHANGED vaultVars
          /\ Stop \/ (script \in {"setCaps", "setCapLimits"} /\ Continue)
    /\ UNCHANGED <<trades, configs, minted>>

(* buyUSDG for a liquidity provider, and sellUSDG.                         *)
Deposit(t) ==
    /\ limit[t] # 0 => debt[t] + 1 <= limit[t]
    /\ pool' = [pool EXCEPT ![t] = @ + 1] /\ debt' = [debt EXCEPT ![t] = @ + 1]
    /\ supply' = supply + 1 /\ minted' = minted + 1
Withdraw(t) ==
    /\ pool[t] > reserved[t] /\ supply > 0
    /\ pool' = [pool EXCEPT ![t] = @ - 1]
    /\ debt' = [debt EXCEPT ![t] = Max({@ - 1, 0})]
    /\ supply' = supply - 1 /\ UNCHANGED minted
Trade ==
    /\ trades < MaxTrades /\ trades' = trades + 1
    /\ \E t \in Traded : Deposit(t) \/ Withdraw(t)
    /\ UNCHANGED <<reserved, guaranteed, limit, configured, script, writes, configs>>

Next == Run \/ Send \/ Trade
Spec == Init /\ [][Next]_vars

-----------------------------------------------------------------------------
(* When setTokenConfig is through, the USDG owed for the tokens it lists   *)
(* is no more than the USDG there is, but for what was minted while it     *)
(* ran: that is burnt again with a supply that was read before.            *)
ConfigBacked ==
    script = "setTokenConfig" /\ script' = "done" =>
        MapThenSumSet(LAMBDA t : debt'[t], ToSet(ConfigTokens)) <= supply' + minted'
=============================================================================
