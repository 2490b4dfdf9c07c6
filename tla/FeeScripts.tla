------------------------------- MODULE FeeScripts -------------------------------
(***************************************************************************)
(* The two programs that send out the fees of a week: the hardhat tasks    *)
(* distributeFees (scripts/fees) and its predecessor processFees           *)
(* (scripts/core). An operator runs a range of their steps; a step reads   *)
(* balances on both networks, may refuse, and then sends transactions one  *)
(* by one. The process may die anywhere, also between the mining of a      *)
(* transaction and its confirmation, and the operator resumes at the step  *)
(* that did not finish. Meanwhile keepers spend the gas they are given.    *)
(*                                                                         *)
(* A step of the model is one transaction or one block of reads. The       *)
(* ledger holds the balances of both networks. A recipient stands for a    *)
(* batch of 150 of them, which is paid in one transaction.                 *)
(***************************************************************************)
EXTENDS FeePlan, DistributionData, SequencesExt

CONSTANTS
    arb, avax,              \* the networks
    Programs,               \* the tasks to look at
    Keepers, Target,        \* accounts to keep in gas, and how much they need
    Recipients, Zero,       \* accounts with referral rewards; AddressZero
    NoPlan,
    Settings,               \* prices, multipliers, staked supplies
    Stats,                  \* fee statistics, per network
    DataChoices,            \* answers of the subgraph, per network
    OldReference,           \* fee-reference.json of processFees, as values r
    BasisPoints,            \* DISTRIBUTION_BASIS_POINTS
    SwapLoss, Helped,       \* what a swap costs; tokens swapped by hand
    InitBalances, InitFiles, InitAllowances, StartTime, \* initial states
    MaxTime, MaxCrashes, MaxBurn    \* bounds only model checking needs

Networks == {arb, avax}
Places == {"vault", "feeHandler", "feeAccount", "signer", "treasury",
           "chainlink", "gmxDistributor", "glpDistributor", "wallet", "helper"}
Owners == Places \cup Keepers \cup Recipients
Tokens == {"wnt", "eth", "gmx", "alt", "usdc", "esGmx"}
Trackers == {"gmxDistributor", "glpDistributor"}

(* The networks, the keepers and the accounts with rewards are not one     *)
(* another's, nor accounts of the protocol.                                *)
ASSUME AccountsAssumption ==
    /\ arb # avax
    /\ IsFiniteSet(Keepers) /\ Target \in [Keepers -> Nat]
    /\ IsFiniteSet(Recipients)
    /\ Keepers \cap (Places \cup Recipients) = {}
    /\ Recipients \cap Places = {}

ASSUME SettingsAssumption ==
    /\ Settings.price \in [Networks -> Nat \ {0}]
    /\ Settings.gmxPrice \in Nat \ {0}
    /\ Settings.minGlp \in Nat /\ Settings.multiplier \in Nat
    /\ Settings.staked \in [Networks -> Nat] /\ Settings.gmxMultiplier \in Nat

ASSUME StatsAssumption ==
    \A n \in Networks :
        /\ IsFiniteSet(Stats[n].v1) /\ IsFiniteSet(Stats[n].v2)
        /\ \A s \in Stats[n].v1 : {s.marginAndLiquidation, s.swap, s.mint, s.burn}
                                      \subseteq Nat
        /\ \A s \in Stats[n].v2 : {s.borrowing, s.position, s.swapReceiver,
                                    s.swapPool} \subseteq Nat

(* A discount is a share of the rebate it is taken from: ReferralStorage   *)
(* accepts no share above 100 %.                                           *)
ASSUME DataAssumption ==
    \A data \in DataChoices : \A n \in Networks :
        /\ IsFiniteSet(data[n].affiliateStats)
        /\ IsFiniteSet(data[n].referralStats)
        /\ \A row \in data[n].affiliateStats :
              /\ row.affiliate \in Recipients \cup {Zero}
              /\ row.total \in Nat /\ row.v2 \in Nat /\ row.discount \in 0..row.total
        /\ \A row \in data[n].referralStats :
              row.referral \in Recipients \cup {Zero} /\ row.discount \in Nat
        /\ data[n].esGmxLimit \in Nat \ {0}

(* What the accounts hold at first, and the files of the week before.      *)
ASSUME InitialAssumption ==
    /\ InitBalances \in [Networks -> [Owners -> [Tokens -> Nat]]]
    /\ InitAllowances \subseteq Nat /\ SwapLoss \in Nat
    /\ \A n \in Networks :
          /\ IsFiniteSet(DOMAIN InitFiles[n].affiliates)
          /\ IsFiniteSet(DOMAIN InitFiles[n].referrals)
          /\ DOMAIN InitFiles[n].affiliates \cup DOMAIN InitFiles[n].referrals
                \subseteq Recipients \cup {Zero}
          /\ \A a \in DOMAIN InitFiles[n].affiliates :
                InitFiles[n].affiliates[a] \in [rebateUsd : Nat, esGmxUsd : Nat]
          /\ \A t \in DOMAIN InitFiles[n].referrals :
                InitFiles[n].referrals[t] \in Nat

VARIABLES
    program,                \* which task this behaviour is about
    balance,                \* tokens of every account, per network
    allowance,              \* what batchSender and feeKeeper may spend
    rate,                   \* tokensPerInterval times a week, per distributor
    bonus,                  \* bonusRewards of the vester
    plan, files,            \* fee-plan.json, distribution-data-*.json
    bridge,                 \* GMX on its way between the networks
    now,
    next,                   \* the operator: the step to run next
    running, todo,          \* the process: whether that step is on its way,
                            \* and what it still has to send
    crashes,                \* history: how often a run was interrupted
    repeated,               \* history: a step was begun a second time
    spent                   \* history: gas keepers spent since the plan

ledgerVars == <<balance, allowance, rate, bonus>>
planVars == <<program, plan, files>>
processVars == <<running, todo>>
historyVars == <<crashes, repeated, spent>>
vars == <<ledgerVars, planVars, processVars, historyVars, bridge, now, next>>

Steps ==
    IF program = "distributeFees"
    THEN <<"withdraw", "fund", "gmx", "payments", "glp", "referrals">>
    ELSE <<"withdraw", "fundHandler", "swapAvax", "bridge", "swapArb", "fund",
           "rewards", "payments", "referrals">>
Idle == ~running
Step == Steps[next]

Fuel(n) == [k \in Keepers |-> balance[n][k]["eth"]]

-----------------------------------------------------------------------------
(* Planning.                                                               *)

(* What createFeePlan reads on network n; include is the setting           *)
(* INCLUDE_FEE_KEEPER_BALANCE.                                             *)
AtHand(n, token, include) ==
    balance[n]["feeHandler"][token]
        + (IF include THEN balance[n]["signer"][token] ELSE 0)
NativeValues(n, include, saved) ==
    [total |-> AtHand(n, "wnt", include),
     feesV1 |-> FeesV1(Stats[n].v1, FeePeriod(now)),
     feesV2 |-> FeesV2(Stats[n].v2, FeePeriod(now)),
     keeperCosts |-> KeeperCosts(Fuel(n), Target),
     referralUsd |-> PlannedUsd(saved[n]),
     price |-> Settings.price[n], minGlp |-> Settings.minGlp,
     multiplier |-> Settings.multiplier]
GmxValues(include) ==
    [arbGmx |-> AtHand(arb, "gmx", include),
     avaxGmx |-> AtHand(avax, "gmx", include),
     arbStaked |-> Settings.staked[arb], avaxStaked |-> Settings.staked[avax],
     gmxMultiplier |-> Settings.gmxMultiplier]

PlanFor(include, saved) ==
    LET g == GmxValues(include)
        gmx(n) == IF n = arb THEN ArbGmxRewards(g) ELSE AvaxGmxRewards(g)
        parts(n) == NativePlan(NativeValues(n, include, saved))
    IN  [ref |-> RefTime(now), delta |-> DeltaRewardArb(g),
         treasury |-> [n \in Networks |-> parts(n).treasury],
         chainlink |-> [n \in Networks |-> parts(n).chainlink],
         glp |-> [n \in Networks |-> parts(n).glp],
         referral |-> [n \in Networks |-> parts(n).referral],
         gmx |-> [n \in Networks |-> gmx(n)]]

(* createFeePlan, before any money has left the fee keeper. The operator   *)
(* includes the balance of the fee keeper once fees may be withdrawn.      *)
CreatePlan(include, data) ==
    LET saved == [n \in Networks |-> Saved(files[n], data[n])]
    IN  /\ program = "distributeFees" /\ Idle /\ next <= 2
        /\ InTime(RefTime(now), now, FALSE)
        /\ include \/ (next = 1 /\ crashes = 0)
        /\ \A n \in Networks :
              /\ ~SaveThrows(data[n])
              /\ NativePlannable(NativeValues(n, include, saved))
        /\ GmxPlannable(GmxValues(include))
        /\ files' = saved
        /\ plan' = PlanFor(include, saved)
        /\ spent' = [n \in Networks |-> 0]
        /\ bridge' = [sent |-> FALSE, to |-> arb, amount |-> 0]
        /\ UNCHANGED <<ledgerVars, program, processVars, crashes, repeated,
                       now, next>>

(* The plan processFees reads: the reference, of which the GMX and GLP     *)
(* shares are reduced. createFeeReference itself does not get as far as    *)
(* writing it: on Avalanche it reads a variable that does not exist.       *)
ReferencePlan ==
    LET parts(n) == Reference(OldReference, n)
    IN  [ref |-> RefTime(StartTime), delta |-> 0,
         treasury |-> [n \in Networks |-> parts(n).treasury],
         chainlink |-> [n \in Networks |-> parts(n).chainlink],
         glp |-> [n \in Networks |-> Distributed(parts(n).glp, BasisPoints)],
         gmx |-> [n \in Networks |-> Distributed(parts(n).gmx, BasisPoints)],
         referral |-> [n \in Networks |-> parts(n).referral]]

(* The fees of that week paid for its referral rewards and its keepers:    *)
(* otherwise it has a negative amount, which no transaction can carry.     *)
ASSUME ReferenceAssumption ==
    \A n \in Networks :
        /\ {ReferencePlan.treasury[n], ReferencePlan.chainlink[n],
            ReferencePlan.glp[n], ReferencePlan.gmx[n],
            ReferencePlan.referral[n]} \subseteq Nat
        /\ RequiredBalance(OldReference, n) \in Nat

(* The operator bridges GMX as the plan says; nothing in src/ does.        *)
BridgeFrom == IF plan.delta > 0 THEN arb ELSE avax
Abs(i) == IF i < 0 THEN -i ELSE i
Bridge ==
    /\ program = "distributeFees" /\ Idle /\ plan # NoPlan /\ next = 3
    /\ ~bridge.sent /\ plan.delta # 0
    /\ balance[BridgeFrom]["signer"]["gmx"] >= Abs(plan.delta)
    /\ balance' = [balance EXCEPT ![BridgeFrom]["signer"]["gmx"] =
                                      @ - Abs(plan.delta)]
    /\ bridge' = [sent |-> TRUE, to |-> IF BridgeFrom = arb THEN avax ELSE arb,
                  amount |-> Abs(plan.delta)]
    /\ UNCHANGED <<allowance, rate, bonus, planVars, processVars, historyVars,
                   now, next>>
Arrive ==
    /\ bridge.amount > 0
    /\ balance' = [balance EXCEPT ![bridge.to]["signer"]["gmx"] =
                                      @ + bridge.amount]
    /\ bridge' = [bridge EXCEPT !.amount = 0]
    /\ UNCHANGED <<allowance, rate, bonus, planVars, processVars, historyVars,
                   now, next>>

-----------------------------------------------------------------------------
(* The transactions of a step, in the order in which it sends them.        *)

Tx(kind, n, from, to, token, amount) ==
    [kind |-> kind, net |-> n, from |-> from, to |-> to, token |-> token,
     amount |-> amount]
Pay(n, to, token, amount) == Tx("transfer", n, "signer", to, token, amount)

Both(f(_)) == f(arb) \o f(avax)
Each(S, f(_)) == [i \in 1..Cardinality(S) |-> f(SetToSeq(S)[i])]
EachPair(S, f(_), g(_)) ==
    [i \in 1..2 * Cardinality(S) |->
        LET a == SetToSeq(S)[(i + 1) \div 2] IN IF i % 2 = 1 THEN f(a) ELSE g(a)]

ClaimBuyback(n) ==
    <<Tx("claim", n, "feeHandler", "signer", "gmx", 0),
      Tx("claim", n, "feeHandler", "signer", "wnt", 0)>>
ClaimV1(n) == <<Tx("claim", n, "vault", "feeAccount", "alt", 0)>>
ClaimV2(n) == <<Tx("claim", n, "feeHandler", "feeAccount", "wnt", 0)>>
Withdraw ==
    IF program = "distributeFees" THEN Both(ClaimBuyback)
    ELSE Both(ClaimV1) \o Both(ClaimV2)

(* fundAccounts: what is missing is unwrapped, then sent to each keeper.   *)
Lacking(n) == {k \in Keepers : TopUp(Fuel(n)[k], Target[k]) > 0}
SendGas(n) ==
    Each(Lacking(n), LAMBDA k : Pay(n, k, "eth", TopUp(Fuel(n)[k], Target[k])))
Fund(n) ==
    <<Tx("unwrap", n, "signer", "signer", "wnt", KeeperCosts(Fuel(n), Target))>>
    \o SendGas(n)

(* Mutant: the rate is set before the rewards are sent.                    *)
RateFirst(n, tracker, token, amount, weekly) ==
    <<Tx("rate", n, "signer", tracker, token, weekly),
      Pay(n, tracker, token, amount)>>
(* updateBuybackRewards and updateRewards: rewards first, then the rate.   *)
Reward(n, tracker, token, amount, weekly) ==
    <<Pay(n, tracker, token, amount),
      Tx("rate", n, "signer", tracker, token, weekly)>>

BuybackRewards(n) ==
    Reward(n, "gmxDistributor", "gmx", plan.gmx[n], plan.gmx[n])
(* On Arbitrum the rewards of GLP go to another receiver.                  *)
GlpRate(n) == IF n = arb THEN 0 ELSE plan.glp[n]
GlpRewards(n) ==
    Reward(n, "glpDistributor", "wnt", plan.glp[n], GlpRate(n))
StakingRewards(n) ==
    Reward(n, "gmxDistributor", "wnt", plan.gmx[n], plan.gmx[n])
    \o Reward(n, "glpDistributor", "wnt", plan.glp[n], plan.glp[n])

Payments(n) ==
    <<Pay(n, "treasury", "wnt", plan.treasury[n]),
      Pay(n, "chainlink", "wnt", plan.chainlink[n])>>

(* fundHandler: the approval is for the handler, the fee keeper spends.    *)
Funded(n) == {t \in {"wnt", "alt"} : balance[n]["feeAccount"][t] > 0}
FundHandler(n) ==
    Each({t \in Funded(n) :
              allowance[n]["feeAccount"][t] < balance[n]["feeAccount"][t]},
         LAMBDA t : Tx("approveHandler", n, "feeAccount", "signer", t,
                       balance[n]["feeAccount"][t]))
    \o Each(Funded(n),
            LAMBDA t : Tx("spend", n, "feeAccount", "signer", t,
                          balance[n]["feeAccount"][t]))

Swap(n) ==
    IF balance[n]["signer"]["alt"] = 0 THEN <<>>
    ELSE <<Tx("swap", n, "signer", "signer", "alt", balance[n]["signer"]["alt"])>>
(* The transfer to the bridge is switched off.                             *)
BridgeTokens == <<>>
Excess(n) ==
    <<Tx("excess", n, "signer", "signer", "wnt", RequiredBalance(OldReference, n))>>

RewardPrice(n) == Settings.price[n]
NativeReferrals(n) == NativeTotal(files[n], Zero, RewardPrice(n))
EsGmxReferrals(n) == EsGmxTotalAmount(files[n], Zero, Settings.gmxPrice)
(* What the files say an account is to be sent.                            *)
NativeDue(n, a) ==
    (IF a \in DOMAIN files[n].affiliates
     THEN AffiliateAmount(files[n], a, RewardPrice(n)) ELSE 0)
    + (IF a \in DOMAIN files[n].referrals
       THEN DiscountAmount(files[n], a, RewardPrice(n)) ELSE 0)
EsGmxDue(n, a) ==
    IF a \in EsGmxReceivers(files[n], Zero)
    THEN EsGmxAmount(files[n], a, Settings.gmxPrice) ELSE 0
FromWallet(n, a, token, amount) == Tx("spend", n, "wallet", a, token, amount)
Referrals(n) ==
    LET f == files[n]
        price == RewardPrice(n)
        es(a) == EsGmxAmount(f, a, Settings.gmxPrice)
    IN  <<Tx("require", n, "signer", "signer", "wnt", NativeReferrals(n)),
          Tx("require", n, "wallet", "wallet", "esGmx", EsGmxReferrals(n)),
          Pay(n, "wallet", "wnt", NativeReferrals(n)),
          Tx("approve", n, "wallet", "wallet", "wnt", NativeReferrals(n))>>
        \o Each(DOMAIN f.affiliates \ {Zero},
                LAMBDA a : FromWallet(n, a, "wnt", AffiliateAmount(f, a, price)))
        \o Each(DOMAIN f.referrals \ {Zero},
                LAMBDA t : FromWallet(n, t, "wnt", DiscountAmount(f, t, price)))
        \o <<Tx("approve", n, "wallet", "wallet", "esGmx", EsGmxReferrals(n))>>
        \o EachPair(EsGmxReceivers(f, Zero),
                    LAMBDA a : FromWallet(n, a, "esGmx", es(a)),
                    LAMBDA a : Tx("bonus", n, "wallet", a, "esGmx", es(a)))

(* The steps of processFees.js that go through both networks.              *)
FundAccounts == Both(Fund)
UpdateRewards == Both(StakingRewards)
SendPayments == Both(Payments)
SendReferralRewards == Both(Referrals)

Transactions ==
    CASE Step = "withdraw" -> Withdraw
      [] Step = "fund" -> FundAccounts
      [] Step = "gmx" -> Both(BuybackRewards)
      [] Step = "glp" -> Both(GlpRewards)
      [] Step = "payments" -> SendPayments
      [] Step = "referrals" -> SendReferralRewards
      [] Step = "fundHandler" -> Both(FundHandler)
      [] Step = "swapAvax" -> Swap(avax) \o Excess(avax)
      [] Step = "bridge" -> BridgeTokens
      [] Step = "swapArb" -> Swap(arb)
      [] Step = "rewards" -> UpdateRewards

(* What a step checks on both networks before it sends anything.           *)
Holds(n, token, amount) == balance[n]["signer"][token] >= amount
(* Mutant: only the rewards of GMX stakers are checked.                    *)
DueToStakers(n) == plan.gmx[n]
Due(n) == plan.gmx[n] + plan.glp[n] + plan.treasury[n] + plan.chainlink[n]
              + plan.referral[n]
Accepts(s, n) ==
    CASE s = "gmx" -> Holds(n, "gmx", plan.gmx[n])
      [] s = "glp" -> Holds(n, "wnt", plan.glp[n])
      [] s = "rewards" -> Holds(n, "wnt", Due(n))
      [] s = "referrals" ->
            /\ DOMAIN files[n].affiliates # {}
            /\ Holds(n, "wnt", NativeReferrals(n))
            /\ balance[n]["wallet"]["esGmx"] >= EsGmxReferrals(n)
      [] OTHER -> TRUE
(* Mutant: only the first network is checked.                              *)
AcceptsFirst(s) == Accepts(s, arb)
AcceptsStep(s) == \A n \in Networks : Accepts(s, n)

-----------------------------------------------------------------------------
(* The process.                                                            *)

Init ==
    /\ program \in Programs
    /\ balance = InitBalances
    /\ \E limit \in InitAllowances :
          allowance = [n \in Networks |->
                          [o \in {"wallet", "feeAccount"} |->
                              [t \in Tokens |->
                                  IF o = "feeAccount" THEN limit ELSE 0]]]
    /\ rate = [n \in Networks |-> [t \in Trackers |-> 0]]
    /\ bonus = [n \in Networks |-> [a \in Recipients |-> 0]]
    /\ plan = IF program = "processFees" THEN ReferencePlan ELSE NoPlan
    /\ files = InitFiles
    /\ bridge = [sent |-> FALSE, to |-> arb, amount |-> 0]
    /\ now = StartTime
    /\ next = 1 /\ running = FALSE /\ todo = <<>>
    /\ crashes = 0 /\ repeated = FALSE
    /\ spent = [n \in Networks |-> 0]

Stop == running' = FALSE /\ todo' = <<>>

(* The operator asks for the next step; asking for several at once is the  *)
(* same. It reads what it needs and makes its list, or throws at once.     *)
Begin ==
    /\ Idle /\ plan # NoPlan /\ next <= Len(Steps)
    /\ InTime(plan.ref, now, FALSE)
    /\ AcceptsStep(Step)
    /\ running' = TRUE /\ todo' = Transactions
    /\ UNCHANGED <<ledgerVars, planVars, historyVars, bridge, now, next>>

Finish ==
    /\ running /\ todo = <<>>
    /\ next' = next + 1 /\ Stop
    /\ UNCHANGED <<ledgerVars, planVars, historyVars, bridge, now>>

(* sendTxn waits for each transaction before the next one.                 *)
Sending(kinds) == running /\ todo # <<>> /\ Head(todo).kind \in kinds
Sent ==
    /\ todo' = Tail(todo)
    /\ UNCHANGED <<planVars, historyVars, bridge, now, next, running>>
Enough(tx) == balance[tx.net][tx.from][tx.token] >= tx.amount
Allowed(tx) ==
    tx.kind = "spend" => allowance[tx.net][tx.from][tx.token] >= tx.amount
Affordable(tx) ==
    tx.kind \in {"transfer", "unwrap", "spend", "swap", "require"}
        => Enough(tx) /\ Allowed(tx)

Move(tx, amount) ==
    balance' = [balance EXCEPT ![tx.net][tx.from][tx.token] = @ - amount,
                               ![tx.net][tx.to][tx.token] = @ + amount]
Convert(tx, amount, token, received) ==
    balance' = [balance EXCEPT ![tx.net][tx.from][tx.token] = @ - amount,
                               ![tx.net][tx.from][token] = @ + received]

SendTransfer ==
    /\ Sending({"transfer"}) /\ Affordable(Head(todo))
    /\ Move(Head(todo), Head(todo).amount)
    /\ Sent /\ UNCHANGED <<allowance, rate, bonus>>
SendClaim ==
    LET tx == Head(todo)
    IN  /\ Sending({"claim"})
        /\ Move(tx, balance[tx.net][tx.from][tx.token])
        /\ Sent /\ UNCHANGED <<allowance, rate, bonus>>
SendSpend ==
    LET tx == Head(todo)
    IN  /\ Sending({"spend"}) /\ Affordable(tx)
        /\ Move(tx, tx.amount)
        /\ allowance' = [allowance EXCEPT
                             ![tx.net][tx.from][tx.token] = @ - tx.amount]
        /\ Sent /\ UNCHANGED <<rate, bonus>>
SendUnwrap ==
    LET tx == Head(todo)
    IN  /\ Sending({"unwrap"}) /\ Affordable(tx)
        /\ Convert(tx, tx.amount, "eth", tx.amount)
        /\ Sent /\ UNCHANGED <<allowance, rate, bonus>>
SendSwap ==
    LET tx == Head(todo)
    IN  /\ Sending({"swap"}) /\ Affordable(tx)
        /\ Convert(tx, tx.amount, "wnt",
                   IF tx.amount > SwapLoss THEN tx.amount - SwapLoss ELSE 0)
        /\ Sent /\ UNCHANGED <<allowance, rate, bonus>>
(* What Avalanche does not need is swapped for USDC.                       *)
SendExcess ==
    LET tx == Head(todo)
        excess == balance[tx.net]["signer"]["wnt"] - tx.amount
    IN  /\ Sending({"excess"})
        /\ IF excess > 0 THEN Convert(tx, excess, "usdc", excess)
           ELSE UNCHANGED balance
        /\ Sent /\ UNCHANGED <<allowance, rate, bonus>>
SendApprove ==
    LET tx == Head(todo)
    IN  /\ Sending({"approve"})
        /\ allowance' = [allowance EXCEPT
                             ![tx.net][tx.from][tx.token] = tx.amount]
        /\ Sent /\ UNCHANGED <<balance, rate, bonus>>
SendRate ==
    LET tx == Head(todo)
    IN  /\ Sending({"rate"})
        /\ rate' = [rate EXCEPT ![tx.net][tx.to] = tx.amount]
        /\ Sent /\ UNCHANGED <<balance, allowance, bonus>>
SendBonus ==
    LET tx == Head(todo)
    IN  /\ Sending({"bonus"})
        /\ bonus' = [bonus EXCEPT ![tx.net][tx.to] = @ + tx.amount]
        /\ Sent /\ UNCHANGED <<balance, allowance, rate>>
(* A check between transactions, or an approval nobody makes use of.       *)
SendNothing ==
    /\ Sending({"require", "approveHandler"}) /\ Affordable(Head(todo))
    /\ Sent /\ UNCHANGED ledgerVars

Send ==
    \/ SendTransfer \/ SendClaim \/ SendSpend \/ SendUnwrap \/ SendSwap
    \/ SendExcess \/ SendApprove \/ SendRate \/ SendBonus \/ SendNothing

(* A transaction that reverts, or a check that fails, ends the run.        *)
Fail ==
    /\ running /\ todo # <<>> /\ ~Affordable(Head(todo))
    /\ Stop
    /\ UNCHANGED <<ledgerVars, planVars, historyVars, bridge, now, next>>

(* A swap the Vault refuses: some tokens are given away to be swapped.     *)
SwapFails ==
    LET tx == Head(todo)
    IN  /\ Sending({"swap"})
        /\ IF tx.token \in Helped
           THEN /\ todo' = <<Pay(tx.net, "helper", tx.token, tx.amount)>>
                              \o Tail(todo)
                /\ UNCHANGED running
           ELSE Stop
        /\ UNCHANGED <<ledgerVars, planVars, historyVars, bridge, now, next>>

Crash ==
    /\ running /\ crashes < MaxCrashes
    /\ crashes' = crashes + 1
    /\ repeated' = TRUE
    /\ Stop
    /\ UNCHANGED <<ledgerVars, planVars, spent, bridge, now, next>>

(* The operator goes on with the step after one that refuses to run.       *)
Skip ==
    /\ Idle /\ plan # NoPlan /\ crashes > 0 /\ next < Len(Steps)
    /\ ~AcceptsStep(Steps[next])
    /\ next' = next + 1
    /\ UNCHANGED <<ledgerVars, planVars, processVars, historyVars, bridge, now>>

(* Keepers spend gas, which nobody looks at once they are funded.          *)
Burn(n, k) ==
    /\ "fund" \in {Steps[i] : i \in next..Len(Steps)}
    /\ spent[arb] + spent[avax] < MaxBurn /\ balance[n][k]["eth"] > 0
    /\ balance' = [balance EXCEPT ![n][k]["eth"] = @ - 1]
    /\ spent' = [spent EXCEPT ![n] = @ + 1]
    /\ UNCHANGED <<allowance, rate, bonus, planVars, processVars, crashes,
                   repeated, bridge, now, next>>

(* Time passes; it is looked at only when a step is asked for.             *)
Tick ==
    /\ Idle /\ now < MaxTime
    /\ now' = now + 1
    /\ UNCHANGED <<ledgerVars, planVars, processVars, historyVars, bridge, next>>

Operator ==
    \/ \E include \in BOOLEAN : \E data \in DataChoices : CreatePlan(include, data)
    \/ Begin
    \/ Skip
    \/ Bridge
Process == Send \/ Finish \/ Fail \/ SwapFails
Environment ==
    \/ Arrive
    \/ Crash
    \/ \E n \in Networks : \E k \in Keepers : Burn(n, k)
    \/ Tick

Next == Operator \/ Process \/ Environment

Spec == Init /\ [][Next]_vars

(* The task runs until it ends, and what is bridged arrives.               *)
LiveSpec == Spec /\ WF_vars(Process) /\ WF_vars(Arrive)
(* An operator who asks for each step until it is done and sees to the     *)
(* bridging when step 3 refuses.                                           *)
OperatorGoesOn ==
    WF_vars(Begin) /\ WF_vars(Bridge)

-----------------------------------------------------------------------------
(* Correctness.                                                            *)

(* However often funding is interrupted and run again, and whatever        *)
(* keepers burn in between, none of them gets more gas than its target.    *)
TopUpsWithinTarget ==
    \A n \in Networks : \A k \in Keepers : Fuel(n)[k] <= Target[k]

(* No step was sent a second time, and keepers burned no more since the    *)
(* plan was made than comes after the payments.                            *)
Later(n) == plan.glp[n] + plan.referral[n]
PaymentsCovered ==
    ~repeated /\ (program = "distributeFees" =>
                     \A n \in Networks : spent[n] <= Later(n))

(* Once the checks of a reward step have passed, none of its transactions  *)
(* runs out of money: a refusal comes before anything is sent. Payments    *)
(* have no check of their own, but are covered as well, unless a step is   *)
(* repeated or too much gas is burned.                                     *)
ChecksSuffice ==
    running /\ todo # <<>>
        /\ (\/ Step \in {"gmx", "glp", "rewards", "referrals"}
            \/ Step = "payments" /\ PaymentsCovered)
        => Affordable(Head(todo))

(* An interrupted step may be run again: nobody is sent the rewards of a   *)
(* week twice, because the check of the second run finds too little left.  *)
(* (After two interruptions it may find the money of a step left out.)     *)
PaidOnce ==
    plan # NoPlan /\ crashes <= 1 => \A n \in Networks :
        /\ balance[n]["gmxDistributor"]["gmx"]
              + balance[n]["gmxDistributor"]["wnt"] <= plan.gmx[n]
        /\ balance[n]["glpDistributor"]["wnt"] <= plan.glp[n]
        /\ \A a \in Recipients :
              /\ balance[n][a]["wnt"] <= NativeDue(n, a)
              /\ balance[n][a]["esGmx"] <= EsGmxDue(n, a)

(* Wherever a run ends, distributors do not promise rewards they have not  *)
(* received and nobody may vest esGMX that was not sent.                   *)
CreditFollowsPayment ==
    \A n \in Networks :
        /\ \A t \in Trackers :
              rate[n][t] <= balance[n][t]["gmx"] + balance[n][t]["wnt"]
        /\ \A a \in Recipients : bonus[n][a] <= balance[n][a]["esGmx"]

(* Who gets native tokens by a plan, and how many.                         *)
Payees == {"treasury", "chainlink", "glpDistributor", "wallet"} \cup Recipients
Promised(n) ==
    plan.treasury[n] + plan.chainlink[n] + plan.glp[n] + plan.referral[n]

(* After funding, what the plan promises in native tokens is at hand or    *)
(* has been paid, but for the gas that keepers burned since the plan was   *)
(* made: interruptions lose and repetitions invent nothing.                *)
PlanCovered ==
    program = "distributeFees" /\ next > 2 => \A n \in Networks :
        Promised(n)
            <= spent[n]
                 + balance[n]["signer"]["wnt"] + balance[n]["signer"]["eth"]
                 + SumFunctionOnSet([o \in Owners |-> balance[n][o]["wnt"]], Payees)

(* The reduction keeps the esGMX rewards of a file within a thirtieth of   *)
(* the limit that createFeePlan sets.                                      *)
EsGmxWithinLimit ==
    \A n \in Networks : \A data \in DataChoices :
        files[n] = File(data[n])
            => SumFunction([a \in DOMAIN files[n].affiliates |->
                                files[n].affiliates[a].esGmxUsd]) * (Digits - 1)
                   <= data[n].esGmxLimit * Digits

(* A plan leads to everybody being paid by an operator who goes on, unless *)
(* a run is interrupted, keepers burn gas that was not planned for, the    *)
(* delay passes, or there are no affiliates or too little esGMX to send.   *)
AllPaid ==
    plan # NoPlan /\ \A n \in Networks :
        /\ balance[n]["gmxDistributor"]["gmx"] >= plan.gmx[n]
        /\ balance[n]["glpDistributor"]["wnt"] >= plan.glp[n]
        /\ balance[n]["treasury"]["wnt"] >= plan.treasury[n]
        /\ balance[n]["chainlink"]["wnt"] >= plan.chainlink[n]
        /\ \A a \in Recipients :
              /\ balance[n][a]["wnt"] >= NativeDue(n, a)
              /\ balance[n][a]["esGmx"] >= EsGmxDue(n, a)
EsGmxOwned(n) ==
    MapThenSumSet(LAMBDA o : balance[n][o]["esGmx"], {"wallet"} \cup Recipients)
Excused ==
    \/ crashes > 0
    \/ plan # NoPlan /\ ~InTime(plan.ref, now, FALSE)
    \/ \E n \in Networks : \/ spent[n] > 0
                            \/ DOMAIN files[n].affiliates = {}
                            \/ EsGmxOwned(n) < EsGmxReferrals(n)
EverybodyPaid ==
    OperatorGoesOn =>
        (program = "distributeFees" /\ plan # NoPlan ~> AllPaid \/ Excused)
=============================================================================
