---------------------------- MODULE PositionRouter ----------------------------
(***************************************************************************)
(* The request queues of contracts/core/PositionRouter.sol (with the fees  *)
(* and payouts of BasePositionManager.sol). Traders escrow collateral and  *)
(* an execution fee with a request to increase or decrease a position;     *)
(* keepers, or later the trader, have it executed or cancelled.            *)
(*                                                                         *)
(* A step is one transaction. The Vault is external: whether it accepts a  *)
(* position and what a swap returns is nondeterministic. ETH is held as    *)
(* Weth, and every payment in ETH falls back to Weth, so paying ETH out    *)
(* always succeeds; other tokens fail to move from or to an account they   *)
(* have frozen. Times are kept as ages, which stop counting at MaxAge.       *)
(***************************************************************************)
EXTENDS Integers, Sequences, FiniteSets, Functions

CONSTANTS
    Accounts,           \* traders
    Callers,            \* accounts and keepers
    InitKeepers,        \* position keepers at the start
    Tokens, Weth,       \* collateral tokens, one of them Weth
    BPS, DepositFee,    \* BASIS_POINTS_DIVISOR, depositFee
    MinExecutionFee,
    Paths, AmountsIn, ExecutionFees,          \* inputs of traders' calls
    SwapLosses,                               \* what the Vault keeps of a swap
    DelaySettings, InitDelays,                \* records of the three delays
    KeeperSettings, LeverageSwitches, StartValues,  \* inputs of the admin
    Freezable,          \* accounts a token may freeze
    NoRequest, NoKey,   \* empty mapping entry, deleted array slot
    MaxRequests, MaxAge \* bounds only model checking needs

Kind == {"increase", "decrease"}
Key == Accounts \X (1..MaxRequests)
Delays == [minBlockDelayKeeper: 0..MaxAge, minTimeDelayPublic: 0..MaxAge,
           maxTimeDelay: 0..MaxAge]

(* A path is the token paid in and, unless they are the same, the          *)
(* collateral token it is swapped for.                                     *)
Request == [path: Seq(Tokens), amountIn: Nat, hasCollateralInETH: BOOLEAN,
            executionFee: Nat, blocks: 0..MaxAge, seconds: 0..MaxAge]
TokenIn(r) == r.path[1]
Collateral(r) == r.path[Len(r.path)]
Swapped(r) == Len(r.path) = 2

ASSUME RouterAssumption ==
    /\ NoRequest \notin Request /\ NoKey \notin Key
    /\ Weth \in Tokens /\ Accounts \subseteq Callers /\ IsFiniteSet(Accounts)
    /\ Paths \subseteq {p \in Seq(Tokens) : Len(p) \in {1, 2}}
    /\ Freezable \subseteq Accounts /\ InitKeepers \subseteq Callers
    /\ BPS \in Nat \ {0} /\ DepositFee \in 0..BPS /\ MinExecutionFee \in Nat
    /\ AmountsIn \subseteq Nat /\ ExecutionFees \subseteq Nat
    /\ SwapLosses \subseteq Nat
    /\ DelaySettings \subseteq Delays /\ InitDelays \in Delays
    /\ KeeperSettings \subseteq SUBSET Callers
    /\ LeverageSwitches \subseteq BOOLEAN
    /\ StartValues \subseteq Nat /\ MaxRequests \in Nat /\ MaxAge \in Nat

VARIABLES
    requests,           \* increase- and decreasePositionRequests
    positionsIndex,     \* requests created so far, per kind and account
    requestKeys,        \* the two arrays of keys; a deleted slot is NoKey
    keysStart,          \* the first slot the next batch looks at
    isPositionKeeper, delays, isLeverageEnabled,
    balance,            \* balanceOf(router), Weth including any ETH
    feeReserves,
    frozen              \* accounts whose token transfers fail

queueVars == <<requests, positionsIndex, requestKeys, keysStart>>
adminVars == <<isPositionKeeper, delays, isLeverageEnabled>>
moneyVars == <<balance, feeReserves>>
vars == <<queueVars, adminVars, moneyVars, frozen>>

QueuesOK ==
    /\ requests \in [Kind -> [Key -> Request \cup {NoRequest}]]
    /\ positionsIndex \in [Kind -> [Accounts -> 0..MaxRequests]]
    /\ requestKeys \in [Kind -> Seq(Key \cup {NoKey})]
    /\ keysStart \in [Kind -> Nat]
    /\ isPositionKeeper \in SUBSET Callers
    /\ delays \in Delays /\ isLeverageEnabled \in BOOLEAN
    /\ frozen \in SUBSET Freezable
MoneyOK ==
    /\ balance \in [Tokens -> Int] /\ feeReserves \in [Tokens -> Int]
(* The variables keep their types.                                         *)
TypeOK == QueuesOK /\ MoneyOK

Init ==
    /\ requests = [kind \in Kind |-> [key \in Key |-> NoRequest]]
    /\ positionsIndex = [kind \in Kind |-> [a \in Accounts |-> 0]]
    /\ requestKeys = [kind \in Kind |-> <<>>]
    /\ keysStart = [kind \in Kind |-> 0]
    /\ isPositionKeeper = InitKeepers
    /\ delays = InitDelays /\ isLeverageEnabled = TRUE
    /\ balance = [t \in Tokens |-> 0] /\ feeReserves = [t \in Tokens |-> 0]
    /\ frozen = {}

Pending(kind, key) == requests[kind][key] # NoRequest

-----------------------------------------------------------------------------
(* Creating requests.                                                      *)

(* Faulty: the request is filed under the index before it is advanced.     *)
StoredUnderOldIndex(kind, account, request) ==
    LET last == positionsIndex[kind][account]
        key == <<account, last>>
    IN  /\ last < MaxRequests
        /\ positionsIndex' = [positionsIndex EXCEPT ![kind][account] = last + 1]
        /\ requests' = [requests EXCEPT ![kind][key] = request]
        /\ requestKeys' = [requestKeys EXCEPT ![kind] = Append(@, key)]
        /\ UNCHANGED keysStart

(* Faulty: the advanced index is not stored.                               *)
StoredWithoutIndex(kind, account, request) ==
    LET key == <<account, positionsIndex[kind][account] + 1>>
    IN  /\ Len(requestKeys[kind]) < MaxRequests
        /\ requests' = [requests EXCEPT ![kind][key] = request]
        /\ requestKeys' = [requestKeys EXCEPT ![kind] = Append(@, key)]
        /\ UNCHANGED <<positionsIndex, keysStart>>

(* _storeIncreasePositionRequest, _storeDecreasePositionRequest            *)
Store(kind, account, request) ==
    LET next == positionsIndex[kind][account] + 1
        key == <<account, next>>
    IN  /\ next <= MaxRequests
        /\ positionsIndex' = [positionsIndex EXCEPT ![kind][account] = next]
        /\ requests' = [requests EXCEPT ![kind][key] = request]
        /\ requestKeys' = [requestKeys EXCEPT ![kind] = Append(@, key)]
        /\ UNCHANGED keysStart

NewRequest(path, amountIn, inETH, executionFee) ==
    [path |-> path, amountIn |-> amountIn, hasCollateralInETH |-> inETH,
     executionFee |-> executionFee, blocks |-> 0, seconds |-> 0]

Receive(token, amount, executionFee) ==
    [t \in Tokens |-> balance[t] + (IF t = token THEN amount ELSE 0)
                                 + (IF t = Weth THEN executionFee ELSE 0)]

(* safeTransferFrom of an ERC20; Weth freezes nobody.                      *)
TransferFails(account, token, amount) ==
    account \in frozen /\ token # Weth /\ amount > 0

CreateIncreasePosition(account, path, amountIn, executionFee) ==
    /\ executionFee >= MinExecutionFee
    /\ ~TransferFails(account, path[1], amountIn)
    /\ balance' = Receive(path[1], amountIn, executionFee)
    /\ Store("increase", account,
             NewRequest(path, amountIn, FALSE, executionFee))
    /\ UNCHANGED <<feeReserves, adminVars, frozen>>

CreateIncreasePositionETH(account, path, amountIn, executionFee) ==
    /\ executionFee >= MinExecutionFee
    /\ path[1] = Weth
    /\ balance' = Receive(Weth, amountIn, executionFee)
    /\ Store("increase", account,
             NewRequest(path, amountIn, TRUE, executionFee))
    /\ UNCHANGED <<feeReserves, adminVars, frozen>>

(* A decrease escrows nothing but its execution fee, and what the Vault    *)
(* pays out for it only passes through the router: its path is left out.   *)
CreateDecreasePosition(account, executionFee) ==
    /\ executionFee >= MinExecutionFee
    /\ balance' = Receive(Weth, 0, executionFee)
    /\ Store("decrease", account,
             NewRequest(<<Weth>>, 0, FALSE, executionFee))
    /\ UNCHANGED <<feeReserves, adminVars, frozen>>

-----------------------------------------------------------------------------
(* Who may have a request executed or cancelled, and when.                 *)

Expired(r) == r.seconds >= delays.maxTimeDelay
KeeperReady(r) == r.blocks >= delays.minBlockDelayKeeper

(* Faulty: an expired request cannot be cancelled by its owner either.     *)
MayHandleInTime(caller, key, r) ==
    IF caller \in isPositionKeeper THEN KeeperReady(r)
    ELSE /\ isLeverageEnabled /\ caller = key[1]
         /\ r.seconds >= delays.minTimeDelayPublic /\ ~Expired(r)

(* _validateExecutionOrCancellation returns true                           *)
MayHandle(caller, key, r) ==
    IF caller \in isPositionKeeper THEN KeeperReady(r)
    ELSE /\ isLeverageEnabled /\ caller = key[1]
         /\ r.seconds >= delays.minTimeDelayPublic

(* Faulty: an expired request cannot be cancelled.                         *)
RefundFailsWhenExpired(kind, key) == Expired(requests[kind][key])

(* A cancelled increase returns its collateral in its token.               *)
RefundFails(kind, key) ==
    /\ kind = "increase" /\ TokenIn(requests[kind][key]) # Weth
    /\ key[1] \in frozen

-----------------------------------------------------------------------------
(* What the router pays and receives. A deal is what a swap on the way to  *)
(* the Vault returned and the deposit fee taken from that: _collectFees.   *)

DepositFeeOn(amount) == amount - (amount * (BPS - DepositFee)) \div BPS

Deals(r) ==
    {d \in [out: 0..r.amountIn, fee: 0..r.amountIn] :
        /\ IF Swapped(r) /\ r.amountIn > 0
           THEN \E loss \in SwapLosses : d.out = r.amountIn - loss
           ELSE d.out = r.amountIn
        /\ d.fee \in {0, DepositFeeOn(d.out)}}

(* executeIncreasePosition: the net change of the router's balance of t.   *)
ExecutionFlow(r, d, t) ==
    (IF Swapped(r) /\ t = TokenIn(r) THEN - r.amountIn ELSE 0)
    + (IF Swapped(r) /\ t = Collateral(r) THEN d.out ELSE 0)
    - (IF t = Collateral(r) THEN d.out - d.fee ELSE 0)
    - (IF t = Weth THEN r.executionFee ELSE 0)

(* Faulty: a cancelled request keeps its execution fee in the router.      *)
RefundWithoutFee(r, t) == IF t = TokenIn(r) THEN - r.amountIn ELSE 0

(* cancelIncreasePosition, cancelDecreasePosition                          *)
RefundFlow(r, t) ==
    - (IF t = TokenIn(r) THEN r.amountIn ELSE 0)
    - (IF t = Weth THEN r.executionFee ELSE 0)

Delete(kind, keys) ==
    requests' = [requests EXCEPT ![kind] =
        [key \in Key |-> IF key \in keys THEN NoRequest
                         ELSE requests[kind][key]]]

Pay(kind, deals, cancelled) ==
    LET executed == DOMAIN deals
        r(key) == requests[kind][key]
    IN
    /\ balance' = [t \in Tokens |-> balance[t]
           + SumFunction([key \in executed |->
                              ExecutionFlow(r(key), deals[key], t)])
           + SumFunction([key \in cancelled |-> RefundFlow(r(key), t)])]
    /\ feeReserves' = [t \in Tokens |-> feeReserves[t]
           + SumFunctionOnSet([key \in executed |-> deals[key].fee],
                              {key \in executed : Collateral(r(key)) = t})]

(* The requests executed, with their deals, and cancelled by one call.     *)
Resolve(kind, deals, cancelled) ==
    /\ Delete(kind, DOMAIN deals \cup cancelled)
    /\ Pay(kind, deals, cancelled)
    /\ UNCHANGED <<positionsIndex, adminVars, frozen>>

(* The deals the Vault may strike with a set of requests.                  *)
DealsOf(kind, keys) ==
    {deals \in [keys -> UNION {Deals(requests[kind][key]) : key \in keys}] :
        \A key \in keys : deals[key] \in Deals(requests[kind][key])}

-----------------------------------------------------------------------------
(* executeIncreasePosition, executeDecreasePosition and the two cancel     *)
(* functions, called directly. Calls that revert, or return without        *)
(* handling the request, change nothing.                                   *)

Execute(caller, kind, key) ==
    /\ Pending(kind, key)
    /\ ~Expired(requests[kind][key])
    /\ MayHandle(caller, key, requests[kind][key])
    /\ \E deals \in DealsOf(kind, {key}) : Resolve(kind, deals, {})
    /\ UNCHANGED <<requestKeys, keysStart>>

Cancel(caller, kind, key) ==
    /\ Pending(kind, key)
    /\ MayHandle(caller, key, requests[kind][key])
    /\ ~RefundFails(kind, key)
    /\ Resolve(kind, <<>>, {key})
    /\ UNCHANGED <<requestKeys, keysStart>>

(* executeIncreasePositions, executeDecreasePositions: the batch passes    *)
(* every slot up to the first request that is not ready. A request that is *)
(* not executed is cancelled; one that cannot be cancelled either stays in *)
(* the mapping, but its slot is deleted like the others.                   *)
Slot(kind, i) == requestKeys[kind][i + 1]
PendingSlot(kind, i) == Slot(kind, i) # NoKey /\ Pending(kind, Slot(kind, i))

(* Faulty: a refund that fails ends the batch, nothing catches its revert. *)
WaitingOrStuck(kind, i) ==
    PendingSlot(kind, i)
        /\ (\/ ~KeeperReady(requests[kind][Slot(kind, i)])
            \/ RefundFails(kind, Slot(kind, i)))

Waiting(kind, i) ==
    PendingSlot(kind, i) /\ ~KeeperReady(requests[kind][Slot(kind, i)])
FirstWaiting(kind, start, end) ==
    {stop \in start..end : /\ stop = end \/ Waiting(kind, stop)
                           /\ \A i \in start..(stop - 1) : ~Waiting(kind, i)}

Passed(kind, start, stop) ==
    {Slot(kind, i) : i \in {j \in start..(stop - 1) : PendingSlot(kind, j)}}

(* Faulty: the slot is deleted before its request turns out to be waiting. *)
ClearedTooSoon(kind, start, stop) ==
    [i \in DOMAIN requestKeys[kind] |->
        IF i \in (start + 1)..(stop + 1) THEN NoKey ELSE requestKeys[kind][i]]

Cleared(kind, start, stop) ==
    [i \in DOMAIN requestKeys[kind] |->
        IF i \in (start + 1)..stop THEN NoKey ELSE requestKeys[kind][i]]

ExecutePositions(caller, kind, endIndex) ==
    LET length == Len(requestKeys[kind])
        start == keysStart[kind]
        end == IF endIndex > length THEN length ELSE endIndex
    IN
    /\ caller \in isPositionKeeper
    /\ start < length
    /\ \E stop \in FirstWaiting(kind, start, end) :
        LET passed == Passed(kind, start, stop) IN
        /\ \E executed \in
               SUBSET {key \in passed : ~Expired(requests[kind][key])} :
           \E deals \in DealsOf(kind, executed) :
               Resolve(kind, deals, {key \in passed \ executed :
                                        ~RefundFails(kind, key)})
        /\ requestKeys' = [requestKeys EXCEPT
                               ![kind] = Cleared(kind, start, stop)]
        /\ keysStart' = [keysStart EXCEPT ![kind] = stop]

-----------------------------------------------------------------------------
(* The admin.                                                              *)

SetDelayValues(setting) ==
    /\ delays' = setting
    /\ UNCHANGED <<queueVars, moneyVars, isPositionKeeper, isLeverageEnabled,
                   frozen>>

SetPositionKeepers(keepers) ==
    /\ isPositionKeeper' = keepers
    /\ UNCHANGED <<queueVars, moneyVars, delays, isLeverageEnabled, frozen>>

SetIsLeverageEnabled(enabled) ==
    /\ isLeverageEnabled' = enabled
    /\ UNCHANGED <<queueVars, moneyVars, delays, isPositionKeeper, frozen>>

SetRequestKeysStartValues(increaseStart, decreaseStart) ==
    /\ keysStart' = [kind \in Kind |-> IF kind = "increase" THEN increaseStart
                                       ELSE decreaseStart]
    /\ UNCHANGED <<requests, positionsIndex, requestKeys, moneyVars, adminVars,
                   frozen>>

WithdrawFees(t) ==
    /\ feeReserves[t] > 0
    /\ balance' = [balance EXCEPT ![t] = @ - feeReserves[t]]
    /\ feeReserves' = [feeReserves EXCEPT ![t] = 0]
    /\ UNCHANGED <<queueVars, adminVars, frozen>>

(* The chain: block numbers and timestamps advance independently.          *)
Older(age, by) == IF age + by <= MaxAge THEN age + by ELSE MaxAge
Age(blocks, seconds) ==
    /\ requests' = [kind \in Kind |-> [key \in Key |->
           IF Pending(kind, key)
           THEN [requests[kind][key] EXCEPT !.blocks = Older(@, blocks),
                                            !.seconds = Older(@, seconds)]
           ELSE NoRequest]]
    /\ UNCHANGED <<positionsIndex, requestKeys, keysStart, adminVars,
                   moneyVars, frozen>>
NextBlock == Age(1, 0)
Elapse == Age(0, 1)

(* A token freezes an account or lets it transfer again.                   *)
SetFrozen(accounts) ==
    /\ frozen' = accounts
    /\ UNCHANGED <<queueVars, adminVars, moneyVars>>

-----------------------------------------------------------------------------
Trader ==
    \E account \in Accounts : \E fee \in ExecutionFees :
        \/ \E path \in Paths : \E n \in AmountsIn :
               \/ CreateIncreasePosition(account, path, n, fee)
               \/ CreateIncreasePositionETH(account, path, n, fee)
        \/ CreateDecreasePosition(account, fee)

Handling ==
    \E caller \in Callers : \E kind \in Kind :
        \/ \E key \in Key :
               Execute(caller, kind, key) \/ Cancel(caller, kind, key)
        \/ \E end \in 1..Len(requestKeys[kind]) :
               ExecutePositions(caller, kind, end)

Admin ==
    \/ \E setting \in DelaySettings : SetDelayValues(setting)
    \/ \E keepers \in KeeperSettings : SetPositionKeepers(keepers)
    \/ \E b \in LeverageSwitches : SetIsLeverageEnabled(b)
    \/ \E i, j \in StartValues : SetRequestKeysStartValues(i, j)
    \/ \E t \in Tokens : WithdrawFees(t)

Environment ==
    \/ NextBlock
    \/ Elapse
    \/ \E accounts \in SUBSET Freezable : SetFrozen(accounts)

Next == Trader \/ Handling \/ Admin \/ Environment

Spec == Init /\ [][Next]_vars

(* Blocks are made and time passes. Who else keeps working is a hypothesis *)
(* of the liveness properties.                                             *)
LiveSpec == Spec /\ WF_vars(NextBlock) /\ WF_vars(Elapse)

(* Keepers keep calling the batch functions.                               *)
KeepersRun ==
    \A kind \in Kind :
        WF_vars(\E caller \in Callers :
                    ExecutePositions(caller, kind, Len(requestKeys[kind])))

(* Owners keep trying to cancel what is still pending.                     *)
OwnersRetry ==
    \A kind \in Kind : \A key \in Key : WF_vars(Cancel(key[1], kind, key))

-----------------------------------------------------------------------------
(* Properties.                                                             *)

(* The router holds exactly what it owes: the fees it has collected, and   *)
(* the collateral and execution fee of every pending request, whatever mix *)
(* of direct calls, batches, swaps and failed refunds led here.            *)
Owed(kind, key, t) ==
    LET r == requests[kind][key]
    IN  IF ~Pending(kind, key) THEN 0
        ELSE (IF t = TokenIn(r) THEN r.amountIn ELSE 0)
             + (IF t = Weth THEN r.executionFee ELSE 0)
Custody ==
    \A t \in Tokens :
        balance[t] = feeReserves[t]
            + SumFunction([key \in Key |-> Owed("increase", key, t)
                                           + Owed("decrease", key, t)])

(* A request keeps its slot until it is settled, even when the admin moves *)
(* the start of the queue, unless its account could not be refunded.       *)
PendingStaysQueued ==
    \A kind \in Kind : \A key \in Key :
        Pending(kind, key) /\ key[1] \notin Freezable
            => \E i \in DOMAIN requestKeys[kind] : requestKeys[kind][i] = key

(* Requests are executed or cancelled at most once and their keys are      *)
(* never used again: the queues implement the life cycle of a request.     *)
Phase(kind, key) ==
    IF Pending(kind, key) THEN "pending"
    ELSE IF key[2] <= positionsIndex[kind][key[1]] THEN "settled" ELSE "unused"
RequestPhase == [id \in Kind \X Accounts \X (1..MaxRequests) |->
                     Phase(id[1], <<id[2], id[3]>>)]
Lifecycle == INSTANCE RequestLifecycle WITH phase <- RequestPhase
LifecycleSpec == Lifecycle!Spec

(* With the keepers at work every request is settled, whatever the Vault   *)
(* answers: no revert and no early request blocks the batch for good.      *)
EveryRequestSettled ==
    KeepersRun =>
        \A kind \in Kind : \A key \in Key :
            Pending(kind, key) /\ key[1] \notin Freezable
                ~> ~Pending(kind, key)

(* One account that cannot be refunded does not hold up the others: every  *)
(* slot is passed.                                                         *)
QueueNeverBlocks ==
    KeepersRun =>
        \A kind \in Kind :
            \A n \in 1..(MaxRequests * Cardinality(Accounts)) :
                Len(requestKeys[kind]) >= n ~> keysStart[kind] >= n

(* Without any keeper, and even after a batch has passed its request by,   *)
(* an owner gets the request settled once no token freezes it any more.    *)
OwnersRecover ==
    OwnersRetry /\ <>[](frozen = {})
        => \A kind \in Kind : \A key \in Key :
               Pending(kind, key) ~> ~Pending(kind, key)
=============================================================================
