------------------------- MODULE PositionRouterProofs -------------------------
(***************************************************************************)
(* What is proved of PositionRouter for every number of accounts, requests *)
(* and tokens: the queues keep their types, a pending request keeps its    *)
(* slot, the queues implement the life cycle of a request, and the router  *)
(* holds what it owes. Liveness is model-checked only.                     *)
(***************************************************************************)
EXTENDS PositionRouter, LedgerSums

(* Requests are filed under indices that have been given out.              *)
Filed ==
    \A kind \in Kind : \A key \in Key :
        Pending(kind, key) => key[2] <= positionsIndex[kind][key[1]]

(* The inductive invariant: a request that is pending has a used index, so *)
(* that creating the next one never overwrites it.                         *)
IInv == QueuesOK /\ Filed /\ PendingStaysQueued

(* A settled request never becomes pending, whatever its deletion covers.  *)
Settling(kind, keys) ==
    /\ keys \subseteq {key \in Key : Pending(kind, key)}
    /\ Delete(kind, keys)
    /\ UNCHANGED <<positionsIndex, adminVars, frozen>>

(* A key is an account and an index, and filed requests can be looked up.  *)
LEMMA KeyShape ==
    \A key \in Key : /\ key[1] \in Accounts /\ key[2] \in 1..MaxRequests
                     /\ key[2] \in Nat
                     /\ key = <<key[1], key[2]>>
BY RouterAssumption DEF Key

(* Deals are struck with exactly the requests a call executes.             *)
LEMMA DealsDomain ==
    ASSUME NEW kind, NEW keys, NEW deals \in DealsOf(kind, keys)
    PROVE  DOMAIN deals = keys
BY DEF DealsOf

(* What a trader hands to Store is a request.                              *)
LEMMA NewRequestType ==
    ASSUME NEW path \in Seq(Tokens), NEW amountIn \in Nat,
           NEW inETH \in BOOLEAN, NEW fee \in Nat
    PROVE  NewRequest(path, amountIn, inETH, fee) \in Request
BY RouterAssumption DEF NewRequest, Request

(* Filing a request keeps the queues typed, filed and complete.            *)
LEMMA StoreIInv ==
    ASSUME IInv, NEW kind \in Kind, NEW account \in Accounts,
           NEW request \in Request, Store(kind, account, request),
           UNCHANGED <<adminVars, frozen>>
    PROVE  IInv'
<1> DEFINE next == positionsIndex[kind][account] + 1
           key == <<account, next>>
<1>1. /\ next \in 1..MaxRequests /\ key \in Key
      /\ positionsIndex[kind][account] \in Nat
  BY RouterAssumption DEF IInv, QueuesOK, Store, Key
<1>2. requests' = [requests EXCEPT ![kind][key] = request]
  BY DEF Store
<1>3. positionsIndex' = [positionsIndex EXCEPT ![kind][account] = next]
  BY DEF Store
<1>4. requestKeys' = [requestKeys EXCEPT ![kind] = Append(@, key)]
  BY DEF Store
<1>5. keysStart' = keysStart /\ isPositionKeeper' = isPositionKeeper
      /\ delays' = delays /\ isLeverageEnabled' = isLeverageEnabled
      /\ frozen' = frozen
  BY DEF Store, adminVars
<1> HIDE DEF next, key
<1>6. QueuesOK'
  <2>1. requests' \in [Kind -> [Key -> Request \cup {NoRequest}]]
    BY <1>1, <1>2 DEF IInv, QueuesOK
  <2>2. positionsIndex' \in [Kind -> [Accounts -> 0..MaxRequests]]
    BY <1>1, <1>3 DEF IInv, QueuesOK
  <2>3. requestKeys' \in [Kind -> Seq(Key \cup {NoKey})]
    BY <1>1, <1>4 DEF IInv, QueuesOK
  <2> QED BY <2>1, <2>2, <2>3, <1>5 DEF IInv, QueuesOK
<1>7. Filed'
  <2> SUFFICES ASSUME NEW k \in Kind, NEW id \in Key, Pending(k, id)'
               PROVE  id[2] <= positionsIndex'[k][id[1]]
    BY DEF Filed, Pending
  <2>1. id[1] \in Accounts /\ id[2] \in Nat
    BY KeyShape
  <2>2. CASE k = kind /\ id = key
    BY <2>2, <1>1, <1>3, <2>1 DEF key, IInv, QueuesOK
  <2>3. CASE ~(k = kind /\ id = key)
    <3>1. Pending(k, id)
      BY <2>3, <1>1, <1>2 DEF Pending, IInv, QueuesOK
    <3>2. id[2] <= positionsIndex[k][id[1]]
      BY <3>1 DEF IInv, Filed
    <3>3. /\ positionsIndex[k][id[1]] \in Nat
          /\ positionsIndex'[k][id[1]]
                 = IF k = kind /\ id[1] = account THEN next
                   ELSE positionsIndex[k][id[1]]
      BY <2>1, <1>3, <1>1, RouterAssumption DEF IInv, QueuesOK
    <3> QED BY <3>2, <3>3, <2>1, <1>1 DEF next
  <2> QED BY <2>2, <2>3
<1>8. PendingStaysQueued'
  <2> SUFFICES ASSUME NEW k \in Kind, NEW id \in Key, Pending(k, id)',
                      id[1] \notin Freezable
               PROVE  \E i \in DOMAIN requestKeys'[k] : requestKeys'[k][i] = id
    BY DEF PendingStaysQueued, Pending
  <2>0. requestKeys[kind] \in Seq(Key \cup {NoKey})
    BY DEF IInv, QueuesOK
  <2>1. CASE k = kind /\ id = key
    <3>1. /\ requestKeys'[k] = Append(requestKeys[k], key)
      BY <2>1, <1>4 DEF IInv, QueuesOK
    <3>2. /\ Len(requestKeys[k]) + 1 \in DOMAIN requestKeys'[k]
          /\ requestKeys'[k][Len(requestKeys[k]) + 1] = key
      BY <3>1, <2>0, <2>1, <1>1
    <3> QED BY <3>2, <2>1
  <2>2. CASE ~(k = kind /\ id = key)
    <3>1. Pending(k, id)
      BY <2>2, <1>1, <1>2 DEF Pending, IInv, QueuesOK
    <3>2. PICK i \in DOMAIN requestKeys[k] : requestKeys[k][i] = id
      BY <3>1 DEF IInv, PendingStaysQueued
    <3>3. CASE k = kind
      <4>1. requestKeys'[k] = Append(requestKeys[k], key)
        BY <3>3, <1>4 DEF IInv, QueuesOK
      <4> QED BY <4>1, <3>2, <3>3, <2>0, <1>1
    <3>4. CASE k # kind
      <4>1. requestKeys'[k] = requestKeys[k]
        BY <3>4, <1>4 DEF IInv, QueuesOK
      <4> QED BY <4>1, <3>2
    <3> QED BY <3>3, <3>4
  <2> QED BY <2>1, <2>2
<1> QED BY <1>6, <1>7, <1>8 DEF IInv

(* Deleting pending requests keeps the rest typed and filed.               *)
LEMMA SettlingFiled ==
    ASSUME IInv, NEW kind \in Kind, NEW keys, Settling(kind, keys)
    PROVE  /\ requests' \in [Kind -> [Key -> Request \cup {NoRequest}]]
           /\ Filed'
           /\ \A k \in Kind : \A key \in Key :
                 Pending(k, key)' <=> Pending(k, key) /\ ~(k = kind /\ key \in keys)
<1>1. requests' = [requests EXCEPT ![kind] =
          [key \in Key |-> IF key \in keys THEN NoRequest
                           ELSE requests[kind][key]]]
  BY DEF Settling, Delete
<1>2. requests' \in [Kind -> [Key -> Request \cup {NoRequest}]]
  BY <1>1 DEF IInv, QueuesOK
<1>3. \A k \in Kind : \A key \in Key :
          Pending(k, key)' <=> Pending(k, key) /\ ~(k = kind /\ key \in keys)
  BY <1>1 DEF Pending, IInv, QueuesOK
<1>4. Filed'
  BY <1>3 DEF Filed, Settling, IInv
<1> QED BY <1>2, <1>3, <1>4

(* What Resolve does to the queue is a settling.                           *)
LEMMA ResolveSettles ==
    ASSUME NEW kind \in Kind, NEW deals, NEW cancelled, NEW keys,
           keys = DOMAIN deals \cup cancelled,
           \A key \in keys : key \in Key /\ Pending(kind, key),
           Resolve(kind, deals, cancelled)
    PROVE  Settling(kind, keys)
BY DEF Resolve, Settling

(* A direct call settles the one request it names.                         *)
LEMMA ExecuteSettles ==
    ASSUME NEW caller, NEW kind \in Kind, NEW key \in Key,
           Execute(caller, kind, key)
    PROVE  Settling(kind, {key}) /\ UNCHANGED <<requestKeys, keysStart>>
<1>1. PICK deals \in DealsOf(kind, {key}) : Resolve(kind, deals, {})
  BY DEF Execute
<1>2. {key} = DOMAIN deals \cup {}
  BY DealsDomain
<1>3. Pending(kind, key) /\ UNCHANGED <<requestKeys, keysStart>>
  BY DEF Execute
<1> QED BY <1>1, <1>2, <1>3, ResolveSettles

(* So does a cancellation.                                                 *)
LEMMA CancelSettles ==
    ASSUME NEW caller, NEW kind \in Kind, NEW key \in Key,
           Cancel(caller, kind, key)
    PROVE  Settling(kind, {key}) /\ UNCHANGED <<requestKeys, keysStart>>
<1>1. Resolve(kind, <<>>, {key}) /\ Pending(kind, key)
      /\ UNCHANGED <<requestKeys, keysStart>>
  BY DEF Cancel
<1>2. {key} = DOMAIN <<>> \cup {key}
  OBVIOUS
<1> QED BY <1>1, <1>2, ResolveSettles

(* A direct call keeps the invariant.                                      *)
LEMMA DirectIInv ==
    ASSUME IInv, NEW kind \in Kind, NEW keys, Settling(kind, keys),
           UNCHANGED <<requestKeys, keysStart>>
    PROVE  IInv'
<1>1. QueuesOK'
  BY SettlingFiled DEF IInv, QueuesOK, Settling, adminVars
<1>2. PendingStaysQueued'
  BY SettlingFiled DEF IInv, PendingStaysQueued
<1> QED BY <1>1, <1>2, SettlingFiled DEF IInv

(* A batch executes some of the requests it passes and cancels others.     *)
LEMMA BatchResolves ==
    ASSUME IInv, NEW caller, NEW kind \in Kind, NEW endIndex \in Nat,
           ExecutePositions(caller, kind, endIndex)
    PROVE  \E executed \in SUBSET Key, cancelled \in SUBSET Key :
              /\ executed \cap cancelled = {}
              /\ \A key \in executed \cup cancelled : Pending(kind, key)
              /\ \E deals \in DealsOf(kind, executed) :
                    Resolve(kind, deals, cancelled)
<1> DEFINE length == Len(requestKeys[kind])
           start == keysStart[kind]
           end == IF endIndex > length THEN length ELSE endIndex
           rest(passed, executed) == {key \in passed \ executed :
                                         ~RefundFails(kind, key)}
<1>1. start \in Nat /\ length \in Nat /\ end \in Nat /\ end <= length
      /\ requestKeys[kind] \in Seq(Key \cup {NoKey})
  BY DEF IInv, QueuesOK
<1>2. PICK stop \in FirstWaiting(kind, start, end) :
        \E executed \in SUBSET {key \in Passed(kind, start, stop) :
                                   ~Expired(requests[kind][key])} :
           \E deals \in DealsOf(kind, executed) :
              Resolve(kind, deals, rest(Passed(kind, start, stop), executed))
  BY DEF ExecutePositions
<1>3. stop \in start..end
  BY <1>2 DEF FirstWaiting
<1> HIDE DEF end, start, length
<1>4. stop \in Nat /\ start <= stop /\ stop <= length
  BY <1>1, <1>3
<1> DEFINE passed == Passed(kind, start, stop)
<1>5. \A key \in passed : key \in Key /\ Pending(kind, key)
  <2> SUFFICES ASSUME NEW i \in start..(stop - 1), PendingSlot(kind, i)
               PROVE  Slot(kind, i) \in Key /\ Pending(kind, Slot(kind, i))
    BY DEF Passed
  <2>1. i + 1 \in 1..length
    BY <1>1, <1>4
  <2>2. Slot(kind, i) \in Key \cup {NoKey}
    BY <2>1, <1>1 DEF Slot, length
  <2> QED BY <2>2 DEF PendingSlot
<1>6. PICK executed \in SUBSET passed :
        \E deals \in DealsOf(kind, executed) :
           Resolve(kind, deals, rest(passed, executed))
  BY <1>2
<1> HIDE DEF passed
<1>7. /\ executed \in SUBSET Key /\ rest(passed, executed) \in SUBSET Key
      /\ executed \cap rest(passed, executed) = {}
      /\ \A key \in executed \cup rest(passed, executed) : Pending(kind, key)
  BY <1>5
<1> QED BY <1>6, <1>7

(* A batch settles every request whose slot it clears, except one it could *)
(* not refund: the account of that one is frozen.                          *)
LEMMA BatchSettles ==
    ASSUME IInv, NEW caller, NEW kind \in Kind, NEW endIndex \in Nat,
           ExecutePositions(caller, kind, endIndex)
    PROVE  \E stop \in Nat, keys \in SUBSET Key :
              LET start == keysStart[kind] IN
              /\ start <= stop /\ stop <= Len(requestKeys[kind])
              /\ Settling(kind, keys)
              /\ \A key \in Passed(kind, start, stop) \ keys : key[1] \in frozen
              /\ requestKeys' = [requestKeys EXCEPT
                                    ![kind] = Cleared(kind, start, stop)]
              /\ keysStart' = [keysStart EXCEPT ![kind] = stop]
<1> DEFINE length == Len(requestKeys[kind])
           start == keysStart[kind]
           end == IF endIndex > length THEN length ELSE endIndex
<1>1. start \in Nat /\ length \in Nat /\ end \in Nat /\ end <= length
      /\ requestKeys[kind] \in Seq(Key \cup {NoKey})
  BY DEF IInv, QueuesOK
<1>2. PICK stop \in FirstWaiting(kind, start, end) :
        /\ \E executed \in SUBSET {key \in Passed(kind, start, stop) :
                                      ~Expired(requests[kind][key])} :
              \E deals \in DealsOf(kind, executed) :
                 Resolve(kind, deals,
                    {key \in Passed(kind, start, stop) \ executed :
                        ~RefundFails(kind, key)})
        /\ requestKeys' = [requestKeys EXCEPT
                              ![kind] = Cleared(kind, start, stop)]
        /\ keysStart' = [keysStart EXCEPT ![kind] = stop]
  BY DEF ExecutePositions
<1>3. stop \in start..end
  BY <1>2 DEF FirstWaiting
<1> HIDE DEF end, start, length
<1>4. stop \in Nat /\ start <= stop /\ stop <= length
  BY <1>1, <1>3
<1> DEFINE passed == Passed(kind, start, stop)
<1>5. PICK executed \in SUBSET passed :
        \E deals \in DealsOf(kind, executed) :
           Resolve(kind, deals, {key \in passed \ executed :
                                    ~RefundFails(kind, key)})
  BY <1>2
<1>6. PICK deals \in DealsOf(kind, executed) :
           Resolve(kind, deals, {key \in passed \ executed :
                                    ~RefundFails(kind, key)})
  BY <1>5
<1>7. \A key \in passed : key \in Key /\ Pending(kind, key)
  <2> SUFFICES ASSUME NEW i \in start..(stop - 1), PendingSlot(kind, i)
               PROVE  Slot(kind, i) \in Key /\ Pending(kind, Slot(kind, i))
    BY DEF Passed
  <2>1. i + 1 \in 1..length
    BY <1>1, <1>4
  <2>2. Slot(kind, i) \in Key \cup {NoKey}
    BY <2>1, <1>1 DEF Slot, length
  <2> QED BY <2>2 DEF PendingSlot
<1> HIDE DEF passed
<1> DEFINE cancelled == {key \in passed \ executed : ~RefundFails(kind, key)}
           keys == executed \cup cancelled
<1>8. keys \subseteq passed /\ keys \in SUBSET Key
  BY <1>7
<1>9. keys = DOMAIN deals \cup cancelled
  BY <1>6, DealsDomain
<1>10. \A key \in keys : key \in Key /\ Pending(kind, key)
  BY <1>7, <1>8
<1>11. Resolve(kind, deals, cancelled)
  BY <1>6
<1>12. \A key \in passed \ keys : key[1] \in frozen
  BY DEF RefundFails
<1> HIDE DEF cancelled, keys
<1>13. Settling(kind, keys)
  BY <1>9, <1>10, <1>11, ResolveSettles
<1> QED
  BY <1>2, <1>4, <1>8, <1>12, <1>13 DEF start, length, passed

(* A batch keeps the invariant.                                            *)
LEMMA BatchIInv ==
    ASSUME IInv, NEW caller, NEW kind \in Kind, NEW endIndex \in Nat,
           ExecutePositions(caller, kind, endIndex)
    PROVE  IInv'
<1> DEFINE start == keysStart[kind]
<1>1. PICK stop \in Nat, keys \in SUBSET Key :
              /\ start <= stop /\ stop <= Len(requestKeys[kind])
              /\ Settling(kind, keys)
              /\ \A key \in Passed(kind, start, stop) \ keys : key[1] \in frozen
              /\ requestKeys' = [requestKeys EXCEPT
                                    ![kind] = Cleared(kind, start, stop)]
              /\ keysStart' = [keysStart EXCEPT ![kind] = stop]
  BY BatchSettles
<1>2. start \in Nat /\ requestKeys[kind] \in Seq(Key \cup {NoKey})
  BY DEF IInv, QueuesOK
<1>3. /\ requests' \in [Kind -> [Key -> Request \cup {NoRequest}]]
      /\ Filed'
      /\ \A k \in Kind : \A key \in Key :
            Pending(k, key)' <=> Pending(k, key) /\ ~(k = kind /\ key \in keys)
  BY <1>1, SettlingFiled
<1>4. Cleared(kind, start, stop) \in Seq(Key \cup {NoKey})
  BY <1>2 DEF Cleared
<1>5. QueuesOK'
  BY <1>1, <1>3, <1>4 DEF IInv, QueuesOK, Settling, adminVars
<1>6. PendingStaysQueued'
  <2> SUFFICES ASSUME NEW k \in Kind, NEW id \in Key, Pending(k, id)',
                      id[1] \notin Freezable
               PROVE  \E i \in DOMAIN requestKeys'[k] : requestKeys'[k][i] = id
    BY DEF PendingStaysQueued, Pending
  <2>1. Pending(k, id) /\ ~(k = kind /\ id \in keys)
    BY <1>3
  <2>2. PICK i \in DOMAIN requestKeys[k] : requestKeys[k][i] = id
    BY <2>1 DEF IInv, PendingStaysQueued
  <2>3. CASE k # kind
    <3>1. requestKeys'[k] = requestKeys[k]
      BY <2>3, <1>1 DEF IInv, QueuesOK
    <3> QED BY <3>1, <2>2
  <2>4. CASE k = kind
    <3>1. requestKeys'[k] = Cleared(kind, start, stop)
      BY <2>4, <1>1 DEF IInv, QueuesOK
    <3>2. i \notin (start + 1)..stop
      <4> SUFFICES ASSUME i \in (start + 1)..stop PROVE FALSE
        OBVIOUS
      <4>1. i - 1 \in start..(stop - 1) /\ (i - 1) + 1 = i
        BY <1>1, <1>2
      <4>2. Slot(kind, i - 1) = id /\ PendingSlot(kind, i - 1)
        BY <4>1, <2>1, <2>2, <2>4, RouterAssumption DEF Slot, PendingSlot
      <4>3. id \in Passed(kind, start, stop)
        BY <4>1, <4>2 DEF Passed
      <4>4. id[1] \in frozen
        BY <4>3, <1>1, <2>1, <2>4
      <4> QED BY <4>4 DEF IInv, QueuesOK
    <3> QED BY <3>1, <3>2, <2>2, <2>4 DEF Cleared
  <2> QED BY <2>3, <2>4
<1> QED BY <1>3, <1>5, <1>6 DEF IInv

(* Requests only get older: who is pending does not change.                *)
LEMMA AgePending ==
    ASSUME IInv, NEW blocks \in Nat, NEW seconds \in Nat, Age(blocks, seconds)
    PROVE  /\ requests' \in [Kind -> [Key -> Request \cup {NoRequest}]]
           /\ \A k \in Kind : \A key \in Key : Pending(k, key)' <=> Pending(k, key)
<1>1. \A age \in 0..MaxAge, by \in Nat : Older(age, by) \in 0..MaxAge
  BY RouterAssumption DEF Older
<1> DEFINE aged(r) == [r EXCEPT !.blocks = Older(@, blocks),
                                !.seconds = Older(@, seconds)]
<1>2. \A r \in Request : aged(r) \in Request
  BY <1>1 DEF Request
<1>3. requests' = [kind \in Kind |-> [key \in Key |->
          IF Pending(kind, key) THEN aged(requests[kind][key])
          ELSE NoRequest]]
  BY DEF Age
<1> HIDE DEF aged
<1>4. \A kind \in Kind : \A key \in Key :
         Pending(kind, key) => aged(requests[kind][key]) \in Request
  BY <1>2 DEF IInv, QueuesOK, Pending
<1>5. requests' \in [Kind -> [Key -> Request \cup {NoRequest}]]
  BY <1>3, <1>4
<1>6. \A k \in Kind : \A key \in Key : Pending(k, key)' <=> Pending(k, key)
  BY <1>3, <1>4, RouterAssumption DEF Pending
<1> QED BY <1>5, <1>6

(* Ageing keeps the invariant.                                             *)
LEMMA AgeIInv ==
    ASSUME IInv, NEW blocks \in Nat, NEW seconds \in Nat, Age(blocks, seconds)
    PROVE  IInv'
<1>1. QueuesOK'
  BY AgePending DEF IInv, QueuesOK, Age, adminVars
<1>2. Filed' /\ PendingStaysQueued'
  BY AgePending DEF IInv, Filed, PendingStaysQueued, Age
<1> QED BY <1>1, <1>2 DEF IInv

(* Nothing is pending at the start.                                        *)
LEMMA InitIInv == Init => IInv
<1> SUFFICES ASSUME Init PROVE IInv
  OBVIOUS
<1>1. QueuesOK
  BY RouterAssumption DEF Init, QueuesOK
<1>2. \A kind \in Kind : \A key \in Key : ~Pending(kind, key)
  BY DEF Init, Pending
<1> QED BY <1>1, <1>2 DEF IInv, Filed, PendingStaysQueued

(* The traders' three calls are a Store of some request.                   *)
LEMMA TraderStores ==
    ASSUME Trader
    PROVE  \E kind \in Kind, account \in Accounts, request \in Request :
              /\ Store(kind, account, request)
              /\ UNCHANGED <<adminVars, frozen>>
<1>1. /\ \A path \in Paths : path \in Seq(Tokens)
      /\ \A n \in AmountsIn : n \in Nat
      /\ \A fee \in ExecutionFees : fee \in Nat
      /\ <<Weth>> \in Seq(Tokens) /\ 0 \in Nat
      /\ "increase" \in Kind /\ "decrease" \in Kind
  BY RouterAssumption DEF Kind
<1>2. PICK account \in Accounts, fee \in ExecutionFees :
        \/ \E path \in Paths, n \in AmountsIn :
              \/ CreateIncreasePosition(account, path, n, fee)
              \/ CreateIncreasePositionETH(account, path, n, fee)
        \/ CreateDecreasePosition(account, fee)
  BY DEF Trader
<1>3. CASE \E path \in Paths, n \in AmountsIn :
              CreateIncreasePosition(account, path, n, fee)
  <2>1. PICK path \in Paths, n \in AmountsIn :
              CreateIncreasePosition(account, path, n, fee)
    BY <1>3
  <2>2. NewRequest(path, n, FALSE, fee) \in Request
    BY <1>1, NewRequestType
  <2> QED BY <2>1, <2>2, <1>1 DEF CreateIncreasePosition
<1>4. CASE \E path \in Paths, n \in AmountsIn :
              CreateIncreasePositionETH(account, path, n, fee)
  <2>1. PICK path \in Paths, n \in AmountsIn :
              CreateIncreasePositionETH(account, path, n, fee)
    BY <1>4
  <2>2. NewRequest(path, n, TRUE, fee) \in Request
    BY <1>1, NewRequestType
  <2> QED BY <2>1, <2>2, <1>1 DEF CreateIncreasePositionETH
<1>5. CASE CreateDecreasePosition(account, fee)
  <2>1. NewRequest(<<Weth>>, 0, FALSE, fee) \in Request
    BY <1>1, NewRequestType
  <2> QED BY <1>5, <2>1, <1>1 DEF CreateDecreasePosition
<1> QED BY <1>2, <1>3, <1>4, <1>5

(* What the admin and the tokens do leaves the requests alone.             *)
LEMMA AdminIInv ==
    ASSUME IInv, \/ Admin
                 \/ \E accounts \in SUBSET Freezable : SetFrozen(accounts)
                 \/ UNCHANGED vars
    PROVE  IInv' /\ UNCHANGED <<requests, positionsIndex>>
<1>1. /\ UNCHANGED <<requests, positionsIndex, requestKeys>>
      /\ keysStart' \in [Kind -> Nat] /\ isPositionKeeper' \in SUBSET Callers
      /\ delays' \in Delays /\ isLeverageEnabled' \in BOOLEAN
      /\ frozen' \in SUBSET Freezable
  <2>1. CASE \E setting \in DelaySettings : SetDelayValues(setting)
    BY <2>1, RouterAssumption
       DEF SetDelayValues, IInv, QueuesOK, queueVars
  <2>2. CASE \E keepers \in KeeperSettings : SetPositionKeepers(keepers)
    BY <2>2, RouterAssumption
       DEF SetPositionKeepers, IInv, QueuesOK, queueVars
  <2>3. CASE \E b \in LeverageSwitches : SetIsLeverageEnabled(b)
    BY <2>3, RouterAssumption
       DEF SetIsLeverageEnabled, IInv, QueuesOK, queueVars
  <2>4. CASE \E i, j \in StartValues : SetRequestKeysStartValues(i, j)
    BY <2>4, RouterAssumption
       DEF SetRequestKeysStartValues, IInv, QueuesOK, adminVars
  <2>5. CASE \E t \in Tokens : WithdrawFees(t)
    BY <2>5 DEF WithdrawFees, IInv, QueuesOK, queueVars, adminVars
  <2>6. CASE \E accounts \in SUBSET Freezable : SetFrozen(accounts)
    BY <2>6 DEF SetFrozen, IInv, QueuesOK, queueVars, adminVars
  <2>7. CASE UNCHANGED vars
    BY <2>7 DEF vars, IInv, QueuesOK, queueVars, adminVars
  <2> QED BY <2>1, <2>2, <2>3, <2>4, <2>5, <2>6, <2>7 DEF Admin
<1>2. QueuesOK'
  BY <1>1 DEF IInv, QueuesOK
<1>3. Filed' /\ PendingStaysQueued'
  BY <1>1 DEF IInv, Filed, PendingStaysQueued, Pending
<1> QED BY <1>1, <1>2, <1>3 DEF IInv

(* The steps of the router, as what they do to the queues.                 *)
LEMMA StepKinds ==
    ASSUME IInv, [Next]_vars
    PROVE  \/ \E kind \in Kind, account \in Accounts, request \in Request :
                 /\ Store(kind, account, request)
                 /\ UNCHANGED <<adminVars, frozen>>
           \/ \E kind \in Kind, keys \in SUBSET Key :
                 Settling(kind, keys) /\ UNCHANGED <<requestKeys, keysStart>>
           \/ \E kind \in Kind, caller \in Callers, end \in Nat :
                 ExecutePositions(caller, kind, end)
           \/ \E blocks, seconds \in Nat : Age(blocks, seconds)
           \/ Admin \/ (\E accounts \in SUBSET Freezable : SetFrozen(accounts))
           \/ UNCHANGED vars
<1>1. CASE Trader
  BY <1>1, TraderStores
<1>2. CASE Handling
  <2>1. PICK caller \in Callers, kind \in Kind :
            \/ \E key \in Key : Execute(caller, kind, key)
            \/ \E key \in Key : Cancel(caller, kind, key)
            \/ \E end \in 1..Len(requestKeys[kind]) :
                  ExecutePositions(caller, kind, end)
    BY <1>2 DEF Handling
  <2>2. \A end \in 1..Len(requestKeys[kind]) : end \in Nat
    BY DEF IInv, QueuesOK
  <2> QED BY <2>1, <2>2, ExecuteSettles, CancelSettles
<1>3. CASE Environment
  <2>1. CASE NextBlock \/ Elapse
    BY <2>1 DEF NextBlock, Elapse
  <2> QED BY <2>1, <1>3 DEF Environment
<1> QED BY <1>1, <1>2, <1>3 DEF Next

(* Every step keeps the invariant.                                         *)
LEMMA StepIInv == IInv /\ [Next]_vars => IInv'
<1> SUFFICES ASSUME IInv, [Next]_vars PROVE IInv'
  OBVIOUS
<1>1. CASE \E kind \in Kind, account \in Accounts, request \in Request :
              /\ Store(kind, account, request)
              /\ UNCHANGED <<adminVars, frozen>>
  BY <1>1, StoreIInv
<1>2. CASE \E kind \in Kind, keys \in SUBSET Key :
              Settling(kind, keys) /\ UNCHANGED <<requestKeys, keysStart>>
  BY <1>2, DirectIInv
<1>3. CASE \E kind \in Kind, caller \in Callers, end \in Nat :
              ExecutePositions(caller, kind, end)
  BY <1>3, BatchIInv
<1>4. CASE \E blocks, seconds \in Nat : Age(blocks, seconds)
  BY <1>4, AgeIInv
<1>5. CASE \/ Admin \/ (\E accounts \in SUBSET Freezable : SetFrozen(accounts))
           \/ UNCHANGED vars
  BY <1>5, AdminIInv
<1> QED BY <1>1, <1>2, <1>3, <1>4, <1>5, StepKinds

(* The invariant holds in every behaviour of the router.                   *)
THEOREM QueueInvariance == Spec => []IInv
<1>1. Init => IInv
  BY InitIInv
<1>2. IInv /\ [Next]_vars => IInv'
  BY StepIInv
<1> QED BY <1>1, <1>2, PTL DEF Spec

(* No pending request of an account that can be refunded loses its slot,   *)
(* whatever batches, direct calls and moves of the queue's start happen.   *)
THEOREM NothingFallsOffTheQueue == Spec => []PendingStaysQueued
<1>1. IInv => PendingStaysQueued
  BY DEF IInv
<1> QED BY <1>1, QueueInvariance, PTL

-----------------------------------------------------------------------------
(* Custody: what the router holds for its requests.                        *)

(* There are finitely many keys, so the sums over them exist.              *)
LEMMA KeyFinite == IsFiniteSet(Key)
<1>1. IsFiniteSet(1..MaxRequests)
  BY RouterAssumption, FS_Interval
<1> QED BY <1>1, RouterAssumption, FS_Product DEF Key

(* What is owed in token t for the requests, of either kind, under a key.  *)
OwedUnder(t) == [key \in Key |-> Owed("increase", key, t)
                                + Owed("decrease", key, t)]

(* What is owed is an amount.                                              *)
LEMMA OwedType ==
    ASSUME NEW t, NEW kind \in Kind, NEW key \in Key
    PROVE  /\ QueuesOK => Owed(kind, key, t) \in Nat
           /\ QueuesOK' => Owed(kind, key, t)' \in Nat
BY DEF QueuesOK, Owed, Pending, Request

(* So are its sums, before and after a step.                               *)
LEMMA OwedSums ==
    ASSUME QueuesOK, QueuesOK', NEW t
    PROVE  /\ \A key \in Key : /\ OwedUnder(t)[key] \in Int
                               /\ OwedUnder(t)'[key] \in Int
           /\ SumFunction(OwedUnder(t)) \in Int
<1>1. \A key \in Key : OwedUnder(t)[key] \in Int /\ OwedUnder(t)'[key] \in Int
  BY OwedType DEF OwedUnder, Kind
<1>2. DOMAIN OwedUnder(t) = Key
  BY DEF OwedUnder
<1>3. SumFunctionOnSet(OwedUnder(t), Key) \in Int
  BY <1>1, KeyFinite, SumType
<1> QED BY <1>1, <1>2, <1>3 DEF SumFunction

(* Custody, token by token.                                                *)
LEMMA CustodyOf ==
    Custody <=> \A t \in Tokens : balance[t] = feeReserves[t]
                                      + SumFunction(OwedUnder(t))
BY DEF Custody, OwedUnder

(* A sum over the keys follows the change under one of them.               *)
LEMMA SumUnderKeys ==
    ASSUME NEW f, NEW g, NEW key \in Key,
           \A id \in Key : f[id] \in Int /\ g[id] \in Int,
           \A id \in Key \ {key} : g[id] = f[id]
    PROVE  SumFunctionOnSet(g, Key) = SumFunctionOnSet(f, Key)
                                         + (g[key] - f[key])
<1>1. \A id \in Key : /\ f[id] \in Int /\ g[id] \in Int
                      /\ (id # key => g[id] = f[id])
  OBVIOUS
<1> QED BY <1>1, KeyFinite, SumChange

(* A new request is owed what its trader paid in.                          *)
LEMMA StoreOwes ==
    ASSUME IInv, IInv', NEW kind \in Kind, NEW account \in Accounts,
           NEW request \in Request, Store(kind, account, request),
           NEW t \in Tokens
    PROVE  SumFunction(OwedUnder(t)') = SumFunction(OwedUnder(t))
               + (IF t = TokenIn(request) THEN request.amountIn ELSE 0)
               + (IF t = Weth THEN request.executionFee ELSE 0)
<1> DEFINE n == (IF t = TokenIn(request) THEN request.amountIn ELSE 0)
                   + (IF t = Weth THEN request.executionFee ELSE 0)
<1>1. PICK key \in Key :
          key = <<account, positionsIndex[kind][account] + 1>>
  BY RouterAssumption DEF IInv, QueuesOK, Store, Key
<1>2. requests' = [requests EXCEPT ![kind][key] = request]
  BY <1>1 DEF Store
<1>3. ~Pending(kind, key)
  BY <1>1 DEF IInv, QueuesOK, Filed
<1>4. n \in Nat
  BY DEF Request
<1>5. requests'[kind][key] = request /\ request # NoRequest
  BY <1>1, <1>2, RouterAssumption DEF IInv, QueuesOK
<1>6. \A k \in Kind : \A id \in Key :
          ~(k = kind /\ id = key) => requests'[k][id] = requests[k][id]
  BY <1>1, <1>2 DEF IInv, QueuesOK
<1>7. Owed(kind, key, t) = 0 /\ Owed(kind, key, t)' = n
  BY <1>3, <1>5 DEF Owed, Pending
<1>8. \A k \in Kind : \A id \in Key :
          ~(k = kind /\ id = key) => Owed(k, id, t)' = Owed(k, id, t)
  BY <1>6 DEF Owed, Pending
<1> HIDE DEF n
<1>9. \A k \in Kind : \A id \in Key :
          Owed(k, id, t) \in Int /\ Owed(k, id, t)' \in Int
  BY OwedType DEF IInv
<1>10. /\ \A id \in Key \ {key} : OwedUnder(t)'[id] = OwedUnder(t)[id]
       /\ OwedUnder(t)'[key] - OwedUnder(t)[key] = n
  <2>1. \A id \in Key :
            /\ OwedUnder(t)'[id] = Owed("increase", id, t)'
                                       + Owed("decrease", id, t)'
            /\ OwedUnder(t)[id] = Owed("increase", id, t)
                                      + Owed("decrease", id, t)
    BY DEF OwedUnder
  <2>2. \A id \in Key \ {key} : OwedUnder(t)'[id] = OwedUnder(t)[id]
    BY <1>8, <2>1 DEF Kind
  <2>3. OwedUnder(t)'[key] - OwedUnder(t)[key] = n
    BY <1>1, <1>4, <1>7, <1>8, <1>9, <2>1 DEF Kind
  <2> QED BY <2>2, <2>3
<1>11. \A id \in Key : /\ OwedUnder(t)[id] \in Int
                       /\ OwedUnder(t)'[id] \in Int
  BY OwedSums DEF IInv
<1>12. SumFunctionOnSet(OwedUnder(t)', Key)
           = SumFunctionOnSet(OwedUnder(t), Key)
             + (OwedUnder(t)'[key] - OwedUnder(t)[key])
  BY <1>10, <1>11, SumUnderKeys
<1>13. DOMAIN OwedUnder(t) = Key /\ DOMAIN OwedUnder(t)' = Key
  BY DEF OwedUnder
<1>14. /\ SumFunction(OwedUnder(t)') = SumFunction(OwedUnder(t)) + n
       /\ SumFunction(OwedUnder(t)) \in Int
  BY <1>10, <1>12, <1>13, OwedSums DEF SumFunction, IInv
<1> QED BY <1>14 DEF n, Request

(* The requests of A are executed and those of B cancelled: what is owed   *)
(* drops by what flows out and back, except for the fees of part.          *)
Settles(S, A, B, part, before, after, drop, flow, back, fee) ==
    /\ IsFiniteSet(S) /\ A \subseteq S /\ B \subseteq S /\ part \subseteq A
    /\ A \cap B = {}
    /\ \A x \in S : /\ after[x] \in Int /\ drop[x] \in Int
                    /\ before[x] = after[x] + drop[x]
    /\ \A x \in S \ (A \cup B) : drop[x] = 0
    /\ \A x \in A : /\ flow[x] \in Int /\ fee[x] \in Int
                    /\ flow[x] + drop[x] = IF x \in part THEN fee[x] ELSE 0
    /\ \A x \in B : back[x] \in Int /\ back[x] + drop[x] = 0

(* So do the sums.                                                         *)
LEMMA Settlement ==
    ASSUME NEW S, NEW A, NEW B, NEW part, NEW before, NEW after, NEW drop,
           NEW flow, NEW back, NEW fee,
           Settles(S, A, B, part, before, after, drop, flow, back, fee)
    PROVE  /\ SumFunctionOnSet(after, S)
                  = SumFunctionOnSet(before, S) + SumFunctionOnSet(flow, A)
                    + SumFunctionOnSet(back, B) - SumFunctionOnSet(fee, part)
           /\ SumFunctionOnSet(flow, A) \in Int
           /\ SumFunctionOnSet(back, B) \in Int
           /\ SumFunctionOnSet(fee, part) \in Int
<1> USE DEF Settles
<1> DEFINE kept == [x \in A |-> IF x \in part THEN fee[x] ELSE 0]
           none == [x \in B |-> 0]
<1>1. /\ IsFiniteSet(A) /\ IsFiniteSet(B) /\ IsFiniteSet(part)
      /\ IsFiniteSet(A \cup B)
  BY FS_Subset, FS_Union
<1>2. SumFunctionOnSet(before, S)
          = SumFunctionOnSet(after, S) + SumFunctionOnSet(drop, S)
  BY SumAdd
<1>3. SumFunctionOnSet(drop, S)
          = SumFunctionOnSet(drop, A) + SumFunctionOnSet(drop, B)
  <2>1. S \cap (A \cup B) = A \cup B /\ (A \cup B) \ A = B
    OBVIOUS
  <2>2. SumFunctionOnSet(drop, S) = SumFunctionOnSet(drop, S \cap (A \cup B))
    BY SumRestrict
  <2>3. SumFunctionOnSet(drop, A \cup B)
            = SumFunctionOnSet(drop, A) + SumFunctionOnSet(drop, (A \cup B) \ A)
    <3>1. A \in SUBSET (A \cup B) /\ \A x \in A \cup B : drop[x] \in Int
      OBVIOUS
    <3> QED BY <1>1, <3>1, SumSplit
  <2> QED BY <2>1, <2>2, <2>3
<1>4. SumFunctionOnSet(fee, part)
          = SumFunctionOnSet(flow, A) + SumFunctionOnSet(drop, A)
  <2>1. /\ \A x \in A : /\ flow[x] \in Int /\ drop[x] \in Int
                         /\ kept[x] = flow[x] + drop[x] /\ kept[x] \in Int
        /\ \A x \in A \ part : kept[x] = 0
        /\ \A x \in part : fee[x] \in Int /\ kept[x] = fee[x]
    OBVIOUS
  <2>2. A \cap part = part
    OBVIOUS
  <2> HIDE DEF kept
  <2>3. SumFunctionOnSet(kept, A)
            = SumFunctionOnSet(flow, A) + SumFunctionOnSet(drop, A)
    BY <1>1, <2>1, SumAdd
  <2>4. SumFunctionOnSet(kept, A) = SumFunctionOnSet(kept, A \cap part)
    BY <1>1, <2>1, SumRestrict
  <2>5. SumFunctionOnSet(kept, part) = SumFunctionOnSet(fee, part)
    BY <1>1, <2>1, SumEqual
  <2> QED BY <2>2, <2>3, <2>4, <2>5
<1>5. SumFunctionOnSet(back, B) + SumFunctionOnSet(drop, B) = 0
  <2>1. \A x \in B : /\ back[x] \in Int /\ drop[x] \in Int
                     /\ none[x] = back[x] + drop[x] /\ none[x] = 0
    OBVIOUS
  <2> HIDE DEF none
  <2>2. SumFunctionOnSet(none, B)
            = SumFunctionOnSet(back, B) + SumFunctionOnSet(drop, B)
    BY <1>1, <2>1, SumAdd
  <2>3. SumFunctionOnSet(none, B) = 0
    BY <1>1, <2>1, SumZero
  <2> QED BY <2>2, <2>3
<1>6. /\ SumFunctionOnSet(after, S) \in Int
      /\ SumFunctionOnSet(flow, A) \in Int /\ SumFunctionOnSet(drop, A) \in Int
      /\ SumFunctionOnSet(back, B) \in Int /\ SumFunctionOnSet(drop, B) \in Int
      /\ SumFunctionOnSet(fee, part) \in Int
  <2>1. /\ \A x \in S : after[x] \in Int
        /\ \A x \in A : flow[x] \in Int /\ drop[x] \in Int
        /\ \A x \in B : back[x] \in Int /\ drop[x] \in Int
        /\ \A x \in part : fee[x] \in Int
    OBVIOUS
  <2> QED BY <1>1, <2>1, SumType
<1> QED BY <1>2, <1>3, <1>4, <1>5, <1>6

(* What one request is owed.                                               *)
Debt(r, t) == (IF t = TokenIn(r) THEN r.amountIn ELSE 0)
              + (IF t = Weth THEN r.executionFee ELSE 0)

(* An executed request leaves its fee in the router, a cancelled nothing.  *)
LEMMA FlowsSettle ==
    ASSUME NEW r \in Request, Len(r.path) \in {1, 2}, NEW t \in Tokens
    PROVE  /\ \A d \in Deals(r) :
                 /\ d.fee \in Int /\ ExecutionFlow(r, d, t) \in Int
                 /\ ExecutionFlow(r, d, t) + Debt(r, t)
                       = IF Collateral(r) = t THEN d.fee ELSE 0
           /\ RefundFlow(r, t) \in Int /\ RefundFlow(r, t) + Debt(r, t) = 0
           /\ Debt(r, t) \in Int
<1>1. r.amountIn \in Nat /\ r.executionFee \in Nat
  BY DEF Request
<1>2. RefundFlow(r, t) \in Int /\ RefundFlow(r, t) + Debt(r, t) = 0
      /\ Debt(r, t) \in Int
  BY <1>1 DEF RefundFlow, Debt
<1>3. ASSUME NEW d \in Deals(r)
      PROVE  /\ d.fee \in Int /\ ExecutionFlow(r, d, t) \in Int
             /\ ExecutionFlow(r, d, t) + Debt(r, t)
                   = IF Collateral(r) = t THEN d.fee ELSE 0
  <2>1. d.out \in Nat /\ d.fee \in Nat
    BY <1>1 DEF Deals
  <2>2. CASE Swapped(r)
    BY <1>1, <2>1, <2>2 DEF ExecutionFlow, Debt
  <2>3. CASE ~Swapped(r)
    <3>1. TokenIn(r) = Collateral(r)
      BY <2>3 DEF Swapped, TokenIn, Collateral
    <3>2. d.out = r.amountIn
      BY <2>3 DEF Deals
    <3> QED BY <1>1, <2>1, <2>3, <3>1, <3>2 DEF ExecutionFlow, Debt
  <2> QED BY <2>2, <2>3
<1> QED BY <1>2, <1>3

(* Getting older changes nothing else of a request.                        *)
LEMMA AgedRequests ==
    ASSUME IInv, NEW blocks \in Nat, NEW seconds \in Nat, Age(blocks, seconds)
    PROVE  \A kind \in Kind : \A key \in Key :
              /\ Pending(kind, key)' => Pending(kind, key)
              /\ Pending(kind, key) =>
                    /\ requests'[kind][key].path = requests[kind][key].path
                    /\ requests'[kind][key].amountIn
                           = requests[kind][key].amountIn
                    /\ requests'[kind][key].executionFee
                           = requests[kind][key].executionFee
              /\ Pending(kind, key) => Pending(kind, key)'
<1> DEFINE aged(r) == [r EXCEPT !.blocks = Older(@, blocks),
                                !.seconds = Older(@, seconds)]
<1>1. \A r \in Request : /\ aged(r).path = r.path
                         /\ aged(r).amountIn = r.amountIn
                         /\ aged(r).executionFee = r.executionFee
  BY DEF Request
<1>2. requests' = [kind \in Kind |-> [key \in Key |->
          IF Pending(kind, key) THEN aged(requests[kind][key])
          ELSE NoRequest]]
  BY DEF Age
<1> HIDE DEF aged
<1>3. \A kind \in Kind : \A key \in Key : Pending(kind, key) =>
          /\ requests[kind][key] \in Request
          /\ requests'[kind][key] = aged(requests[kind][key])
  BY <1>2 DEF IInv, QueuesOK, Pending
<1>4. \A kind \in Kind : \A key \in Key :
          Pending(kind, key)' <=> Pending(kind, key)
  BY AgePending
<1> QED BY <1>1, <1>3, <1>4

(* The invariant custody needs besides: sums are numbers, and a path is    *)
(* one token or two.                                                       *)
PathsShort ==
    \A kind \in Kind : \A key \in Key :
        Pending(kind, key) => Len(requests[kind][key].path) \in {1, 2}
Ledger == MoneyOK /\ PathsShort /\ Custody

(* Requests that are settled leave the paths of the others alone.          *)
LEMMA PathsStayShort ==
    ASSUME PathsShort,
           \A kind \in Kind : \A key \in Key : Pending(kind, key)' =>
               Pending(kind, key) /\ requests'[kind][key].path
                                        = requests[kind][key].path
    PROVE  PathsShort'
BY DEF PathsShort

(* Settling requests moves exactly what is owed for them, fees aside.      *)
LEMMA ResolveOwes ==
    ASSUME IInv, IInv', Ledger, NEW kind \in Kind, NEW executed \in SUBSET Key,
           NEW cancelled \in SUBSET Key, executed \cap cancelled = {},
           \A key \in executed \cup cancelled : Pending(kind, key),
           NEW deals \in DealsOf(kind, executed),
           Resolve(kind, deals, cancelled)
    PROVE  Ledger'
<1> DEFINE r(key) == requests[kind][key]
           gone == executed \cup cancelled
           part(t) == {key \in executed : Collateral(r(key)) = t}
           drop(t) == [key \in Key |-> IF key \in gone THEN Debt(r(key), t)
                                                       ELSE 0]
           flow(t) == [key \in executed |-> ExecutionFlow(r(key), deals[key], t)]
           back(t) == [key \in cancelled |-> RefundFlow(r(key), t)]
           fee == [key \in executed |-> deals[key].fee]
<1>1. /\ requests' = [requests EXCEPT ![kind] =
             [key \in Key |-> IF key \in gone THEN NoRequest
                              ELSE requests[kind][key]]]
      /\ DOMAIN deals = executed
  BY DealsDomain DEF Resolve, Delete
<1>2. \A key \in gone : r(key) \in Request /\ Len(r(key).path) \in {1, 2}
  BY DEF Ledger, PathsShort, IInv, QueuesOK, Pending
<1>3. \A key \in executed : deals[key] \in Deals(r(key))
  BY DEF DealsOf
<1>4. /\ balance' = [t \in Tokens |-> balance[t] + SumFunction(flow(t))
                                                 + SumFunction(back(t))]
      /\ feeReserves' = [t \in Tokens |-> feeReserves[t]
                             + SumFunctionOnSet(fee, part(t))]
  BY <1>1 DEF Resolve, Pay
<1>5. /\ \A k \in Kind : \A key \in Key :
            requests'[k][key] = IF k = kind /\ key \in gone THEN NoRequest
                                ELSE requests[k][key]
  BY <1>1 DEF IInv, QueuesOK
<1>6. ASSUME NEW t \in Tokens
      PROVE  /\ balance'[t] \in Int /\ feeReserves'[t] \in Int
             /\ balance'[t] = feeReserves'[t] + SumFunction(OwedUnder(t)')
  <2>1. \A k \in Kind : \A key \in Key :
           Owed(k, key, t)' = IF k = kind /\ key \in gone THEN 0
                              ELSE Owed(k, key, t)
    BY <1>5 DEF Owed, Pending
  <2>2. \A key \in gone : Owed(kind, key, t) = Debt(r(key), t)
    BY DEF Owed, Debt
  <2>3. \A key \in Key : /\ drop(t)[key] \in Int
                         /\ OwedUnder(t)'[key] \in Int
                         /\ OwedUnder(t)[key] = OwedUnder(t)'[key] + drop(t)[key]
    <3>1. \A key \in gone : Debt(r(key), t) \in Int
      BY <1>2, FlowsSettle
    <3>2. \A key \in Key : drop(t)[key] = IF key \in gone THEN Debt(r(key), t)
                                                          ELSE 0
      OBVIOUS
    <3>3. \A k \in Kind : \A key \in Key : Owed(k, key, t) \in Int
      BY OwedType DEF IInv
    <3>4. \A key \in Key : OwedUnder(t)[key] = Owed("increase", key, t)
                                                 + Owed("decrease", key, t)
      BY DEF OwedUnder
    <3>5. \A key \in Key : OwedUnder(t)'[key] = Owed("increase", key, t)'
                                                  + Owed("decrease", key, t)'
      BY DEF OwedUnder
    <3>6. kind = "increase" \/ kind = "decrease"
      BY DEF Kind
    <3>7. "increase" \in Kind /\ "decrease" \in Kind
      BY DEF Kind
    <3> HIDE DEF drop, gone, r
    <3> QED BY <2>1, <2>2, <3>1, <3>2, <3>3, <3>4, <3>5, <3>6, <3>7
  <2>4. \A key \in executed : /\ flow(t)[key] \in Int /\ fee[key] \in Int
                              /\ flow(t)[key] + drop(t)[key]
                                   = IF key \in part(t) THEN fee[key] ELSE 0
    <3>1. ASSUME NEW key \in executed
          PROVE  /\ flow(t)[key] = ExecutionFlow(r(key), deals[key], t)
                 /\ fee[key] = deals[key].fee
                 /\ drop(t)[key] = Debt(r(key), t)
                 /\ key \in part(t) <=> Collateral(r(key)) = t
      OBVIOUS
    <3>2. \A key \in executed : r(key) \in Request
              /\ Len(r(key).path) \in {1, 2} /\ deals[key] \in Deals(r(key))
      BY <1>2, <1>3
    <3> HIDE DEF flow, fee, drop, part, r
    <3> QED BY <3>1, <3>2, FlowsSettle
  <2>5. \A key \in cancelled : /\ back(t)[key] \in Int
                               /\ back(t)[key] + drop(t)[key] = 0
    <3>1. ASSUME NEW key \in cancelled
          PROVE  /\ back(t)[key] = RefundFlow(r(key), t)
                 /\ drop(t)[key] = Debt(r(key), t)
      OBVIOUS
    <3>2. \A key \in cancelled : r(key) \in Request
                                 /\ Len(r(key).path) \in {1, 2}
      BY <1>2
    <3> HIDE DEF back, drop, r
    <3> QED BY <3>1, <3>2, FlowsSettle
  <2>6. \A key \in Key \ (executed \cup cancelled) : drop(t)[key] = 0
    OBVIOUS
  <2>7. /\ part(t) \in SUBSET executed /\ DOMAIN flow(t) = executed
        /\ DOMAIN back(t) = cancelled
    OBVIOUS
  <2> HIDE DEF drop, flow, back, fee, part
  <2>8. /\ SumFunctionOnSet(OwedUnder(t)', Key)
               = SumFunctionOnSet(OwedUnder(t), Key)
                 + SumFunctionOnSet(flow(t), executed)
                 + SumFunctionOnSet(back(t), cancelled)
                 - SumFunctionOnSet(fee, part(t))
        /\ SumFunctionOnSet(flow(t), executed) \in Int
        /\ SumFunctionOnSet(back(t), cancelled) \in Int
        /\ SumFunctionOnSet(fee, part(t)) \in Int
    <3>1. Settles(Key, executed, cancelled, part(t), OwedUnder(t),
                  OwedUnder(t)', drop(t), flow(t), back(t), fee)
      BY <2>3, <2>4, <2>5, <2>6, <2>7, KeyFinite DEF Settles
    <3> QED BY <3>1, Settlement
  <2>9. DOMAIN OwedUnder(t) = Key /\ DOMAIN OwedUnder(t)' = Key
    BY DEF OwedUnder
  <2>10. /\ balance[t] = feeReserves[t] + SumFunction(OwedUnder(t))
         /\ balance[t] \in Int /\ feeReserves[t] \in Int
    BY CustodyOf DEF Ledger, MoneyOK
  <2>11. SumFunctionOnSet(OwedUnder(t), Key) \in Int
    BY <2>9, OwedSums DEF SumFunction, IInv
  <2>12. /\ balance'[t] = balance[t] + SumFunctionOnSet(flow(t), executed)
                                     + SumFunctionOnSet(back(t), cancelled)
         /\ feeReserves'[t] = feeReserves[t] + SumFunctionOnSet(fee, part(t))
    BY <1>4, <2>7 DEF SumFunction
  <2>13. balance[t] = feeReserves[t] + SumFunctionOnSet(OwedUnder(t), Key)
    BY <2>9, <2>10 DEF SumFunction
  <2>14. /\ balance'[t] \in Int /\ feeReserves'[t] \in Int
         /\ balance'[t] = feeReserves'[t] + SumFunctionOnSet(OwedUnder(t)', Key)
    BY <2>8, <2>10, <2>11, <2>12, <2>13
  <2> QED BY <2>9, <2>14 DEF SumFunction
<1>7. MoneyOK'
  BY <1>4, <1>6 DEF MoneyOK
<1>8. Custody'
  BY <1>6 DEF Custody, OwedUnder
<1>9. PathsShort'
  BY <1>5, PathsStayShort DEF Ledger, Pending
<1> QED BY <1>7, <1>8, <1>9 DEF Ledger

(* Every call of a keeper or an owner resolves pending requests.           *)
LEMMA HandlingResolves ==
    ASSUME IInv, Handling
    PROVE  \E kind \in Kind, executed \in SUBSET Key, cancelled \in SUBSET Key :
              /\ executed \cap cancelled = {}
              /\ \A key \in executed \cup cancelled : Pending(kind, key)
              /\ \E deals \in DealsOf(kind, executed) :
                    Resolve(kind, deals, cancelled)
<1>1. PICK caller \in Callers, kind \in Kind :
          \/ \E key \in Key : Execute(caller, kind, key)
          \/ \E key \in Key : Cancel(caller, kind, key)
          \/ \E end \in 1..Len(requestKeys[kind]) :
                ExecutePositions(caller, kind, end)
  BY DEF Handling
<1>2. CASE \E key \in Key : Execute(caller, kind, key)
  <2>1. PICK key \in Key : Execute(caller, kind, key)
    BY <1>2
  <2>2. /\ Pending(kind, key)
        /\ \E deals \in DealsOf(kind, {key}) : Resolve(kind, deals, {})
    BY <2>1 DEF Execute
  <2> QED BY <2>2
<1>3. CASE \E key \in Key : Cancel(caller, kind, key)
  <2>1. PICK key \in Key : Cancel(caller, kind, key)
    BY <1>3
  <2>2. Pending(kind, key) /\ Resolve(kind, <<>>, {key})
    BY <2>1 DEF Cancel
  <2>3. <<>> \in DealsOf(kind, {})
    BY DEF DealsOf
  <2> QED BY <2>2, <2>3
<1>4. CASE \E end \in 1..Len(requestKeys[kind]) :
               ExecutePositions(caller, kind, end)
  <2>1. PICK end \in 1..Len(requestKeys[kind]) :
            ExecutePositions(caller, kind, end)
    BY <1>4
  <2>2. end \in Nat
    BY DEF IInv, QueuesOK
  <2> QED BY <2>1, <2>2, BatchResolves
<1> QED BY <1>1, <1>2, <1>3, <1>4

(* What a trader pays in is what the new request is owed.                  *)
LEMMA CreatedLedger ==
    ASSUME IInv, IInv', Ledger, NEW kind \in Kind, NEW account \in Accounts,
           NEW request \in Request, Store(kind, account, request),
           Len(request.path) \in {1, 2},
           balance' = Receive(TokenIn(request), request.amountIn,
                              request.executionFee),
           UNCHANGED feeReserves
    PROVE  Ledger'
<1>1. request.amountIn \in Nat /\ request.executionFee \in Nat
  BY DEF Request
<1>2. ASSUME NEW t \in Tokens
      PROVE  /\ balance'[t] \in Int /\ feeReserves'[t] \in Int
             /\ balance'[t] = feeReserves'[t] + SumFunction(OwedUnder(t)')
  <2>1. balance'[t] = balance[t]
            + (IF t = TokenIn(request) THEN request.amountIn ELSE 0)
            + (IF t = Weth THEN request.executionFee ELSE 0)
    BY DEF Receive
  <2>2. /\ balance[t] = feeReserves[t] + SumFunction(OwedUnder(t))
        /\ balance[t] \in Int /\ feeReserves[t] \in Int
        /\ feeReserves'[t] = feeReserves[t]
    BY CustodyOf DEF Ledger, MoneyOK
  <2>3. SumFunction(OwedUnder(t)) \in Int
    BY OwedSums DEF IInv
  <2>4. SumFunction(OwedUnder(t)') = SumFunction(OwedUnder(t))
            + (IF t = TokenIn(request) THEN request.amountIn ELSE 0)
            + (IF t = Weth THEN request.executionFee ELSE 0)
    BY StoreOwes
  <2> QED BY <1>1, <2>1, <2>2, <2>3, <2>4
<1>3. MoneyOK'
  BY <1>2 DEF MoneyOK, Receive, Ledger
<1>4. Custody'
  BY <1>2 DEF Custody, OwedUnder
<1>5. PathsShort'
  <2>1. PICK key \in Key :
            requests' = [requests EXCEPT ![kind][key] = request]
    <3>1. PICK key \in Key :
              key = <<account, positionsIndex[kind][account] + 1>>
      BY RouterAssumption DEF IInv, QueuesOK, Store, Key
    <3> QED BY <3>1 DEF Store
  <2>2. \A k \in Kind : \A id \in Key :
            requests'[k][id] = IF k = kind /\ id = key THEN request
                               ELSE requests[k][id]
    BY <2>1 DEF IInv, QueuesOK
  <2> QED BY <2>2 DEF PathsShort, Pending, Ledger
<1> QED BY <1>3, <1>4, <1>5 DEF Ledger

(* The three ways to create a request.                                     *)
LEMMA TraderLedger ==
    ASSUME IInv, IInv', Ledger, Trader PROVE Ledger'
<1>1. PICK account \in Accounts, executionFee \in ExecutionFees :
          \/ \E path \in Paths : \E n \in AmountsIn :
                 \/ CreateIncreasePosition(account, path, n, executionFee)
                 \/ CreateIncreasePositionETH(account, path, n, executionFee)
          \/ CreateDecreasePosition(account, executionFee)
  BY DEF Trader
<1>2. /\ executionFee \in Nat /\ Kind = {"increase", "decrease"}
      /\ \A n \in AmountsIn : n \in Nat
      /\ \A path \in Paths : path \in Seq(Tokens) /\ Len(path) \in {1, 2}
  BY RouterAssumption DEF Kind
<1>3. ASSUME NEW path \in Seq(Tokens), NEW n \in Nat, NEW inETH \in BOOLEAN
      PROVE  LET request == NewRequest(path, n, inETH, executionFee)
             IN  /\ request \in Request /\ request.path = path
                 /\ TokenIn(request) = path[1] /\ request.amountIn = n
                 /\ request.executionFee = executionFee
  <2>1. NewRequest(path, n, inETH, executionFee) \in Request
    BY <1>2, NewRequestType
  <2> QED BY <2>1 DEF NewRequest, TokenIn
<1>4. ASSUME NEW path \in Paths, NEW n \in AmountsIn, NEW inETH \in BOOLEAN,
             Store("increase", account,
                   NewRequest(path, n, inETH, executionFee)),
             balance' = Receive(path[1], n, executionFee),
             UNCHANGED feeReserves
      PROVE  Ledger'
  BY <1>2, <1>3, <1>4, CreatedLedger
<1>5. CASE \E path \in Paths : \E n \in AmountsIn :
               CreateIncreasePosition(account, path, n, executionFee)
  <2>1. PICK path \in Paths, n \in AmountsIn :
            CreateIncreasePosition(account, path, n, executionFee)
    BY <1>5
  <2>2. /\ balance' = Receive(path[1], n, executionFee)
        /\ Store("increase", account, NewRequest(path, n, FALSE, executionFee))
        /\ UNCHANGED feeReserves
    BY <2>1 DEF CreateIncreasePosition
  <2> QED BY <1>4, <2>2
<1>6. CASE \E path \in Paths : \E n \in AmountsIn :
               CreateIncreasePositionETH(account, path, n, executionFee)
  <2>1. PICK path \in Paths, n \in AmountsIn :
            CreateIncreasePositionETH(account, path, n, executionFee)
    BY <1>6
  <2>2. /\ balance' = Receive(path[1], n, executionFee)
        /\ Store("increase", account, NewRequest(path, n, TRUE, executionFee))
        /\ UNCHANGED feeReserves
    BY <2>1 DEF CreateIncreasePositionETH
  <2> QED BY <1>4, <2>2
<1>7. CASE CreateDecreasePosition(account, executionFee)
  <2>1. <<Weth>> \in Seq(Tokens) /\ Len(<<Weth>>) = 1 /\ <<Weth>>[1] = Weth
    BY RouterAssumption
  <2>2. /\ balance' = Receive(<<Weth>>[1], 0, executionFee)
        /\ Store("decrease", account,
                 NewRequest(<<Weth>>, 0, FALSE, executionFee))
        /\ UNCHANGED feeReserves
    BY <1>7, <2>1 DEF CreateDecreasePosition
  <2>3. PICK request \in Request :
            /\ request = NewRequest(<<Weth>>, 0, FALSE, executionFee)
            /\ request.path = <<Weth>> /\ TokenIn(request) = <<Weth>>[1]
            /\ request.amountIn = 0 /\ request.executionFee = executionFee
    <3>1. NewRequest(<<Weth>>, 0, FALSE, executionFee) \in Request
      BY <1>2, <2>1, NewRequestType
    <3> QED BY <3>1 DEF NewRequest, TokenIn
  <2>4. /\ Store("decrease", account, request)
        /\ Len(request.path) \in {1, 2}
        /\ balance' = Receive(TokenIn(request), request.amountIn,
                              request.executionFee)
    BY <2>1, <2>2, <2>3
  <2> QED BY <1>2, <2>2, <2>4, CreatedLedger
<1> QED BY <1>1, <1>5, <1>6, <1>7

(* The admin takes the fees, which are owed to nobody; nothing else moves  *)
(* money without settling or creating a request.                           *)
LEMMA OtherLedger ==
    ASSUME IInv, Ledger, Admin \/ Environment \/ UNCHANGED vars PROVE Ledger'
<1>1. ASSUME NEW t \in Tokens, WithdrawFees(t) PROVE Ledger'
  <2>1. requests' = requests
    BY <1>1 DEF WithdrawFees, queueVars
  <2>2. \A u \in Tokens :
            /\ balance[u] \in Int /\ feeReserves[u] \in Int
            /\ balance'[u] = IF u = t THEN balance[u] - feeReserves[u]
                             ELSE balance[u]
            /\ feeReserves'[u] = IF u = t THEN 0 ELSE feeReserves[u]
    BY <1>1 DEF WithdrawFees, Ledger, MoneyOK
  <2>3. MoneyOK'
    BY <1>1, <2>2 DEF WithdrawFees, Ledger, MoneyOK
  <2>4. PathsShort' /\ \A u : OwedUnder(u)' = OwedUnder(u)
    BY <2>1 DEF Ledger, PathsShort, Pending, OwedUnder, Owed
  <2>5. ASSUME NEW u \in Tokens
        PROVE  balance'[u] = feeReserves'[u] + SumFunction(OwedUnder(u))
    <3>1. balance[u] = feeReserves[u] + SumFunction(OwedUnder(u))
      BY CustodyOf DEF Ledger
    <3>2. SumFunction(OwedUnder(u)) \in Int
      <4>1. SumFunctionOnSet(OwedUnder(u), Key) \in Int
        <5>1. QueuesOK /\ "increase" \in Kind /\ "decrease" \in Kind
          BY DEF IInv, Kind
        <5>2. \A key \in Key : /\ Owed("increase", key, u) \in Nat
                               /\ Owed("decrease", key, u) \in Nat
          BY <5>1, OwedType
        <5>3. \A key \in Key : OwedUnder(u)[key] \in Int
          BY <5>2 DEF OwedUnder
        <5> QED BY <5>3, KeyFinite, SumType
      <4>2. DOMAIN OwedUnder(u) = Key
        BY DEF OwedUnder
      <4> QED BY <4>1, <4>2 DEF SumFunction
    <3> QED BY <2>2, <3>1, <3>2
  <2>6. Custody'
    <3>1. \A u \in Tokens : balance'[u] = feeReserves'[u]
                               + SumFunction(OwedUnder(u)')
      BY <2>4, <2>5
    <3> QED BY <3>1 DEF Custody, OwedUnder
  <2> QED BY <2>3, <2>4, <2>6 DEF Ledger
<1>2. ASSUME NEW blocks \in Nat, NEW seconds \in Nat, Age(blocks, seconds)
      PROVE  Ledger'
  <2>1. \A kind \in Kind : \A key \in Key :
            /\ Pending(kind, key)' => Pending(kind, key)
            /\ Pending(kind, key) =>
                  /\ requests'[kind][key].path = requests[kind][key].path
                  /\ requests'[kind][key].amountIn
                         = requests[kind][key].amountIn
                  /\ requests'[kind][key].executionFee
                         = requests[kind][key].executionFee
            /\ Pending(kind, key) => Pending(kind, key)'
    BY <1>2, AgedRequests
  <2>2. PathsShort'
    BY <2>1, PathsStayShort DEF Ledger
  <2>3. \A t : \A kind \in Kind : \A key \in Key :
            Owed(kind, key, t)' = Owed(kind, key, t)
    BY <2>1 DEF Owed, TokenIn, Pending
  <2>4. \A t : OwedUnder(t)' = OwedUnder(t)
    BY <2>3 DEF OwedUnder, Kind
  <2>5. UNCHANGED moneyVars
    BY <1>2 DEF Age
  <2> QED BY <2>2, <2>4, <2>5
      DEF Ledger, MoneyOK, Custody, OwedUnder, moneyVars
<1>3. CASE UNCHANGED <<requests, moneyVars>>
  BY <1>3 DEF Ledger, MoneyOK, PathsShort, Pending, Custody, Owed, moneyVars
<1>4. CASE Admin
  BY <1>1, <1>3, <1>4 DEF Admin, SetDelayValues, SetPositionKeepers,
     SetIsLeverageEnabled, SetRequestKeysStartValues, queueVars
<1>5. CASE Environment
  BY <1>2, <1>3, <1>5 DEF Environment, NextBlock, Elapse, SetFrozen, queueVars
<1>6. CASE UNCHANGED vars
  BY <1>3, <1>6 DEF vars, queueVars
<1> QED BY <1>4, <1>5, <1>6

(* At first the router holds nothing.                                      *)
LEMMA InitLedger == Init => Ledger
<1> SUFFICES ASSUME Init PROVE Ledger
  OBVIOUS
<1>1. MoneyOK /\ PathsShort
  BY DEF Init, MoneyOK, PathsShort, Pending
<1>2. ASSUME NEW t \in Tokens PROVE SumFunction(OwedUnder(t)) = 0
  <2>1. DOMAIN OwedUnder(t) = Key /\ \A key \in Key : OwedUnder(t)[key] = 0
    BY DEF Init, OwedUnder, Owed, Pending, Kind
  <2>2. SumFunctionOnSet(OwedUnder(t), Key) = 0
    BY <2>1, KeyFinite, SumZero
  <2> QED BY <2>1, <2>2 DEF SumFunction
<1>3. Custody
  BY <1>2, CustodyOf DEF Init
<1> QED BY <1>1, <1>3 DEF Ledger

(* Every step keeps the ledger.                                            *)
LEMMA StepLedger == IInv /\ IInv' /\ Ledger /\ [Next]_vars => Ledger'
<1> SUFFICES ASSUME IInv, IInv', Ledger, [Next]_vars PROVE Ledger'
  OBVIOUS
<1>1. CASE Trader
  BY <1>1, TraderLedger
<1>2. CASE Handling
  BY <1>2, HandlingResolves, ResolveOwes
<1>3. CASE Admin \/ Environment \/ UNCHANGED vars
  BY <1>3, OtherLedger
<1> QED BY <1>1, <1>2, <1>3 DEF Next

(* The router holds exactly the fees it has collected and what the pending *)
(* requests are owed, whatever mix of direct calls, batches, swaps, failed *)
(* refunds and withdrawals led there.                                      *)
THEOREM RouterHoldsWhatItOwes == Spec => []Custody
<1>1. Init => IInv /\ Ledger
  BY InitIInv, InitLedger
<1>2. IInv /\ Ledger /\ [Next]_vars => (IInv /\ Ledger)'
  BY StepIInv, StepLedger
<1>3. Ledger => Custody
  BY DEF Ledger
<1> QED BY <1>1, <1>2, <1>3, PTL DEF Spec

-----------------------------------------------------------------------------
(* The refinement. The phase of a request, read off its mapping entry and  *)
(* the index its account has reached.                                      *)
LEMMA PhaseOf ==
    \A kind \in Kind, a \in Accounts, n \in 1..MaxRequests :
        /\ <<kind, a, n>> \in Lifecycle!Id
        /\ RequestPhase[<<kind, a, n>>] = Phase(kind, <<a, n>>)
BY DEF RequestPhase, Lifecycle!Id

(* At the start every request is unused.                                   *)
LEMMA InitPhases == Init => Lifecycle!Init
<1> SUFFICES ASSUME Init PROVE Lifecycle!Init
  OBVIOUS
<1>1. \A kind \in Kind, a \in Accounts, n \in 1..MaxRequests :
          Phase(kind, <<a, n>>) = "unused"
  BY RouterAssumption DEF Init, Phase, Pending, Key
<1> QED BY <1>1 DEF RequestPhase, Lifecycle!Init, Lifecycle!Id

(* Filing a request creates the next one of its account.                   *)
LEMMA StoreCreates ==
    ASSUME IInv, NEW kind \in Kind, NEW account \in Accounts,
           NEW request \in Request, Store(kind, account, request)
    PROVE  Lifecycle!Create(<<kind, account, positionsIndex[kind][account] + 1>>)
           /\ <<kind, account, positionsIndex[kind][account] + 1>> \in Lifecycle!Id
<1> DEFINE next == positionsIndex[kind][account] + 1
           key == <<account, next>>
           id == <<kind, account, next>>
<1>1. /\ next \in 1..MaxRequests /\ key \in Key /\ next \in Nat
      /\ positionsIndex[kind][account] = next - 1
  BY RouterAssumption DEF IInv, QueuesOK, Store, Key
<1>2. /\ requests' = [requests EXCEPT ![kind][key] = request]
      /\ positionsIndex' = [positionsIndex EXCEPT ![kind][account] = next]
  BY DEF Store
<1> HIDE DEF next, key
<1>3. key[1] = account /\ key[2] = next
  BY DEF key
<1>4. ~Pending(kind, key)
  BY <1>1, <1>3 DEF IInv, Filed
<1>5. Phase(kind, key) = "unused"
  BY <1>1, <1>3, <1>4 DEF Phase
<1>6. \A n \in 1..MaxRequests : n < next => Phase(kind, <<account, n>>) # "unused"
  BY <1>1 DEF Phase
<1>7. \A k \in Kind, a \in Accounts, n \in 1..MaxRequests :
          Phase(k, <<a, n>>)' = IF k = kind /\ a = account /\ n = next
                                THEN "pending" ELSE Phase(k, <<a, n>>)
  <2> SUFFICES ASSUME NEW k \in Kind, NEW a \in Accounts,
                      NEW n \in 1..MaxRequests
               PROVE  Phase(k, <<a, n>>)' =
                          IF k = kind /\ a = account /\ n = next
                          THEN "pending" ELSE Phase(k, <<a, n>>)
    OBVIOUS
  <2>1. <<a, n>> \in Key /\ n \in Nat
    BY RouterAssumption DEF Key
  <2>2. CASE k = kind /\ a = account /\ n = next
    <3>1. Pending(k, <<a, n>>)'
      BY <2>2, <1>1, <1>2, RouterAssumption DEF key, Pending, IInv, QueuesOK
    <3> QED BY <3>1, <2>2 DEF Phase
  <2>3. CASE ~(k = kind /\ a = account /\ n = next)
    <3>1. Pending(k, <<a, n>>)' <=> Pending(k, <<a, n>>)
      BY <2>1, <2>3, <1>1, <1>2 DEF key, Pending, IInv, QueuesOK
    <3>2. n <= positionsIndex'[k][a] <=> n <= positionsIndex[k][a]
      BY <2>1, <2>3, <1>1, <1>2 DEF IInv, QueuesOK
    <3> QED BY <3>1, <3>2, <2>3 DEF Phase
  <2> QED BY <2>2, <2>3
<1>8. id \in Lifecycle!Id /\ RequestPhase[id] = "unused"
  BY <1>1, <1>5, PhaseOf DEF key
<1>9. \A earlier \in Lifecycle!Id :
          earlier[1] = id[1] /\ earlier[2] = id[2] /\ earlier[3] < id[3]
             => RequestPhase[earlier] # "unused"
  <2> SUFFICES ASSUME NEW earlier \in Lifecycle!Id, earlier[1] = id[1],
                      earlier[2] = id[2], earlier[3] < id[3]
               PROVE  RequestPhase[earlier] # "unused"
    OBVIOUS
  <2>1. /\ earlier = <<kind, account, earlier[3]>> /\ earlier[3] < next
        /\ earlier[3] \in 1..MaxRequests
    BY DEF Lifecycle!Id
  <2>2. Phase(kind, <<account, earlier[3]>>) # "unused"
    BY <2>1, <1>6
  <2> QED BY <2>1, <2>2, PhaseOf
<1>10. RequestPhase' = [RequestPhase EXCEPT ![id] = "pending"]
  <2>1. RequestPhase' = [x \in Lifecycle!Id |->
            IF x = id THEN "pending" ELSE RequestPhase[x]]
    <3>1. \A x \in Lifecycle!Id :
              Phase(x[1], <<x[2], x[3]>>)' =
                  IF x = id THEN "pending" ELSE Phase(x[1], <<x[2], x[3]>>)
      BY <1>7 DEF Lifecycle!Id
    <3> QED BY <3>1 DEF RequestPhase, Lifecycle!Id
  <2> QED BY <2>1 DEF RequestPhase, Lifecycle!Id
<1> QED BY <1>8, <1>9, <1>10 DEF Lifecycle!Create, next

(* Deleting pending requests settles each of them.                         *)
LEMMA SettlingSettles ==
    ASSUME IInv, NEW kind \in Kind, NEW keys \in SUBSET Key,
           Settling(kind, keys)
    PROVE  \E ids \in SUBSET Lifecycle!Id : Lifecycle!Settle(ids)
<1> DEFINE ids == {id \in Lifecycle!Id : id[1] = kind /\ <<id[2], id[3]>> \in keys}
<1>1. \A k \in Kind, a \in Accounts, n \in 1..MaxRequests :
          Phase(k, <<a, n>>)' = IF k = kind /\ <<a, n>> \in keys
                                THEN "settled" ELSE Phase(k, <<a, n>>)
  <2> SUFFICES ASSUME NEW k \in Kind, NEW a \in Accounts,
                      NEW n \in 1..MaxRequests
               PROVE  Phase(k, <<a, n>>)' = IF k = kind /\ <<a, n>> \in keys
                                THEN "settled" ELSE Phase(k, <<a, n>>)
    OBVIOUS
  <2>1. <<a, n>> \in Key
    BY RouterAssumption DEF Key
  <2>2. Pending(k, <<a, n>>)'
            <=> Pending(k, <<a, n>>) /\ ~(k = kind /\ <<a, n>> \in keys)
    BY <2>1, SettlingFiled
  <2>3. k = kind /\ <<a, n>> \in keys => n <= positionsIndex[k][a]
    BY <2>1 DEF Settling, IInv, Filed
  <2>4. positionsIndex' = positionsIndex
    BY DEF Settling
  <2> QED BY <2>2, <2>3, <2>4 DEF Phase
<1>2. \A id \in ids : RequestPhase[id] = "pending"
  BY PhaseOf DEF Lifecycle!Id, Settling, Phase
<1>3. RequestPhase' = [id \in Lifecycle!Id |-> IF id \in ids THEN "settled"
                                               ELSE RequestPhase[id]]
  BY <1>1 DEF RequestPhase, Lifecycle!Id
<1> QED BY <1>2, <1>3 DEF Lifecycle!Settle

(* Every step of the router is a step of the life cycle or leaves every    *)
(* request in its phase.                                                   *)
LEMMA StepPhases ==
    IInv /\ [Next]_vars => [Lifecycle!Next]_RequestPhase
<1> SUFFICES ASSUME IInv, [Next]_vars
             PROVE  Lifecycle!Next \/ RequestPhase' = RequestPhase
  OBVIOUS
<1>1. CASE \E kind \in Kind, account \in Accounts, request \in Request :
              /\ Store(kind, account, request)
              /\ UNCHANGED <<adminVars, frozen>>
  BY <1>1, StoreCreates DEF Lifecycle!Next
<1>2. CASE \E kind \in Kind, keys \in SUBSET Key :
              Settling(kind, keys) /\ UNCHANGED <<requestKeys, keysStart>>
  BY <1>2, SettlingSettles DEF Lifecycle!Next
<1>3. CASE \E kind \in Kind, caller \in Callers, end \in Nat :
              ExecutePositions(caller, kind, end)
  <2>1. PICK kind \in Kind, keys \in SUBSET Key : Settling(kind, keys)
    BY <1>3, BatchSettles
  <2> QED BY <2>1, SettlingSettles DEF Lifecycle!Next
<1>4. CASE \E blocks, seconds \in Nat : Age(blocks, seconds)
  <2>1. PICK blocks \in Nat, seconds \in Nat : Age(blocks, seconds)
    BY <1>4
  <2>2. /\ \A k \in Kind : \A key \in Key : Pending(k, key)' <=> Pending(k, key)
        /\ positionsIndex' = positionsIndex
    BY <2>1, AgePending DEF Age
  <2>3. \A k \in Kind, a \in Accounts, n \in 1..MaxRequests :
            Phase(k, <<a, n>>)' = Phase(k, <<a, n>>)
    BY <2>2 DEF Phase, Key
  <2> QED BY <2>3 DEF RequestPhase
<1>5. CASE \/ Admin \/ (\E accounts \in SUBSET Freezable : SetFrozen(accounts))
           \/ UNCHANGED vars
  <2>1. UNCHANGED <<requests, positionsIndex>>
    BY <1>5, AdminIInv
  <2> QED BY <2>1 DEF RequestPhase, Phase, Pending
<1> QED BY <1>1, <1>2, <1>3, <1>4, <1>5, StepKinds

(* The queues implement the life cycle: indices are used once and in       *)
(* order, and no request is executed or cancelled twice.                   *)
THEOREM ImplementsLifecycle == Spec => LifecycleSpec
<1>1. Init => Lifecycle!Init
  BY InitPhases
<1>2. IInv /\ [Next]_vars => [Lifecycle!Next]_RequestPhase
  BY StepPhases
<1> QED BY <1>1, <1>2, QueueInvariance, PTL DEF Spec, LifecycleSpec, Lifecycle!Spec
=============================================================================
