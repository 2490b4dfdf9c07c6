------------------------------- MODULE BatchTasks -------------------------------
(***************************************************************************)
(* The scripts that work through a list of accounts, a batch to a          *)
(* transaction: restaking and updating multiplier points, compounding,     *)
(* staking, sending escrowed GMX, minting snapshot tokens, setting bonus   *)
(* rewards and referral tiers. A transaction                               *)
(* may fail, or be mined although its sender is told it failed; some       *)
(* scripts try again, all of them stop in the end. When they are run again *)
(* those with a START_INDEX go on from the batch that failed; the others   *)
(* start from the first entry and repeat what was mined and confirmed.     *)
(***************************************************************************)
EXTENDS Integers, Sequences, FiniteSetsExt, SequencesExt

CONSTANTS
    Inputs,         \* the files: sequences of entries, see Entry
    BatchSize,           \* accounts in a batch
    EsGmxApproval,       \* what batchSendEsGmx approves, whatever its list
    Remap,          \* account0 to account1 of bonusReferralRewards
    MaxFailures     \* bound on transactions that fail or seem to

(* An account, an amount or a balance, and a kind: whether the entry is    *)
(* left out, or which vester it is for.                                    *)
Entry(account, amount, kind) == [account |-> account, amount |-> amount, kind |-> kind]

-----------------------------------------------------------------------------
(* The lists, from the files.                                              *)

Total(list) == FoldSeq(LAMBDA e, sum : e.amount + sum, 0, list)
Wanted(list) == SelectSeq(list, LAMBDA e : e.kind # "skip")
Of(list, kind) == SelectSeq(list, LAMBDA e : e.kind = kind)
Scaled(list, Amount(_)) == [i \in DOMAIN list |-> [list[i] EXCEPT !.amount = Amount(@)]]

(* Escrowed GMX is shared among the holders of an NFT, to four decimals.   *)
TotalEsGmx == 4000
Decimals == 10000
NftAmount(balance, total) ==
    (2 * (TotalEsGmx - 1) * Decimals * balance + total) \div (2 * total)
NftHolders(list) == SelectSeq(Wanted(list), LAMBDA e : e.amount > 1)
NftList(list) ==
    LET holders == NftHolders(list) IN
    Scaled(holders, LAMBDA b : NftAmount(b, Total(holders)))

TotalGmx == 766
TotalUsd == 44821
AffiliateList(list) == Scaled(Wanted(list), LAMBDA usd : (usd * TotalGmx) \div TotalUsd)

(* One entry for all that was distributed to a receiver.                   *)
Distributed(list) ==
    LET accounts == {list[i].account : i \in DOMAIN list}
        sum(a) == Total(SelectSeq(list, LAMBDA e : e.account = a))
        receiver(a) == IF a \in DOMAIN Remap THEN Remap[a] ELSE a IN
    SetToSeq({Entry(receiver(a), sum(a), "set") : a \in {b \in accounts : sum(b) # 0}})

-----------------------------------------------------------------------------
(* A script: its list and batches, how often it tries a transaction, what  *)
(* it approves its BatchSender for before the first one, whether it needs, *)
(* knows or lacks a START_INDEX, and whether it refuses a batch that was   *)
(* mined before.                                                           *)

NoApproval == -1
Slice(list, i) == SubSeq(list, (i - 1) * BatchSize + 1, Min({i * BatchSize, Len(list)}))
(* Mutant: what is left after the last full batch is not sent.             *)
FullBatches(list) == [i \in 1 .. Len(list) \div BatchSize |-> Slice(list, i)]
Batches(list) == [i \in 1 .. (Len(list) + BatchSize - 1) \div BatchSize |-> Slice(list, i)]

Script(list, tries, approval) ==
    [list |-> list, batches |-> Batches(list), tries |-> tries, approval |-> approval,
     index |-> "none", once |-> FALSE]

MigrateStaking(list) == [Script(list, 5, NoApproval) EXCEPT !.index = "required"]
UpdateMps(list) == [Script(list, 5, NoApproval) EXCEPT !.index = "required"]
BatchCompoundGmx(list) ==
    [Script(Wanted(list), 1, NoApproval) EXCEPT !.index = "optional"]
BatchStakeGmx(list) == Script(list, 1, NoApproval)
MintSnapshotToken(list) == Script(Wanted(list), 1, NoApproval)
BatchSetBonusRewards(list) == Script(list, 1, NoApproval)
SetBonusReferralRewards(list) == Script(Distributed(list), 1, NoApproval)
BatchSendEsGmx(list) == Script(list, 1, EsGmxApproval)
BatchSendBonusReferralRewards(list) ==
    Script(AffiliateList(list), 1, Total(AffiliateList(list)))
DistributeNftRewards(list) == Script(NftList(list), 1, TotalEsGmx * Decimals)
(* One transaction to a vester.                                            *)
BatchSendEsGmxBonds(list) ==
    LET gmx == Of(list, "gmxVester")
        glp == Of(list, "glpVester") IN
    [Script(gmx \o glp, 1, NoApproval) EXCEPT
        !.batches = SelectSeq(<<gmx, glp>>, LAMBDA batch : batch # <<>>)]

(* A transaction to an entry, on both networks. setReferralTier throws     *)
(* when an account already has a tier.                                     *)
OneByOne(list) ==
    [Script(list, 1, NoApproval) EXCEPT !.batches = [i \in DOMAIN list |-> <<list[i]>>]]
On(list, network) == [i \in DOMAIN list |-> Entry(list[i].account, list[i].amount, network)]
TransferBonusRewards(list) == OneByOne(On(list, "arbitrum") \o On(list, "avalanche"))
SetReferralTier(list) ==
    LET both(e) == <<Entry(e.account, 0, "arbitrum"), Entry(e.account, 0, "avalanche")>> IN
    [OneByOne(FlattenSeq([i \in DOMAIN list |-> both(list[i])])) EXCEPT !.once = TRUE]

Programs(list) ==
    {MigrateStaking(list), UpdateMps(list), BatchCompoundGmx(list), BatchStakeGmx(list),
     BatchSetBonusRewards(list), SetBonusReferralRewards(list), BatchSendEsGmx(list),
     BatchSendBonusReferralRewards(list), DistributeNftRewards(list),
     BatchSendEsGmxBonds(list), MintSnapshotToken(list), TransferBonusRewards(list),
     SetReferralTier(list)}

-----------------------------------------------------------------------------
VARIABLES
    input, program,         \* what runs: a file, and a script for it
    pc, next, tried,        \* its next batch, and the attempts at it
    allowance,              \* of the BatchSender
    handled,                \* how often each entry was in what was mined
    failures, lost,         \* history: failures, and lost answers among them
    restarts                \* history: runs that started over
vars == <<input, program, pc, next, tried, allowance, handled, failures, lost, restarts>>

Init ==
    /\ input \in Inputs /\ program \in Programs(input)
    /\ pc = "stopped" /\ next = 1 /\ tried = 0 /\ allowance = 0
    /\ handled = [e \in ToSet(program.list) |-> 0]
    /\ failures = 0 /\ lost = 0 /\ restarts = 0

(* With a START_INDEX a run goes on with the batch that stopped the one    *)
(* before; without one it starts over.                                     *)
GoOn == program.index # "none" /\ UNCHANGED <<next, restarts>>
StartOver ==
    /\ program.index # "required" /\ next' = 1
    /\ restarts' = IF \E e \in DOMAIN handled : handled[e] > 0
                   THEN restarts + 1 ELSE restarts
Run ==
    /\ pc = "stopped" /\ pc' = "approving"
    /\ GoOn \/ StartOver
    /\ UNCHANGED <<input, program, tried, allowance, handled, failures, lost>>

Fail == failures < MaxFailures /\ failures' = failures + 1

(* approve, and whether or not it went through the script may stop.        *)
Approve ==
    /\ pc = "approving"
    /\ \/ pc' = "sending" /\ UNCHANGED failures
          /\ allowance' = Max({program.approval, 0})
       \/ pc' = "stopped" /\ Fail /\ program.approval # NoApproval
          /\ allowance' \in {allowance, program.approval}
    /\ UNCHANGED <<input, program, next, tried, handled, lost, restarts>>

Finished == next > Len(program.batches)
Finish ==
    /\ pc = "sending" /\ Finished /\ pc' = "done"
    /\ UNCHANGED <<input, program, next, tried, allowance, handled, failures, lost,
                   restarts>>

(* The transaction of the next batch, mined or not, and what the script    *)
(* makes of the answer.                                                    *)
Cost == Total(program.batches[next])
Enough == program.approval # NoApproval => Cost <= allowance
Mined ==
    /\ handled' = [e \in DOMAIN handled |->
                     handled[e] + (IF e \in ToSet(program.batches[next]) THEN 1 ELSE 0)]
    /\ allowance' = IF program.approval # NoApproval THEN allowance - Cost ELSE allowance
Retry ==
    /\ UNCHANGED next
    /\ IF tried + 1 = program.tries THEN tried' = 0 /\ pc' = "stopped"
       ELSE tried' = tried + 1 /\ UNCHANGED pc
Refused == program.once /\ \E e \in ToSet(program.batches[next]) : handled[e] > 0
Send ==
    /\ pc = "sending" /\ ~Finished /\ ~Refused
    /\ \/ /\ Enough /\ Mined
          /\ next' = next + 1 /\ tried' = 0 /\ UNCHANGED <<pc, failures, lost>>
       \/ Enough /\ Mined /\ Fail /\ lost' = lost + 1 /\ Retry
       \/ Fail /\ Retry /\ UNCHANGED <<handled, allowance, lost>>
    /\ UNCHANGED <<input, program, restarts>>

(* setReferralTier throws, and will throw here whenever it is run again.   *)
Refuse ==
    /\ pc = "sending" /\ ~Finished /\ Refused
    /\ pc' = "stopped" /\ Fail
    /\ UNCHANGED <<input, program, next, tried, allowance, handled, lost, restarts>>

Next == Run \/ Approve \/ Finish \/ Send \/ Refuse
Spec == Init /\ [][Next]_vars

-----------------------------------------------------------------------------
(* When a script is through, every entry it was not to leave out has been  *)
(* in a transaction that was mined. None is in more than one of a run,     *)
(* unless a script that goes on by itself or by START_INDEX sends it again *)
(* for want of an answer; so it is paid, minted or set once more for every *)
(* run that starts over and for every lost answer, no more often, and only *)
(* once where the script looks before it sends. And no transaction of any  *)
(* run fails for lack of approval, but in batchSendEsGmx with a list that  *)
(* adds up to more than its fixed amount.                                  *)
Repeats ==
    IF program.once THEN 0
    ELSE restarts + IF program.index = "none" THEN 0 ELSE lost
ListTooLong == program = BatchSendEsGmx(input) /\ Total(input) > EsGmxApproval
WorkedThrough ==
    /\ \A e \in DOMAIN handled : handled[e] <= 1 + Repeats
    /\ pc = "done" => \A e \in DOMAIN handled : handled[e] > 0
    /\ pc = "sending" /\ ~Finished /\ ~ListTooLong => Enough
=============================================================================
