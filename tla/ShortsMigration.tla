---------------------------- MODULE ShortsMigration ----------------------------
(***************************************************************************)
(* scripts/migrateToShortsTracker.js: the program that gives ShortsTracker *)
(* its first data. It asks a server to stop executing orders and           *)
(* liquidations, waits until its jobs are idle, compares the short sizes   *)
(* the server knows with those of the Vault, sends the server's data to    *)
(* the tracker and switches the jobs on again; if anything throws it rolls *)
(* back. Requests may be refused, their answers may be lost and what was   *)
(* sent may take effect after the program has given up on it.              *)
(*                                                                         *)
(* The short size of the Vault is the number of trades mined so far; the   *)
(* server knows it up to a block and may be behind with the events of that *)
(* block. Data sent to the tracker stand for averages at that size.        *)
(***************************************************************************)
EXTENDS Integers, Sequences, FiniteSets

CONSTANTS
    MaxLag,                 \* blocks a server may be behind
    Tries,                  \* attempts to wait for jobs, and for data
    Difference,             \* allowedSizeDifference
    MaxTrades, MaxRuns, MaxFaults   \* bounds only model checking needs

Jobs == {"orders", "liquidations"}
(* A copy of the data: its size, whether it was the last there would be as *)
(* it was read, and the run that read it.                                  *)
NoCopy == [size |-> -1, exact |-> FALSE, run |-> 0]

VARIABLES
    disabled, busy,         \* the server: switches and jobs
    posts,                  \* requests on their way to it
    seen, data,             \* its block, and the size it has computed
    unmined, chain,         \* trades sent; the short size at each block
    ready, tracked,         \* isGlobalShortDataReady, and the data it has
    txs,                    \* copies on their way to it, in nonce order
    pc, tries, copy,        \* the process; copy is serverData
    runs, faults,           \* history: runs begun, and failures
    strays                  \* history: what was given up took effect

serverVars == <<disabled, busy, posts, seen, data>>
chainVars == <<unmined, chain, ready, tracked, txs>>
processVars == <<pc, tries, copy>>
vars == <<serverVars, chainVars, processVars, runs, faults, strays>>

Ended == {"idle", "done", "switched", "rolledBack", "failed"}
Block == Len(chain)
Size == chain[Block]

Init ==
    /\ disabled = [j \in Jobs |-> FALSE] /\ busy = [j \in Jobs |-> FALSE]
    /\ posts = {} /\ seen = 1 /\ data = 0
    /\ unmined = 0 /\ chain = <<0>>
    /\ ready = FALSE /\ tracked = NoCopy /\ txs = <<>>
    /\ pc = "idle" /\ tries = 0 /\ copy = NoCopy
    /\ runs = 0 /\ faults = 0 /\ strays = FALSE

-----------------------------------------------------------------------------
(* toggleOrdersExecution and toggleLiquidations.                           *)
Toggle(j, off) == [job |-> j, off |-> off, awaited |-> TRUE]
Toggles(off) == {Toggle(j, off) : j \in Jobs}
Answered == \A p \in posts : ~p.awaited
(* Promise.all gives up on the other requests, which are still sent.       *)
Abandoned(ps) == {[p EXCEPT !.awaited = FALSE] : p \in ps}

Goto(label) == pc' = label /\ tries' = 0 /\ UNCHANGED copy

(* Mutant: a failed migration only switches orders on.                     *)
RollbackOrders(ps) ==
    /\ posts' = ps \cup {Toggle("orders", FALSE)}
    /\ Goto("rollbackTracker")
Rollback(ps) ==
    /\ posts' = ps \cup {Toggle("orders", FALSE)}
    /\ Goto("rollbackOrders")

(* An exception. The one of a migration is caught, that of its rollback is *)
(* only printed.                                                           *)
Migrating == {"disabling", "waitJobs", "sleeping", "waitData", "sending",
              "mining", "enabling"}
Throw(ps) ==
    IF pc \in Migrating THEN Rollback(Abandoned(ps))
    ELSE posts' = Abandoned(ps) /\ Goto("failed")

(* validateServerIsUpToDate, then both jobs are switched off.              *)
Migrate ==
    IF Block - seen > MaxLag THEN Rollback(posts)
    ELSE posts' = posts \cup Toggles(TRUE) /\ Goto("disabling")
Switch(off) == posts' = posts \cup Toggles(off) /\ Goto("switching")

Run ==
    /\ pc \in Ended /\ runs < MaxRuns
    /\ runs' = runs + 1
    /\ \/ Migrate
       \/ Rollback(posts)
       \/ \E off \in BOOLEAN : Switch(off)
    /\ UNCHANGED <<disabled, busy, seen, data, chainVars, faults, strays>>

(* Mutant: only the status of orders is asked for.                         *)
OrdersIdle == ~busy["orders"]
AllIdle == \A j \in Jobs : ~busy[j]
(* Mutant: it waits as long as it takes.                                   *)
LastTryNever(enough) == FALSE
LastTry(enough) == ~enough /\ tries + 1 = Tries

WaitJobs ==
    /\ pc = "waitJobs"
    /\ \/ AllIdle /\ Goto("sleeping") /\ UNCHANGED posts
       \/ LastTry(AllIdle) /\ Throw(posts)
       \/ /\ ~AllIdle /\ ~LastTry(AllIdle)
          /\ tries' = (tries + 1) % Tries /\ UNCHANGED <<pc, copy, posts>>

(* waitForUpToDateData: server and Vault at the block of the server.       *)
Abs(i) == IF i < 0 THEN -i ELSE i
UpToDate == Abs(chain[seen] - data) <= Difference
WaitData ==
    /\ pc = "waitData"
    /\ \/ /\ UpToDate
          /\ pc' = "sending" /\ tries' = 0
          /\ copy' = [size |-> data,
                      exact |-> seen = Block /\ unmined = 0 /\ posts = {},
                      run |-> runs]
          /\ UNCHANGED posts
       \/ LastTry(UpToDate) /\ Throw(posts)
       \/ /\ ~UpToDate /\ ~LastTry(UpToDate)
          /\ tries' = (tries + 1) % Tries
          /\ UNCHANGED <<pc, copy, posts>>

(* initShortsTrackerData: a call that would revert is not even sent.       *)
SendInit ==
    /\ pc = "sending"
    /\ IF ready THEN Throw(posts) /\ UNCHANGED txs
       ELSE txs' = Append(txs, copy) /\ Goto("mining") /\ UNCHANGED posts

(* rollback: nothing is sent when the tracker is not ready.                *)
RollbackTracker ==
    /\ pc = "rollbackTracker" /\ Answered
    /\ txs' = IF ready THEN Append(txs, NoCopy) ELSE txs
    /\ Goto("rolledBack") /\ UNCHANGED posts

(* What follows an awaited request or transaction.                         *)
Continue ==
    \/ pc = "disabling" /\ Answered /\ Goto("waitJobs") /\ UNCHANGED posts
    \/ pc = "sleeping" /\ Goto("waitData") /\ UNCHANGED posts
    \/ /\ pc = "mining" /\ txs = <<>>
       /\ posts' = posts \cup Toggles(FALSE) /\ Goto("enabling")
    \/ pc = "enabling" /\ Answered /\ Goto("done") /\ UNCHANGED posts
    \/ pc = "switching" /\ Answered /\ Goto("switched") /\ UNCHANGED posts
    \/ /\ pc = "rollbackOrders" /\ Answered
       /\ posts' = posts \cup {Toggle("liquidations", FALSE)}
       /\ Goto("rollbackLiquidations")
    \/ /\ pc = "rollbackLiquidations" /\ Answered
       /\ Goto("rollbackTracker") /\ UNCHANGED posts

Process ==
    /\ \/ WaitData /\ UNCHANGED <<unmined, chain, ready, tracked, txs>>
       \/ /\ SendInit \/ RollbackTracker
          /\ UNCHANGED <<unmined, chain, ready, tracked>>
       \/ WaitJobs /\ UNCHANGED chainVars
       \/ Continue /\ UNCHANGED chainVars
    /\ UNCHANGED <<disabled, busy, seen, data, runs, faults, strays>>

-----------------------------------------------------------------------------
(* The server and the networks.                                            *)

Serve(p) ==
    /\ disabled' = [disabled EXCEPT ![p.job] = p.off]
    /\ posts' = posts \ {p}
    /\ strays' = (strays \/ ~p.awaited)
    /\ UNCHANGED <<busy, seen, data, chainVars, processVars, runs, faults>>
(* A request is refused, or its answer is lost and it may arrive later.    *)
Refuse(p) ==
    /\ faults < MaxFaults /\ faults' = faults + 1
    /\ \/ p.awaited /\ Throw(posts \ {p})
       \/ p.awaited /\ Throw(posts)
       \/ ~p.awaited /\ posts' = posts \ {p} /\ UNCHANGED processVars
    /\ UNCHANGED <<disabled, busy, seen, data, chainVars, runs, strays>>
(* Reading fails, a signature is denied or a receipt does not come.        *)
Fault ==
    /\ pc \in Migrating /\ Answered
    /\ faults < MaxFaults /\ faults' = faults + 1
    /\ Throw(posts)
    /\ UNCHANGED <<disabled, busy, seen, data, chainVars, runs, strays>>
Kill ==
    /\ pc \notin Ended
    /\ faults < MaxFaults /\ faults' = faults + 1
    /\ posts' = Abandoned(posts) /\ Goto("failed")
    /\ UNCHANGED <<disabled, busy, seen, data, chainVars, runs, strays>>

(* A job looks at its switch when it begins; it may send a trade.          *)
Work(j) ==
    /\ \/ ~busy[j] /\ ~disabled[j] /\ UNCHANGED unmined
       \/ busy[j] /\ unmined' \in {unmined, unmined + 1}
    /\ Size + unmined' <= MaxTrades
    /\ busy' = [busy EXCEPT ![j] = ~@]
    /\ UNCHANGED <<disabled, posts, seen, data, chain, ready, tracked, txs,
                   processVars, runs, faults, strays>>
(* Once it is ready the tracker follows the trades.                        *)
MineTrade ==
    /\ unmined > 0
    /\ unmined' = unmined - 1 /\ chain' = Append(chain, Size + 1)
    /\ tracked' = IF ready THEN [tracked EXCEPT !.size = @ + 1] ELSE tracked
    /\ UNCHANGED <<serverVars, ready, txs, processVars, runs, faults,
                   strays>>
(* setIsGlobalShortDataReady(false), or setInitData, which reverts when    *)
(* the tracker is ready; the run that waits for it then throws.            *)
MineTracker ==
    LET tx == Head(txs)
        awaited == tx.run = runs /\ pc = "mining"
        reverts == tx # NoCopy /\ ready IN
    /\ txs # <<>> /\ txs' = Tail(txs)
    /\ ready' = (tx # NoCopy)
    /\ tracked' = IF reverts \/ tx = NoCopy THEN tracked ELSE tx
    /\ strays' = (strays \/ (tx # NoCopy /\ ~reverts /\ ~awaited))
    /\ IF reverts /\ awaited THEN Throw(posts) ELSE UNCHANGED <<processVars, posts>>
    /\ UNCHANGED <<disabled, busy, seen, data, unmined, chain, runs, faults>>
Sync ==
    /\ \/ seen < Block /\ seen' = Block /\ UNCHANGED data
       \/ data # chain[seen] /\ data' = chain[seen] /\ UNCHANGED seen
    /\ UNCHANGED <<disabled, busy, posts, chainVars, processVars, runs, faults,
                   strays>>

ServePost == \E p \in posts : Serve(p)
Environment ==
    \/ ServePost \/ Fault \/ Kill \/ MineTrade \/ MineTracker \/ Sync
    \/ \E p \in posts : Refuse(p)
    \/ \E j \in Jobs : Work(j)

Next == Run \/ Process \/ Environment
Spec == Init /\ [][Next]_vars
(* The process goes on, requests arrive and transactions are mined.        *)
Fairness == WF_vars(Process) /\ WF_vars(ServePost) /\ WF_vars(MineTracker)

-----------------------------------------------------------------------------
(* Where a run ends, jobs work, and the tracker is ready after a migration *)
(* and not after a rollback, unless something a run gave up on took effect *)
(* afterwards or is still on its way.                                      *)
EndsCleanly ==
    ~strays /\ posts = {} /\ txs = <<>> =>
        /\ pc \in {"done", "rolledBack"} => \A j \in Jobs : ~disabled[j]
        /\ pc = "done" => ready
        /\ pc = "rolledBack" => ~ready

(* A tracker that is ready is as close to the Vault as the check asks for, *)
(* when the server had seen the last block, no trade was waiting to be     *)
(* mined and nothing was on its way as the data were read.                 *)
TrackerIsCurrent ==
    ready /\ tracked.exact /\ ~strays => Abs(Size - tracked.size) <= Difference

(* A server that stays busy or behind, refuses requests or loses answers   *)
(* keeps no run from ending, as long as the process itself goes on,        *)
(* requests are served or refused and transactions are mined.              *)
RunsEnd == pc \notin Ended ~> pc \in Ended
=============================================================================
