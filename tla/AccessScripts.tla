----------------------------- MODULE AccessScripts -----------------------------
(***************************************************************************)
(* The scripts that move contracts to a new timelock and change who may    *)
(* mint and who is a handler: peripherals/updateGovs.js,                   *)
(* peripherals/updateAccess.js, staking/sendSignalTxnsForMpMigration.js    *)
(* and staking/finalizeTxnsForMpMigration.js. None of them sends anything: *)
(* each reads who governs a contract, writes transactions for a timelock   *)
(* and serves them (shared/signer.js) until an operator has signed them,   *)
(* in any order. A timelock does what was signalled to it once its buffer  *)
(* has passed; a multicall does all of its calls or none.                  *)
(***************************************************************************)
EXTENDS Integers, FiniteSets

CONSTANTS
    Moves,      \* the contracts of updateGovs
    Removals    \* the actionList of updateAccess, pairs of target and account

Timelocks == {"previous", "next"}
Targets == {"bnGmx", "feeGmxTracker", "esGmx", "gmxVester"}

(* setMinter for the tokens, setHandler for the others; or setGov.         *)
Permit(target, account, on) ==
    [target |-> target, account |-> account, on |-> on]
Move(target) == Permit(target, "gov", TRUE)

VARIABLES
    gov,                \* who governs a target
    granted,            \* who may do what with a target
    waiting, matured,   \* what is signalled to a timelock
    unsigned            \* what the scripts ask the operator to sign

timelockVars == <<gov, granted, waiting, matured>>
accessVars == <<timelockVars, unsigned>>

(* rewardRouter has its permissions; those of Removals are still there.    *)
AccessInit ==
    /\ gov = [t \in Targets |-> IF t \in Moves THEN "previous" ELSE "next"]
    /\ granted = Removals \cup {<<"bnGmx", "rewardRouter">>, <<"feeGmxTracker", "rewardRouter">>}
    /\ waiting = {} /\ matured = {} /\ unsigned = {}

-----------------------------------------------------------------------------
(* Transactions: calls for a timelock, that signal or do the actions.      *)

Call(timelock, signal, actions) ==
    [timelock |-> timelock, signal |-> signal, actions |-> actions]
Requests(tx) == {<<tx.timelock, a>> : a \in tx.actions}

RouterPermits(on) == {Permit(t, "rewardRouter", on) : t \in {"bnGmx", "feeGmxTracker"}}
VesterCapPermits == {Permit(t, "vesterCap", TRUE) :
                        t \in {"esGmx", "gmxVester", "feeGmxTracker"}}

SignalMpMigration ==
    {Call("next", TRUE,
          RouterPermits(FALSE) \cup RouterPermits(TRUE) \cup VesterCapPermits)}

(* Mutant: the calls of a phase are signed one by one.                     *)
OneByOne(actions) == {Call("next", FALSE, {a}) : a \in actions}
FinalizeMpMigration(actions) == {Call("next", FALSE, actions)}

UpdateAccess(signal) ==
    {Call(gov[r[1]], signal, {Permit(r[1], r[2], FALSE)}) : r \in Removals}

(* The line that signals and the line that sets are commented in turn.     *)
UpdateGovs(signal) ==
    {Call(gov[t], signal, {Move(t)}) : t \in {m \in Moves : gov[m] # "next"}}

Scripts == {"signalGovs", "setGovs", "signalAccess", "setAccess", "signalMigration",
            "enableVesterCap", "disableRewardRouter", "enableRewardRouter"}
Listed(script) ==
    CASE script = "signalGovs" -> UpdateGovs(TRUE)
      [] script = "setGovs" -> UpdateGovs(FALSE)
      [] script = "signalAccess" -> UpdateAccess(TRUE)
      [] script = "setAccess" -> UpdateAccess(FALSE)
      [] script = "signalMigration" -> SignalMpMigration
      [] script = "enableVesterCap" -> FinalizeMpMigration(VesterCapPermits)
      [] script = "disableRewardRouter" -> FinalizeMpMigration(RouterPermits(FALSE))
      [] script = "enableRewardRouter" -> FinalizeMpMigration(RouterPermits(TRUE))

-----------------------------------------------------------------------------
(* A timelock does not take a signal twice; to do what was signalled its   *)
(* buffer must have passed and it must govern the target.                  *)
Valid(tx) ==
    IF tx.signal THEN Requests(tx) \cap (waiting \cup matured) = {}
    ELSE Requests(tx) \subseteq matured /\ \A a \in tx.actions : gov[a.target] = tx.timelock

(* Who may do what with which target by actions that are done.             *)
Permits(tx, on) ==
    {<<a.target, a.account>> : a \in {b \in tx.actions : b.account # "gov" /\ b.on = on}}
Execute(tx) ==
    IF tx.signal
    THEN waiting' = waiting \cup Requests(tx) /\ UNCHANGED <<gov, granted, matured>>
    ELSE /\ matured' = matured \ Requests(tx)
         /\ gov' = [t \in Targets |-> IF Move(t) \in tx.actions THEN "next" ELSE gov[t]]
         /\ granted' = (granted \cup Permits(tx, TRUE)) \ Permits(tx, FALSE)
         /\ UNCHANGED waiting

RunScript(script) ==
    /\ unsigned = {} /\ Listed(script) # {} /\ unsigned' = Listed(script)
    /\ UNCHANGED timelockVars

(* What is not valid reverts, and counts as completed too.                 *)
Sign(tx) ==
    /\ tx \in unsigned /\ unsigned' = unsigned \ {tx}
    /\ IF Valid(tx) THEN Execute(tx) ELSE UNCHANGED timelockVars

(* The server is stopped before everything is signed.                      *)
Leave ==
    /\ unsigned # {} /\ unsigned' = {}
    /\ UNCHANGED timelockVars

BufferPasses ==
    /\ waiting # {} /\ waiting' = {} /\ matured' = matured \cup waiting
    /\ UNCHANGED <<gov, granted, unsigned>>

AccessNext ==
    \/ \E script \in Scripts : RunScript(script)
    \/ \E tx \in unsigned : Sign(tx)
    \/ Leave \/ BufferPasses
AccessSpec == AccessInit /\ [][AccessNext]_accessVars

-----------------------------------------------------------------------------
(* At no moment can rewardRouter mint multiplier points and not stake      *)
(* them, or the other way round; nor has vesterCap some of its permissions *)
(* without the others. (phases of finalizeTxnsForMpMigration)              *)
PermissionsTogether ==
    /\ <<"bnGmx", "rewardRouter">> \in granted <=> <<"feeGmxTracker", "rewardRouter">> \in granted
    /\ LET cap == {<<a.target, a.account>> : a \in VesterCapPermits} IN
       cap \cap granted \in {{}, cap}
=============================================================================
