------------------------------ MODULE MCOperations ------------------------------
(***************************************************************************)
(* The operators' programs on small instances. A behaviour is about one of *)
(* them; the variables of the others keep their initial values.            *)
(***************************************************************************)
EXTENDS ShortsMigration, AccessScripts, TLC

CONSTANTS
    Traded, MaxAmount, MaxDeposits, MaxConfigs,
    Inputs, BatchSize, EsGmxApproval, Remap, MaxFailures

VARIABLES
    operation,
    pool, reserved, guaranteed, debt, limit, supply, configured, script, writes,
    trades, configs, minted,
    input, program, step, next, tried, allowance, handled, failures, lost,
    restarts

ConfigArbitrum == INSTANCE TokenConfig WITH MaxTrades <- MaxDeposits, Network <- "arbitrum"
ConfigAvax == INSTANCE TokenConfig WITH MaxTrades <- MaxDeposits, Network <- "avax"
Batch == INSTANCE BatchTasks WITH pc <- step

configVars == <<pool, reserved, guaranteed, debt, limit, supply, configured, script, writes,
                trades, configs, minted>>
batchVars == <<input, program, step, next, tried, allowance, handled, failures, lost,
               restarts>>
allVars == <<operation, vars, accessVars, configVars, batchVars>>

InitOperation ==
    /\ operation \in {"migration", "access", "config", "configAvax", "batch"}
    /\ Init /\ AccessInit /\ Batch!Init
    /\ IF operation = "configAvax" THEN ConfigAvax!Init ELSE ConfigArbitrum!Init
    /\ operation \notin {"config", "configAvax"} =>
          \A amounts \in {pool, guaranteed, debt} : \A t \in Traded : amounts[t] = 0
    /\ operation # "batch" => input = <<>> /\ program = Batch!MigrateStaking(<<>>)

NextOperation ==
    /\ UNCHANGED operation
    /\ \/ /\ operation = "migration" /\ Next
          /\ UNCHANGED <<accessVars, configVars, batchVars>>
       \/ /\ operation = "access" /\ AccessNext
          /\ UNCHANGED <<vars, configVars, batchVars>>
       \/ /\ \/ operation = "config" /\ ConfigArbitrum!Next
             \/ operation = "configAvax" /\ ConfigAvax!Next
          /\ UNCHANGED <<vars, accessVars, batchVars>>
       \/ /\ operation = "batch" /\ Batch!Next
          /\ UNCHANGED <<vars, accessVars, configVars>>

LiveSpec == InitOperation /\ [][NextOperation]_allVars /\ Fairness

(* EndsCleanly, TrackerIsCurrent and RunsEnd are those of ShortsMigration, *)
(* PermissionsTogether is that of AccessScripts.                           *)

(* setTokenConfig: USDG owed and USDG there is.                            *)
DebtsWithinSupply ==
    [][/\ operation = "config" => ConfigArbitrum!ConfigBacked
       /\ operation = "configAvax" => ConfigAvax!ConfigBacked]_allVars
(* The batch scripts: everybody is reached, and again only by a run that   *)
(* starts over or for an answer that was lost.                             *)
WorkedThrough == Batch!WorkedThrough

-----------------------------------------------------------------------------
MCMoves == {"bnGmx", "feeGmxTracker"}
MCRemovals == {<<"feeGmxTracker", "formerRouter">>}
Line(account, amount, kind) == [account |-> account, amount |-> amount, kind |-> kind]
MCInputs ==
    {<<>>,
     <<Line("a", 2, "gmxVester"), Line("b", 2, "skip"),
       Line("a", 3, "glpVester")>>,
     <<Line("a", 2, "gmxVester"), Line("b", 2, "glpVester"),
       Line("c", 8, "gmxVester")>>,
     <<Line("a", 0, "glpVester"), Line("b", 1, "gmxVester"),
       Line("c", 2, "glpVester"), Line("d", 3, "gmxVester")>>}
MCRemap == "b" :> "b2"
================================================================================
