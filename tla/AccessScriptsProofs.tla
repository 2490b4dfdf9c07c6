--------------------------- MODULE AccessScriptsProofs ---------------------------
(***************************************************************************)
(* Permissions come and go together, for every list of contracts to move   *)
(* and of permissions to take away, in whatever order an operator runs the *)
(* scripts, signs what they list and leaves the rest.                      *)
(***************************************************************************)
EXTENDS AccessScripts, TLAPS

(* What updateAccess takes away was given to contracts of the past, not to *)
(* the two the migration is about.                                         *)
RemovalsApart == \A r \in Removals : r[2] \notin {"rewardRouter", "vesterCap"}

(* The actions that may be set by one transaction: a phase of the          *)
(* migration as a whole, a removal, or a new governor.                     *)
Phases == {VesterCapPermits, RouterPermits(FALSE), RouterPermits(TRUE)}
Single(actions) ==
    \/ \E r \in Removals : actions = {Permit(r[1], r[2], FALSE)}
    \/ \E t \in Moves : actions = {Move(t)}
Whole(tx) == tx.signal \/ tx.actions \in Phases \/ Single(tx.actions)

(* Nothing that is left to sign has a part of a phase.                     *)
IInv == PermissionsTogether /\ \A tx \in unsigned : Whole(tx)

-----------------------------------------------------------------------------
(* What a script lists is whole.                                           *)
LEMMA ListedWhole ==
    ASSUME NEW script \in Scripts, NEW tx \in Listed(script)
    PROVE  Whole(tx)
<1>1. \/ tx \in UpdateGovs(TRUE)
      \/ tx \in UpdateGovs(FALSE)
      \/ tx \in UpdateAccess(TRUE)
      \/ tx \in UpdateAccess(FALSE)
      \/ tx \in SignalMpMigration
      \/ tx \in FinalizeMpMigration(VesterCapPermits)
      \/ tx \in FinalizeMpMigration(RouterPermits(FALSE))
      \/ tx \in FinalizeMpMigration(RouterPermits(TRUE))
  BY DEF Scripts, Listed
<1>2. CASE tx \in UpdateGovs(TRUE) \cup UpdateAccess(TRUE) \cup SignalMpMigration
  <2>1. PICK timelock, actions : tx = Call(timelock, TRUE, actions)
    BY <1>2, Zenon DEF UpdateGovs, UpdateAccess, SignalMpMigration
  <2>2. tx.signal
    BY <2>1 DEF Call
  <2>. QED  BY <2>2 DEF Whole
<1>3. CASE tx \in UpdateGovs(FALSE)
  <2>1. PICK t \in Moves : tx = Call(gov[t], FALSE, {Move(t)})
    BY <1>3, Zenon DEF UpdateGovs
  <2>2. tx.actions = {Move(t)}
    BY <2>1 DEF Call
  <2>. QED  BY <2>2 DEF Whole, Single
<1>4. CASE tx \in UpdateAccess(FALSE)
  <2>1. PICK r \in Removals : tx = Call(gov[r[1]], FALSE, {Permit(r[1], r[2], FALSE)})
    BY <1>4, Zenon DEF UpdateAccess
  <2>2. tx.actions = {Permit(r[1], r[2], FALSE)}
    BY <2>1 DEF Call
  <2>. QED  BY <2>2, Zenon DEF Whole, Single
<1>5. CASE \E phase \in Phases : tx \in FinalizeMpMigration(phase)
  <2>1. PICK phase \in Phases : tx = Call("next", FALSE, phase)
    BY <1>5, Zenon DEF FinalizeMpMigration
  <2>2. tx.actions = phase
    BY <2>1 DEF Call
  <2>. QED  BY <2>2 DEF Whole
<1>. QED  BY <1>1, <1>2, <1>3, <1>4, <1>5, Zenon DEF Phases

(* Permissions of one account with several targets, as actions and as      *)
(* pairs in granted.                                                       *)
Each(S, account, on) == {Permit(t, account, on) : t \in S}
Pairs(S, account) == {<<t, account>> : t \in S}
Differ(x, y) == x # y

(* Such actions give, or take, the pairs and nothing the other way: on and *)
(* off are TRUE and FALSE, or FALSE and TRUE.                              *)
LEMMA PermitsOf ==
    ASSUME NEW tx, NEW S, NEW account, NEW on, NEW off, Differ(account, "gov"), Differ(on, off),
           tx.actions = Each(S, account, on)
    PROVE  /\ Permits(tx, on) = Pairs(S, account)
           /\ Permits(tx, off) = {}
<1>1. \A b \in tx.actions : b.account = account /\ b.on = on /\ b.target \in S
  BY DEF Each, Permit
<1>2. ASSUME NEW t \in S PROVE \E b \in tx.actions : b.account = account /\ b.target = t
  <2>1. Permit(t, account, on) \in tx.actions
    BY Zenon DEF Each
  <2>2. Permit(t, account, on).account = account /\ Permit(t, account, on).target = t
    BY DEF Permit
  <2>. QED  BY <2>1, <2>2, Zenon
<1>3. {b \in tx.actions : b.account # "gov" /\ b.on = on} = tx.actions
  BY <1>1 DEF Differ
<1>4. {b \in tx.actions : b.account # "gov" /\ b.on = off} = {}
  BY <1>1 DEF Differ
<1>5. {<<b.target, b.account>> : b \in tx.actions} = Pairs(S, account)
  BY <1>1, <1>2 DEF Pairs
<1>. QED  BY <1>3, <1>4, <1>5, Zenon DEF Permits

(* Setting whole actions keeps permissions together.                       *)
Router == Pairs({"bnGmx", "feeGmxTracker"}, "rewardRouter")
Cap == Pairs({"esGmx", "gmxVester", "feeGmxTracker"}, "vesterCap")
Together(pairs) == pairs \cap granted \in {{}, pairs}

LEMMA PairsOfCap == {<<a.target, a.account>> : a \in VesterCapPermits} = Cap
<1>1. \A a \in VesterCapPermits :
          a.account = "vesterCap" /\ a.target \in {"esGmx", "gmxVester", "feeGmxTracker"}
  BY DEF VesterCapPermits, Permit
<1>2. ASSUME NEW t \in {"esGmx", "gmxVester", "feeGmxTracker"}
      PROVE  \E a \in VesterCapPermits : a.account = "vesterCap" /\ a.target = t
  <2>1. Permit(t, "vesterCap", TRUE) \in VesterCapPermits
    BY Zenon DEF VesterCapPermits
  <2>2. /\ Permit(t, "vesterCap", TRUE).account = "vesterCap"
        /\ Permit(t, "vesterCap", TRUE).target = t
    BY DEF Permit
  <2>. QED  BY <2>1, <2>2, Zenon
<1>. QED  BY <1>1, <1>2 DEF Cap, Pairs

LEMMA ExecuteKeepsTogether ==
    ASSUME RemovalsApart, Together(Router), Together(Cap),
           NEW tx, Whole(tx), Execute(tx)
    PROVE  Together(Router)' /\ Together(Cap)'
<1>1. Router \cap Cap = {}
  BY DEF Router, Cap, Pairs
<1>2. CASE tx.signal
  BY <1>2 DEF Execute, Together
<1>3. ASSUME ~tx.signal
      PROVE  granted' = (granted \cup Permits(tx, TRUE)) \ Permits(tx, FALSE)
  BY <1>3 DEF Execute
<1>4. CASE ~tx.signal /\ tx.actions = VesterCapPermits
  <2>1. Permits(tx, TRUE) = Cap /\ Permits(tx, FALSE) = {}
    <3>1. tx.actions = Each({"esGmx", "gmxVester", "feeGmxTracker"}, "vesterCap", TRUE)
      BY <1>4, Zenon DEF VesterCapPermits, Each
    <3>2. Differ("vesterCap", "gov") /\ Differ(TRUE, FALSE)
      BY DEF Differ
    <3>3. /\ Permits(tx, TRUE) = Pairs({"esGmx", "gmxVester", "feeGmxTracker"}, "vesterCap")
          /\ Permits(tx, FALSE) = {}
      BY <3>1, <3>2, PermitsOf, Zenon
    <3>. QED  BY <3>3, Zenon DEF Cap
  <2>. QED  BY <1>1, <1>3, <1>4, <2>1 DEF Together
<1>5. CASE ~tx.signal /\ tx.actions = RouterPermits(TRUE)
  <2>1. Permits(tx, TRUE) = Router /\ Permits(tx, FALSE) = {}
    <3>1. tx.actions = Each({"bnGmx", "feeGmxTracker"}, "rewardRouter", TRUE)
      BY <1>5, Zenon DEF RouterPermits, Each
    <3>2. Differ("rewardRouter", "gov") /\ Differ(TRUE, FALSE)
      BY DEF Differ
    <3>3. /\ Permits(tx, TRUE) = Pairs({"bnGmx", "feeGmxTracker"}, "rewardRouter")
          /\ Permits(tx, FALSE) = {}
      BY <3>1, <3>2, PermitsOf, Zenon
    <3>. QED  BY <3>3, Zenon DEF Router
  <2>. QED  BY <1>1, <1>3, <1>5, <2>1 DEF Together
<1>6. CASE ~tx.signal /\ tx.actions = RouterPermits(FALSE)
  <2>1. Permits(tx, TRUE) = {} /\ Permits(tx, FALSE) = Router
    <3>1. tx.actions = Each({"bnGmx", "feeGmxTracker"}, "rewardRouter", FALSE)
      BY <1>6, Zenon DEF RouterPermits, Each
    <3>2. Differ("rewardRouter", "gov") /\ Differ(FALSE, TRUE)
      BY DEF Differ
    <3>3. /\ Permits(tx, FALSE) = Pairs({"bnGmx", "feeGmxTracker"}, "rewardRouter")
          /\ Permits(tx, TRUE) = {}
      BY <3>1, <3>2, PermitsOf, Zenon
    <3>. QED  BY <3>3, Zenon DEF Router
  <2>. QED  BY <1>1, <1>3, <1>6, <2>1 DEF Together
<1>7. CASE ~tx.signal /\ Single(tx.actions)
  <2>1. Permits(tx, TRUE) = {}
    BY <1>7 DEF Single, Permits, Permit, Move
  <2>2. Permits(tx, FALSE) \cap (Router \cup Cap) = {}
    BY <1>7 DEF Single, Permits, Permit, Move, RemovalsApart, Router, Cap, Pairs
  <2>. QED  BY <1>3, <1>7, <2>1, <2>2 DEF Together
<1>. QED  BY <1>2, <1>4, <1>5, <1>6, <1>7 DEF Whole, Phases

LEMMA InitIInv == ASSUME RemovalsApart PROVE AccessInit => IInv
  BY DEF AccessInit, IInv, PermissionsTogether, RemovalsApart, VesterCapPermits, Permit

LEMMA NextIInv == ASSUME RemovalsApart PROVE IInv /\ [AccessNext]_accessVars => IInv'
<1>. SUFFICES ASSUME IInv, [AccessNext]_accessVars PROVE IInv'
  OBVIOUS
<1>1. ASSUME NEW script \in Scripts, RunScript(script) PROVE IInv'
  BY <1>1, ListedWhole DEF RunScript, IInv, PermissionsTogether, timelockVars, Whole
<1>2. ASSUME NEW tx \in unsigned, Sign(tx) PROVE IInv'
  <2>1. \A t \in unsigned' : Whole(t)
    BY <1>2 DEF Sign, IInv
  <2>2. PermissionsTogether'
    BY <1>2, ExecuteKeepsTogether, PairsOfCap
         DEF Sign, IInv, PermissionsTogether, Together, Router, Pairs, timelockVars
  <2>. QED  BY <2>1, <2>2 DEF IInv
<1>3. CASE Leave
  BY <1>3 DEF Leave, IInv, PermissionsTogether, timelockVars
<1>4. CASE BufferPasses
  BY <1>4 DEF BufferPasses, IInv, PermissionsTogether
<1>5. CASE UNCHANGED accessVars
  BY <1>5 DEF accessVars, timelockVars, IInv, PermissionsTogether
<1>. QED  BY <1>1, <1>2, <1>3, <1>4, <1>5 DEF AccessNext

(* Never does rewardRouter hold one of its two permissions, or vesterCap   *)
(* some of its three. (finalizeTxnsForMpMigration: a phase is a multicall) *)
THEOREM PermissionsStayTogether ==
    ASSUME RemovalsApart
    PROVE  AccessSpec => []PermissionsTogether
<1>1. AccessInit => IInv
  BY InitIInv
<1>2. IInv /\ [AccessNext]_accessVars => IInv'
  BY NextIInv
<1>3. IInv => PermissionsTogether
  BY DEF IInv
<1>. QED  BY <1>1, <1>2, <1>3, PTL DEF AccessSpec
================================================================================
