------------------------- MODULE ShortsMigrationProofs -------------------------
(***************************************************************************)
(* Where a migration ends and what the tracker then knows, for any lag of  *)
(* the server and any number of tries, trades, runs and faults. The        *)
(* invariant says of every step of the program what it has achieved and    *)
(* may rely on until it ends, as long as nothing that an earlier step gave *)
(* up on takes effect (strays).                                            *)
(***************************************************************************)
EXTENDS ShortsMigration, SequenceTheorems, TLAPS

Quiet == {"sleeping", "waitData", "sending", "mining"}
Stopped == {"waitJobs"} \cup Quiet
Labels == Ended \cup Stopped \cup
    {"disabling", "enabling", "switching", "rollbackOrders", "rollbackLiquidations",
     "rollbackTracker"}

Posts == [job : Jobs, off : BOOLEAN, awaited : BOOLEAN]
Copies == [size : Int, exact : BOOLEAN, run : Nat]

(* The state has its types.                                                *)
Shape ==
    /\ disabled \in [Jobs -> BOOLEAN] /\ busy \in [Jobs -> BOOLEAN]
    /\ posts \subseteq Posts
    /\ chain \in Seq(Int) /\ chain # <<>> /\ seen \in 1 .. Len(chain)
    /\ data \in Int /\ unmined \in Nat
    /\ ready \in BOOLEAN /\ strays \in BOOLEAN
    /\ tracked \in Copies /\ copy \in Copies /\ txs \in Seq(Copies)
    /\ pc \in Labels /\ runs \in Nat

(* Nobody waits for an answer but in the steps that ask.                   *)
AskedByRun ==
    pc \in Ended \cup Stopped \cup {"rollbackTracker"} => Answered

(* What a step asks for is so or is still on its way, and nothing else is. *)
AsksOff == \A p \in posts : p.awaited => p.off
AsksOn == \A p \in posts : p.awaited => ~p.off
GoesOff(j) == disabled[j] \/ Toggle(j, TRUE) \in posts
GoesOn(j) == ~disabled[j] \/ Toggle(j, FALSE) \in posts
SwitchesFollow ==
    /\ pc = "disabling" => AsksOff /\ \A j \in Jobs : GoesOff(j)
    /\ pc = "enabling" => AsksOn /\ \A j \in Jobs : GoesOn(j)
    /\ pc = "rollbackOrders" => AsksOn /\ GoesOn("orders")
    /\ pc = "rollbackLiquidations" =>
          AsksOn /\ ~disabled["orders"] /\ GoesOn("liquidations")
    /\ pc \in Stopped => \A j \in Jobs : disabled[j]
    /\ pc \in Quiet => \A j \in Jobs : ~busy[j]
    /\ pc \in {"done", "rolledBack", "rollbackTracker"} => \A j \in Jobs : ~disabled[j]

(* The copy of a run reaches the tracker last, or not at all.              *)
CopyOfRun ==
    /\ \A i \in DOMAIN txs : txs[i].run <= runs
    /\ pc \notin Ended => runs > 0
    /\ pc \in {"disabling"} \cup (Stopped \ {"mining"}) =>
          \A i \in DOMAIN txs : txs[i].run < runs
    /\ pc \in {"sending", "mining"} => copy.run = runs
    /\ pc = "mining" =>
          \/ /\ txs # <<>> /\ txs[Len(txs)] = copy
             /\ \A i \in DOMAIN txs : i < Len(txs) => txs[i].run < runs
          \/ txs = <<>> /\ ready
    /\ pc \in {"enabling", "done"} => txs = <<>> /\ ready
(* The last that reaches it after a rollback switches it off.              *)
RolledBack ==
    pc = "rolledBack" => ~ready \/ (txs # <<>> /\ txs[Len(txs)] = NoCopy)

(* While no job runs the Vault stays as it was read.                       *)
Close(size) == Abs(Size - size) <= Difference
CopyIsCurrent ==
    pc \in {"sending", "mining"} /\ copy.exact => unmined = 0 /\ Close(copy.size)

Undisturbed ==
    SwitchesFollow /\ CopyOfRun /\ RolledBack /\ CopyIsCurrent /\ TrackerIsCurrent
IInv == Shape /\ AskedByRun /\ (~strays => Undisturbed)

-----------------------------------------------------------------------------
(* Requests.                                                               *)
LEMMA ToggleFields ==
    ASSUME NEW j \in Jobs
    PROVE  /\ Toggle(j, TRUE) \in Posts /\ Toggle(j, FALSE) \in Posts
           /\ Toggle(j, TRUE).job = j /\ Toggle(j, FALSE).job = j
           /\ Toggle(j, TRUE).off /\ ~Toggle(j, FALSE).off
           /\ Toggle(j, TRUE).awaited /\ Toggle(j, FALSE).awaited
  BY DEF Toggle, Posts

LEMMA AbandonedPosts ==
    ASSUME NEW ps, ps \subseteq Posts
    PROVE  /\ Abandoned(ps) \subseteq Posts
           /\ \A p \in Abandoned(ps) : ~p.awaited
<1>1. ASSUME NEW p \in Posts
      PROVE  [p EXCEPT !.awaited = FALSE] \in Posts /\ ~[p EXCEPT !.awaited = FALSE].awaited
  BY DEF Posts
<1>. QED  BY <1>1 DEF Abandoned

LEMMA Toggled ==
    /\ Toggles(TRUE) \subseteq Posts /\ \A p \in Toggles(TRUE) : p.awaited /\ p.off
    /\ Toggles(FALSE) \subseteq Posts /\ \A p \in Toggles(FALSE) : p.awaited /\ ~p.off
    /\ \A j \in Jobs : Toggle(j, TRUE) \in Toggles(TRUE) /\ Toggle(j, FALSE) \in Toggles(FALSE)
  BY ToggleFields DEF Toggles

(* A rollback asks for the orders, whatever was given up before.           *)
LEMMA RollbackStep ==
    ASSUME NEW ps, ps \subseteq Posts, \A p \in ps : ~p.awaited, Rollback(ps)
    PROVE  /\ pc' = "rollbackOrders" /\ copy' = copy
           /\ posts' \subseteq Posts /\ AsksOn' /\ GoesOn("orders")'
  BY ToggleFields DEF Rollback, Goto, AsksOn, GoesOn, Jobs

LEMMA ThrowStep ==
    ASSUME NEW ps, ps \subseteq Posts, Throw(ps)
    PROVE  /\ pc' \in {"rollbackOrders", "failed"} /\ copy' = copy
           /\ posts' \subseteq Posts
           /\ pc' = "failed" => Answered'
           /\ pc' = "rollbackOrders" => AsksOn' /\ GoesOn("orders")'
<1>1. CASE pc \in Migrating
  BY <1>1, AbandonedPosts, RollbackStep DEF Throw
<1>2. CASE pc \notin Migrating
  BY <1>2, AbandonedPosts DEF Throw, Goto, Answered
<1>. QED  BY <1>1, <1>2

(* After it nothing has to hold of a copy.                                 *)
LEMMA AfterThrow ==
    ASSUME IInv, pc \notin Ended, NEW ps, ps \subseteq Posts, Throw(ps),
           UNCHANGED <<disabled, chain, unmined, ready, tracked, runs, strays>>,
           txs' = txs, UNCHANGED <<busy, seen, data>>
    PROVE  IInv'
<1>1. /\ pc' \in {"rollbackOrders", "failed"} /\ copy' = copy
      /\ posts' \subseteq Posts
      /\ pc' = "failed" => Answered'
      /\ pc' = "rollbackOrders" => AsksOn' /\ GoesOn("orders")'
  BY ThrowStep
<1>2. Shape'
  BY <1>1 DEF IInv, Shape, Labels, Ended
<1>3. AskedByRun'
  BY <1>1 DEF AskedByRun, Ended, Stopped, Quiet
<1>4. ASSUME ~strays PROVE Undisturbed'
  <2>1. SwitchesFollow'
    BY <1>1 DEF SwitchesFollow, Stopped, Quiet
  <2>2. CopyOfRun'
    BY <1>1, <1>4 DEF IInv, Undisturbed, CopyOfRun, Stopped, Quiet, Ended
  <2>3. RolledBack' /\ CopyIsCurrent'
    BY <1>1 DEF RolledBack, CopyIsCurrent
  <2>4. TrackerIsCurrent'
    BY <1>4 DEF IInv, Undisturbed, TrackerIsCurrent, Size, Block
  <2>. QED  BY <2>1, <2>2, <2>3, <2>4 DEF Undisturbed
<1>. QED  BY <1>2, <1>3, <1>4 DEF IInv
-----------------------------------------------------------------------------
(* The parts of the invariant a step leaves alone.                         *)
LEMMA TrackerKept ==
    ASSUME TrackerIsCurrent, UNCHANGED <<chain, ready, tracked, strays>>
    PROVE  TrackerIsCurrent'
  BY DEF TrackerIsCurrent, Size, Block

LEMMA CopyKept ==
    ASSUME CopyIsCurrent, UNCHANGED <<chain, unmined, copy>>,
           pc' \in {"sending", "mining"} => pc \in {"sending", "mining"}
    PROVE  CopyIsCurrent'
  BY DEF CopyIsCurrent, Close, Size, Block

(* Init and the steps.                                                     *)
LEMMA InitIInv == Init => IInv
<1>. SUFFICES ASSUME Init PROVE IInv
  OBVIOUS
<1>1. NoCopy \in Copies
  BY DEF NoCopy, Copies
<1>2. Shape
  <2>1. chain \in Seq(Int) /\ chain # <<>> /\ seen \in 1 .. Len(chain)
    BY DEF Init
  <2>2. disabled \in [Jobs -> BOOLEAN] /\ busy \in [Jobs -> BOOLEAN]
    BY DEF Init
  <2>3. posts \subseteq Posts /\ txs \in Seq(Copies)
    BY DEF Init
  <2>4. pc \in Labels /\ ready \in BOOLEAN /\ strays \in BOOLEAN
    BY DEF Init, Labels, Ended
  <2>. QED  BY <1>1, <2>1, <2>2, <2>3, <2>4 DEF Init, Shape
<1>3. AskedByRun
  BY DEF Init, AskedByRun, Answered
<1>4. SwitchesFollow
  BY DEF Init, SwitchesFollow, Stopped, Quiet
<1>5. CopyOfRun
  BY DEF Init, CopyOfRun, Stopped, Quiet, Ended
<1>6. RolledBack /\ CopyIsCurrent /\ TrackerIsCurrent
  BY DEF Init, RolledBack, CopyIsCurrent, TrackerIsCurrent
<1>. QED  BY <1>2, <1>3, <1>4, <1>5, <1>6 DEF IInv, Undisturbed

LEMMA RunStep == ASSUME IInv, Run PROVE IInv'
<1>1. /\ posts \subseteq Posts /\ \A p \in posts : ~p.awaited
      /\ pc \in Ended /\ runs' = runs + 1 /\ runs \in Nat
      /\ UNCHANGED <<disabled, busy, seen, data, faults, strays>>
      /\ UNCHANGED <<unmined, chain, ready, tracked, txs>>
  BY DEF IInv, Shape, AskedByRun, Answered, Run, chainVars
<1>2. ASSUME ~strays, pc' \notin Ended, pc' \notin {"sending", "mining", "enabling"},
             copy' = copy
      PROVE  CopyOfRun' /\ RolledBack' /\ CopyIsCurrent' /\ TrackerIsCurrent'
  <2>1. \A i \in DOMAIN txs : txs[i] \in Copies /\ txs[i].run <= runs
    BY <1>2 DEF IInv, Shape, Undisturbed, CopyOfRun
  <2>2. \A i \in DOMAIN txs : txs[i].run <= runs + 1 /\ txs[i].run < runs + 1
    BY <2>1, <1>1 DEF Copies
  <2>3. CopyOfRun'
    BY <2>2, <1>1, <1>2 DEF CopyOfRun, Ended
  <2>4. RolledBack' /\ CopyIsCurrent'
    BY <1>2 DEF RolledBack, CopyIsCurrent, Ended
  <2>5. TrackerIsCurrent'
    BY <1>1, <1>2, TrackerKept DEF IInv, Undisturbed
  <2>. QED  BY <2>3, <2>4, <2>5
<1>3. CASE Rollback(posts)
  <2>1. /\ pc' = "rollbackOrders" /\ copy' = copy
        /\ posts' \subseteq Posts /\ AsksOn' /\ GoesOn("orders")'
    BY <1>1, <1>3, RollbackStep
  <2>2. Shape' /\ AskedByRun'
    BY <1>1, <2>1 DEF IInv, Shape, Labels, AskedByRun, Ended, Stopped, Quiet
  <2>3. SwitchesFollow'
    BY <2>1 DEF SwitchesFollow, Stopped, Quiet
  <2>. QED  BY <1>1, <1>2, <2>1, <2>2, <2>3 DEF IInv, Undisturbed, Ended
<1>4. CASE posts' = posts \cup Toggles(TRUE) /\ Goto("disabling")
  <2>1. pc' = "disabling" /\ copy' = copy /\ posts' \subseteq Posts
    BY <1>1, <1>4, Toggled DEF Goto
  <2>2. AsksOff'
    BY <1>1, <1>4, Toggled DEF AsksOff
  <2>3. \A j \in Jobs : Toggle(j, TRUE) \in posts'
    BY <1>4, Toggled
  <2>4. Shape' /\ AskedByRun'
    BY <1>1, <2>1 DEF IInv, Shape, Labels, AskedByRun, Ended, Stopped, Quiet
  <2>5. SwitchesFollow'
    BY <2>1, <2>2, <2>3 DEF SwitchesFollow, GoesOff, Stopped, Quiet
  <2>. QED  BY <1>1, <1>2, <2>1, <2>4, <2>5 DEF IInv, Undisturbed, Ended
<1>5. ASSUME NEW off \in BOOLEAN, Switch(off) PROVE IInv'
  <2>1. pc' = "switching" /\ copy' = copy /\ posts' \subseteq Posts
    BY <1>1, <1>5, Toggled DEF Switch, Goto
  <2>2. Shape' /\ AskedByRun'
    BY <1>1, <2>1 DEF IInv, Shape, Labels, AskedByRun, Ended, Stopped, Quiet
  <2>3. SwitchesFollow'
    BY <2>1 DEF SwitchesFollow, Stopped, Quiet
  <2>. QED  BY <1>1, <1>2, <2>1, <2>2, <2>3 DEF IInv, Undisturbed, Ended
<1>. QED  BY <1>3, <1>4, <1>5 DEF Run, Migrate

(* Waiting again, with the same answers outstanding.                       *)
LEMMA WaitsAgain ==
    ASSUME IInv, UNCHANGED <<disabled, busy, seen, data, runs, strays>>,
           UNCHANGED <<unmined, chain, ready, tracked, txs, pc, copy, posts>>
    PROVE  IInv'
<1>1. Shape' /\ AskedByRun'
  BY DEF IInv, Shape, AskedByRun, Answered
<1>2. ASSUME ~strays PROVE Undisturbed'
  <2>1. SwitchesFollow'
    BY <1>2 DEF IInv, Undisturbed, SwitchesFollow, AsksOff, AsksOn, GoesOff, GoesOn
  <2>2. CopyOfRun' /\ RolledBack'
    BY <1>2 DEF IInv, Undisturbed, CopyOfRun, RolledBack
  <2>. QED  BY <1>2, <2>1, <2>2, CopyKept, TrackerKept DEF IInv, Undisturbed
<1>. QED  BY <1>1, <1>2 DEF IInv

(* Waiting until no job is busy, or giving up.                             *)
LEMMA WaitJobsStep ==
    ASSUME IInv, WaitJobs,
           UNCHANGED <<unmined, chain, ready, tracked, txs>>,
           UNCHANGED <<disabled, busy, seen, data, runs, faults, strays>>
    PROVE  IInv'
<1>1. CASE Throw(posts)
  BY <1>1, AfterThrow DEF IInv, Shape, WaitJobs, Ended
<1>2. CASE AllIdle /\ Goto("sleeping") /\ UNCHANGED posts
  <2>1. pc = "waitJobs" /\ pc' = "sleeping" /\ copy' = copy
    BY <1>2 DEF WaitJobs, Goto
  <2>2. Shape' /\ AskedByRun'
    BY <1>2, <2>1 DEF IInv, Shape, Labels, AskedByRun, Answered, Stopped, Quiet, Ended
  <2>3. ASSUME ~strays PROVE Undisturbed'
    <3>1. SwitchesFollow'
      BY <1>2, <2>1, <2>3 DEF IInv, Undisturbed, SwitchesFollow, AllIdle, Stopped, Quiet
    <3>2. CopyOfRun' /\ RolledBack'
      BY <2>1, <2>3 DEF IInv, Undisturbed, CopyOfRun, RolledBack, Stopped, Quiet, Ended
    <3>. QED  BY <2>1, <2>3, <3>1, <3>2, CopyKept, TrackerKept DEF IInv, Undisturbed
  <2>. QED  BY <2>2, <2>3 DEF IInv
<1>3. CASE UNCHANGED <<pc, copy, posts>>
  BY <1>3, WaitsAgain
<1>. QED  BY <1>1, <1>2, <1>3 DEF WaitJobs

(* Reading the data: what is exact is the Vault as it stays.               *)
LEMMA WaitDataStep ==
    ASSUME IInv, WaitData, UNCHANGED <<unmined, chain, ready, tracked, txs>>,
           UNCHANGED <<disabled, busy, seen, data, runs, faults, strays>>
    PROVE  IInv'
<1>1. CASE Throw(posts)
  BY <1>1, AfterThrow DEF IInv, Shape, WaitData, Ended
<1>2. CASE /\ UpToDate /\ pc' = "sending" /\ UNCHANGED posts
           /\ copy' = [size |-> data,
                       exact |-> seen = Block /\ unmined = 0 /\ posts = {},
                       run |-> runs]
  <2>1. copy' \in Copies /\ copy'.size = data /\ copy'.run = runs
        /\ (copy'.exact => seen = Block /\ unmined = 0)
    BY <1>2 DEF IInv, Shape, Copies
  <2>2. pc = "waitData" /\ pc' = "sending"
    BY <1>2 DEF WaitData
  <2>3. Shape' /\ AskedByRun'
    BY <1>2, <2>1, <2>2 DEF IInv, Shape, Labels, AskedByRun, Answered, Stopped, Quiet, Ended
  <2>4. ASSUME ~strays PROVE Undisturbed'
    <3>1. SwitchesFollow'
      BY <2>2, <2>4 DEF IInv, Undisturbed, SwitchesFollow, Stopped, Quiet
    <3>2. CopyOfRun' /\ RolledBack'
      BY <2>1, <2>2, <2>4 DEF IInv, Undisturbed, CopyOfRun, RolledBack, Stopped, Quiet, Ended
    <3>3. CopyIsCurrent'
      BY <1>2, <2>1 DEF UpToDate, CopyIsCurrent, Close, Size, Block
    <3>. QED  BY <2>4, <3>1, <3>2, <3>3, TrackerKept DEF IInv, Undisturbed
  <2>. QED  BY <2>3, <2>4 DEF IInv
<1>3. CASE UNCHANGED <<pc, copy, posts>>
  BY <1>3, WaitsAgain
<1>. QED  BY <1>1, <1>2, <1>3 DEF WaitData

(* Sending the data: they are the last on their way to the tracker.        *)
LEMMA SendInitStep ==
    ASSUME IInv, SendInit, UNCHANGED <<unmined, chain, ready, tracked>>,
           UNCHANGED <<disabled, busy, seen, data, runs, faults, strays>>
    PROVE  IInv'
<1>1. CASE ready /\ Throw(posts) /\ UNCHANGED txs
  BY <1>1, AfterThrow DEF IInv, Shape, SendInit, Ended
<1>2. CASE ~ready /\ txs' = Append(txs, copy) /\ Goto("mining") /\ UNCHANGED posts
  <2>1. pc = "sending" /\ pc' = "mining" /\ copy' = copy
    BY <1>2 DEF SendInit, Goto
  <2>2. /\ txs \in Seq(Copies) /\ copy \in Copies
        /\ txs' \in Seq(Copies) /\ Len(txs') = Len(txs) + 1 /\ txs'[Len(txs')] = copy
        /\ \A i \in DOMAIN txs' : i < Len(txs') => i \in DOMAIN txs /\ txs'[i] = txs[i]
    BY <1>2 DEF IInv, Shape
  <2>3. Shape' /\ AskedByRun'
    BY <1>2, <2>1, <2>2 DEF IInv, Shape, Labels, AskedByRun, Answered, Stopped, Quiet, Ended
  <2>4. ASSUME ~strays PROVE Undisturbed'
    <3>1. SwitchesFollow'
      BY <2>1, <2>4 DEF IInv, Undisturbed, SwitchesFollow, Stopped, Quiet
    <3>2. copy.run = runs /\ runs > 0 /\ runs \in Nat /\ \A i \in DOMAIN txs : txs[i].run < runs
      BY <2>1, <2>4 DEF IInv, Shape, Undisturbed, CopyOfRun, Stopped, Quiet, Ended
    <3>3. \A i \in DOMAIN txs' : i < Len(txs') => txs'[i].run < runs
      BY <2>2, <3>2
    <3>4. \A i \in DOMAIN txs' : txs'[i].run <= runs
      <4>. SUFFICES ASSUME NEW i \in DOMAIN txs' PROVE txs'[i].run <= runs
        OBVIOUS
      <4>1. CASE i = Len(txs')
        BY <4>1, <2>2, <3>2
      <4>2. CASE i < Len(txs')
        <5>1. txs'[i] \in Copies /\ txs'[i].run < runs
          BY <4>2, <2>2, <3>3
        <5>2. txs'[i].run \in Nat
          BY <5>1 DEF Copies
        <5>. QED  BY <5>1, <5>2, <3>2
      <4>. QED  BY <4>1, <4>2, <2>2
    <3>5. txs' # <<>>
      BY <2>2
    <3>6. CopyOfRun' /\ RolledBack'
      BY <2>1, <2>2, <3>2, <3>3, <3>4, <3>5 DEF CopyOfRun, RolledBack, Stopped, Quiet, Ended
    <3>. QED  BY <2>1, <2>4, <3>1, <3>6, CopyKept, TrackerKept DEF IInv, Undisturbed
  <2>. QED  BY <2>3, <2>4 DEF IInv
<1>. QED  BY <1>1, <1>2 DEF SendInit

(* The last step of a rollback.                                            *)
LEMMA RollbackTrackerStep ==
    ASSUME IInv, RollbackTracker, UNCHANGED <<unmined, chain, ready, tracked>>,
           UNCHANGED <<disabled, busy, seen, data, runs, faults, strays>>
    PROVE  IInv'
<1>1. pc = "rollbackTracker" /\ pc' = "rolledBack" /\ copy' = copy /\ posts' = posts
  BY DEF RollbackTracker, Goto
<1>2. NoCopy \in Copies /\ NoCopy.run = 0
  BY DEF NoCopy, Copies
<1>3. txs \in Seq(Copies) /\ runs \in Nat
  BY DEF IInv, Shape
<1>4. txs' \in Seq(Copies)
  BY <1>2, <1>3 DEF RollbackTracker
<1>5. Shape' /\ AskedByRun'
  BY <1>1, <1>4 DEF IInv, Shape, Labels, AskedByRun, Answered, Stopped, Quiet, Ended
<1>6. ASSUME ~strays PROVE Undisturbed'
  <2>1. SwitchesFollow'
    BY <1>1, <1>6 DEF IInv, Undisturbed, SwitchesFollow, Stopped, Quiet
  <2>2. \A i \in DOMAIN txs : txs[i].run <= runs
    BY <1>6 DEF IInv, Undisturbed, CopyOfRun
  <2>3. \A i \in DOMAIN txs' : txs'[i].run <= runs
    <3>1. CASE txs' = txs
      BY <3>1, <2>2
    <3>2. CASE txs' = Append(txs, NoCopy)
      <4>. SUFFICES ASSUME NEW i \in DOMAIN txs' PROVE txs'[i].run <= runs
        OBVIOUS
      <4>1. (i \in DOMAIN txs /\ txs'[i] = txs[i]) \/ txs'[i] = NoCopy
        BY <3>2, <1>2, <1>3
      <4>2. CASE txs'[i] = NoCopy
        BY <4>2, <1>2, <1>3
      <4>3. CASE i \in DOMAIN txs /\ txs'[i] = txs[i]
        BY <4>3, <2>2
      <4>. QED  BY <4>1, <4>2, <4>3
    <3>. QED  BY <3>1, <3>2 DEF RollbackTracker
  <2>4. RolledBack'
    BY <1>2, <1>3 DEF RolledBack, RollbackTracker
  <2>5. CopyOfRun'
    BY <1>1, <2>3 DEF CopyOfRun, Stopped, Quiet, Ended
  <2>. QED  BY <1>1, <1>6, <2>1, <2>4, <2>5, CopyKept, TrackerKept DEF IInv, Undisturbed
<1>. QED  BY <1>5, <1>6 DEF IInv

(* Once everything asked for is answered, the switches are as asked.       *)
LEMMA AllAnswered ==
    ASSUME Answered, NEW j \in Jobs
    PROVE  (GoesOff(j) => disabled[j]) /\ (GoesOn(j) => ~disabled[j])
  BY ToggleFields DEF Answered, GoesOff, GoesOn

LEMMA ContinueStep ==
    ASSUME IInv, Continue,
           UNCHANGED <<unmined, chain, ready, tracked, txs>>,
           UNCHANGED <<disabled, busy, seen, data, runs, faults, strays>>
    PROVE  IInv'
<1>0. posts \subseteq Posts
  BY DEF IInv, Shape
<1>1. ASSUME ~strays, copy' = copy, pc' \notin {"sending", "mining"}
      PROVE  CopyIsCurrent' /\ TrackerIsCurrent'
  BY <1>1, CopyKept, TrackerKept DEF IInv, Undisturbed
<1>2. CASE pc = "disabling" /\ Answered /\ Goto("waitJobs") /\ UNCHANGED posts
  <2>1. pc' = "waitJobs" /\ copy' = copy
    BY <1>2 DEF Goto
  <2>2. Shape' /\ AskedByRun'
    BY <1>2, <2>1 DEF IInv, Shape, Labels, AskedByRun, Answered, Stopped
  <2>3. ASSUME ~strays PROVE Undisturbed'
    <3>1. \A j \in Jobs : disabled[j]
      BY <1>2, <2>3, AllAnswered DEF IInv, Undisturbed, SwitchesFollow
    <3>2. SwitchesFollow'
      BY <2>1, <3>1 DEF SwitchesFollow, Stopped, Quiet
    <3>3. CopyOfRun' /\ RolledBack'
      BY <1>2, <2>1, <2>3 DEF IInv, Undisturbed, CopyOfRun, RolledBack, Stopped, Quiet, Ended
    <3>. QED  BY <1>1, <2>1, <2>3, <3>2, <3>3 DEF Undisturbed
  <2>. QED  BY <2>2, <2>3 DEF IInv
<1>3. CASE pc = "sleeping" /\ Goto("waitData") /\ UNCHANGED posts
  <2>1. pc' = "waitData" /\ copy' = copy
    BY <1>3 DEF Goto
  <2>2. Shape' /\ AskedByRun'
    BY <1>3, <2>1 DEF IInv, Shape, Labels, AskedByRun, Answered, Stopped, Quiet
  <2>3. ASSUME ~strays PROVE Undisturbed'
    <3>1. SwitchesFollow'
      BY <1>3, <2>1, <2>3 DEF IInv, Undisturbed, SwitchesFollow, Stopped, Quiet
    <3>2. CopyOfRun' /\ RolledBack'
      BY <1>3, <2>1, <2>3 DEF IInv, Undisturbed, CopyOfRun, RolledBack, Stopped, Quiet, Ended
    <3>. QED  BY <1>1, <2>1, <2>3, <3>1, <3>2 DEF Undisturbed
  <2>. QED  BY <2>2, <2>3 DEF IInv
<1>4. CASE pc = "mining" /\ txs = <<>> /\ posts' = posts \cup Toggles(FALSE) /\ Goto("enabling")
  <2>1. pc' = "enabling" /\ copy' = copy /\ posts' \subseteq Posts
    BY <1>0, <1>4, Toggled DEF Goto
  <2>2. Shape' /\ AskedByRun'
    BY <1>4, <2>1 DEF IInv, Shape, Labels, AskedByRun, Stopped, Quiet, Ended
  <2>3. ASSUME ~strays PROVE Undisturbed'
    <3>1. \A p \in posts : ~p.awaited
      BY <1>4 DEF IInv, AskedByRun, Answered, Stopped, Quiet
    <3>2. AsksOn'
      BY <1>4, <3>1, Toggled DEF AsksOn
    <3>3. \A j \in Jobs : Toggle(j, FALSE) \in posts'
      BY <1>4, Toggled
    <3>4. SwitchesFollow'
      BY <2>1, <3>2, <3>3 DEF SwitchesFollow, GoesOn, Stopped, Quiet
    <3>5. CopyOfRun' /\ RolledBack'
      BY <1>4, <2>1, <2>3 DEF IInv, Undisturbed, CopyOfRun, RolledBack, Stopped, Quiet, Ended
    <3>. QED  BY <1>1, <2>1, <2>3, <3>4, <3>5 DEF Undisturbed
  <2>. QED  BY <2>2, <2>3 DEF IInv
<1>5. CASE pc = "enabling" /\ Answered /\ Goto("done") /\ UNCHANGED posts
  <2>1. pc' = "done" /\ copy' = copy
    BY <1>5 DEF Goto
  <2>2. Shape' /\ AskedByRun'
    BY <1>5, <2>1 DEF IInv, Shape, Labels, AskedByRun, Answered, Ended
  <2>3. ASSUME ~strays PROVE Undisturbed'
    <3>1. \A j \in Jobs : ~disabled[j]
      BY <1>5, <2>3, AllAnswered DEF IInv, Undisturbed, SwitchesFollow
    <3>2. SwitchesFollow'
      BY <2>1, <3>1 DEF SwitchesFollow, Stopped, Quiet
    <3>3. CopyOfRun' /\ RolledBack'
      BY <1>5, <2>1, <2>3 DEF IInv, Undisturbed, CopyOfRun, RolledBack, Stopped, Quiet, Ended
    <3>. QED  BY <1>1, <2>1, <2>3, <3>2, <3>3 DEF Undisturbed
  <2>. QED  BY <2>2, <2>3 DEF IInv
<1>6. CASE pc = "switching" /\ Answered /\ Goto("switched") /\ UNCHANGED posts
  <2>1. pc' = "switched" /\ copy' = copy
    BY <1>6 DEF Goto
  <2>2. Shape' /\ AskedByRun'
    BY <1>6, <2>1 DEF IInv, Shape, Labels, AskedByRun, Answered, Ended
  <2>3. ASSUME ~strays PROVE Undisturbed'
    <3>1. SwitchesFollow'
      BY <2>1 DEF SwitchesFollow, Stopped, Quiet
    <3>2. CopyOfRun' /\ RolledBack'
      BY <1>6, <2>1, <2>3 DEF IInv, Undisturbed, CopyOfRun, RolledBack, Stopped, Quiet, Ended
    <3>. QED  BY <1>1, <2>1, <2>3, <3>1, <3>2 DEF Undisturbed
  <2>. QED  BY <2>2, <2>3 DEF IInv
<1>7. CASE /\ pc = "rollbackOrders" /\ Answered
           /\ posts' = posts \cup {Toggle("liquidations", FALSE)}
           /\ Goto("rollbackLiquidations")
  <2>1. pc' = "rollbackLiquidations" /\ copy' = copy
    BY <1>7 DEF Goto
  <2>2. "orders" \in Jobs /\ "liquidations" \in Jobs
    BY DEF Jobs
  <2>3. posts' \subseteq Posts /\ AsksOn' /\ Toggle("liquidations", FALSE) \in posts'
    BY <1>0, <1>7, <2>2, ToggleFields DEF AsksOn, Answered
  <2>4. Shape' /\ AskedByRun'
    BY <2>1, <2>3 DEF IInv, Shape, Labels, AskedByRun, Stopped, Quiet, Ended
  <2>5. ASSUME ~strays PROVE Undisturbed'
    <3>1. ~disabled["orders"]
      BY <1>7, <2>2, <2>5, AllAnswered DEF IInv, Undisturbed, SwitchesFollow
    <3>2. SwitchesFollow'
      BY <2>1, <2>3, <3>1 DEF SwitchesFollow, GoesOn, Stopped, Quiet
    <3>3. CopyOfRun' /\ RolledBack'
      BY <1>7, <2>1, <2>5 DEF IInv, Undisturbed, CopyOfRun, RolledBack, Stopped, Quiet, Ended
    <3>. QED  BY <1>1, <2>1, <2>5, <3>2, <3>3 DEF Undisturbed
  <2>. QED  BY <2>4, <2>5 DEF IInv
<1>8. CASE pc = "rollbackLiquidations" /\ Answered /\ Goto("rollbackTracker") /\ UNCHANGED posts
  <2>1. pc' = "rollbackTracker" /\ copy' = copy
    BY <1>8 DEF Goto
  <2>2. Shape' /\ AskedByRun'
    BY <1>8, <2>1 DEF IInv, Shape, Labels, AskedByRun, Answered
  <2>3. ASSUME ~strays PROVE Undisturbed'
    <3>1. \A j \in Jobs : ~disabled[j]
      BY <1>8, <2>3, AllAnswered DEF IInv, Undisturbed, SwitchesFollow, Jobs
    <3>2. SwitchesFollow'
      BY <2>1, <3>1 DEF SwitchesFollow, Stopped, Quiet
    <3>3. CopyOfRun' /\ RolledBack'
      BY <1>8, <2>1, <2>3 DEF IInv, Undisturbed, CopyOfRun, RolledBack, Stopped, Quiet, Ended
    <3>. QED  BY <1>1, <2>1, <2>3, <3>2, <3>3 DEF Undisturbed
  <2>. QED  BY <2>2, <2>3 DEF IInv
<1>. QED  BY <1>2, <1>3, <1>4, <1>5, <1>6, <1>7, <1>8 DEF Continue

(* A request takes effect. In a step that does not ask it is a stray.      *)
LEMMA ServeStep == ASSUME IInv, ServePost PROVE IInv'
<1>. SUFFICES ASSUME NEW p \in posts, Serve(p) PROVE IInv'
  BY DEF ServePost
<1>1. /\ p \in Posts /\ p.job \in Jobs /\ p.off \in BOOLEAN /\ p.awaited \in BOOLEAN
      /\ posts' = posts \ {p} /\ disabled \in [Jobs -> BOOLEAN]
      /\ disabled' = [disabled EXCEPT ![p.job] = p.off]
      /\ UNCHANGED <<busy, seen, data, unmined, chain, ready, tracked, txs>>
      /\ UNCHANGED <<pc, copy, runs>>
      /\ strays \in BOOLEAN /\ strays' \in BOOLEAN /\ (~strays' => ~strays /\ p.awaited)
  BY DEF IInv, Shape, Posts, Serve, chainVars, processVars
<1>2. Shape' /\ AskedByRun'
  BY <1>1 DEF IInv, Shape, AskedByRun, Answered
<1>3. ASSUME ~strays' PROVE Undisturbed'
  <2>1. ~strays /\ p.awaited /\ Undisturbed
    BY <1>1, <1>3 DEF IInv
  <2>2. pc \notin Ended \cup Stopped \cup {"rollbackTracker"}
    BY <2>1 DEF IInv, AskedByRun, Answered
  <2>3. ASSUME NEW j \in Jobs, GoesOff(j), p.off PROVE GoesOff(j)'
    BY <1>1, <2>3, ToggleFields DEF GoesOff
  <2>4. ASSUME NEW j \in Jobs, GoesOn(j), ~p.off PROVE GoesOn(j)'
    BY <1>1, <2>4, ToggleFields DEF GoesOn
  <2>5. (AsksOff => AsksOff' /\ p.off) /\ (AsksOn => AsksOn' /\ ~p.off)
    BY <1>1, <2>1 DEF AsksOff, AsksOn
  <2>6. "orders" \in Jobs /\ "liquidations" \in Jobs
    BY DEF Jobs
  <2>7. SwitchesFollow'
    <3>1. CASE pc = "disabling"
      BY <3>1, <1>1, <2>1, <2>3, <2>5 DEF Undisturbed, SwitchesFollow, Stopped, Quiet
    <3>2. CASE pc = "enabling"
      BY <3>2, <1>1, <2>1, <2>4, <2>5 DEF Undisturbed, SwitchesFollow, Stopped, Quiet
    <3>3. CASE pc = "rollbackOrders"
      BY <3>3, <1>1, <2>1, <2>4, <2>5, <2>6 DEF Undisturbed, SwitchesFollow, Stopped, Quiet
    <3>4. CASE pc = "rollbackLiquidations"
      <4>1. AsksOn' /\ ~p.off /\ GoesOn("liquidations")' /\ ~disabled["orders"]
        BY <3>4, <2>1, <2>4, <2>5, <2>6 DEF Undisturbed, SwitchesFollow
      <4>2. ~disabled'["orders"]
        BY <4>1, <1>1, <2>6
      <4>. QED  BY <3>4, <4>1, <4>2, <1>1 DEF SwitchesFollow, Stopped, Quiet
    <3>5. CASE pc = "switching"
      BY <3>5, <1>1 DEF SwitchesFollow, Stopped, Quiet
    <3>. QED  BY <3>1, <3>2, <3>3, <3>4, <3>5, <2>2 DEF IInv, Shape, Labels
  <2>8. CopyOfRun' /\ RolledBack'
    BY <1>1, <2>1 DEF Undisturbed, CopyOfRun, RolledBack
  <2>9. CopyIsCurrent' /\ TrackerIsCurrent'
    BY <1>1, <1>3, <2>1, CopyKept DEF Undisturbed, TrackerIsCurrent, Size, Block
  <2>. QED  BY <2>7, <2>8, <2>9 DEF Undisturbed
<1>. QED  BY <1>2, <1>3 DEF IInv

(* What fails, throws or is killed.                                        *)
LEMMA FaultStep ==
    ASSUME IInv, Fault \/ Kill \/ \E p \in posts : Refuse(p)
    PROVE  IInv'
<1>0. posts \subseteq Posts
  BY DEF IInv, Shape
<1>1. CASE Fault
  BY <1>0, <1>1, AfterThrow DEF Fault, Migrating, Ended, chainVars
<1>2. CASE Kill
  <2>1. /\ pc' = "failed" /\ copy' = copy /\ posts' \subseteq Posts /\ Answered'
        /\ UNCHANGED <<disabled, busy, seen, data, unmined, chain, ready, tracked, txs>>
        /\ UNCHANGED <<runs, strays>>
    BY <1>0, <1>2, AbandonedPosts DEF Kill, Goto, Answered, chainVars
  <2>2. Shape' /\ AskedByRun'
    BY <2>1 DEF IInv, Shape, Labels, Ended, AskedByRun
  <2>3. ASSUME ~strays PROVE Undisturbed'
    <3>1. SwitchesFollow'
      BY <2>1 DEF SwitchesFollow, Stopped, Quiet
    <3>2. CopyOfRun' /\ RolledBack'
      BY <2>1, <2>3 DEF IInv, Undisturbed, CopyOfRun, RolledBack, Stopped, Quiet, Ended
    <3>. QED  BY <2>1, <2>3, <3>1, <3>2, CopyKept, TrackerKept DEF IInv, Undisturbed
  <2>. QED  BY <2>1, <2>2, <2>3 DEF IInv
<1>3. ASSUME NEW p \in posts, Refuse(p) PROVE IInv'
  <2>1. /\ UNCHANGED <<disabled, busy, seen, data, unmined, chain, ready, tracked, txs>>
        /\ UNCHANGED <<runs, strays>>
    BY <1>3 DEF Refuse, chainVars
  <2>2. CASE p.awaited /\ (Throw(posts \ {p}) \/ Throw(posts))
    <3>1. pc \notin Ended
      BY <2>2 DEF IInv, AskedByRun, Answered
    <3>2. posts \ {p} \subseteq Posts
      BY <1>0
    <3>. QED  BY <1>0, <2>1, <2>2, <3>1, <3>2, AfterThrow
  <2>3. CASE ~p.awaited /\ posts' = posts \ {p} /\ UNCHANGED processVars
    <3>1. UNCHANGED <<pc, copy>>
      BY <2>3 DEF processVars
    <3>2. Shape' /\ AskedByRun'
      BY <2>1, <2>3, <3>1 DEF IInv, Shape, AskedByRun, Answered
    <3>3. ASSUME ~strays PROVE Undisturbed'
      <4>1. (AsksOff => AsksOff') /\ (AsksOn => AsksOn')
        BY <2>3 DEF AsksOff, AsksOn
      <4>2. \A j \in Jobs : (GoesOff(j) => GoesOff(j)') /\ (GoesOn(j) => GoesOn(j)')
        BY <2>1, <2>3, ToggleFields DEF GoesOff, GoesOn
      <4>3. SwitchesFollow'
        BY <2>1, <3>1, <3>3, <4>1, <4>2 DEF IInv, Undisturbed, SwitchesFollow, Jobs
      <4>4. CopyOfRun' /\ RolledBack'
        BY <2>1, <3>1, <3>3 DEF IInv, Undisturbed, CopyOfRun, RolledBack
      <4>. QED  BY <2>1, <3>1, <3>3, <4>3, <4>4, CopyKept, TrackerKept DEF IInv, Undisturbed
    <3>. QED  BY <2>1, <3>2, <3>3 DEF IInv
  <2>. QED  BY <1>3, <2>2, <2>3 DEF Refuse
<1>. QED  BY <1>1, <1>2, <1>3

(* A job begins or ends. While the switches are off it cannot begin.       *)
LEMMA WorkStep == ASSUME IInv, NEW j \in Jobs, Work(j) PROVE IInv'
<1>1. /\ UNCHANGED <<disabled, posts, seen, data, chain, ready, tracked, txs>>
      /\ UNCHANGED <<pc, copy, runs, strays>>
      /\ busy \in [Jobs -> BOOLEAN] /\ busy' = [busy EXCEPT ![j] = ~busy[j]]
      /\ unmined \in Nat /\ unmined' \in Nat
      /\ busy[j] \/ (~busy[j] /\ ~disabled[j])
  BY DEF IInv, Shape, Work, processVars
<1>2. Shape' /\ AskedByRun'
  BY <1>1 DEF IInv, Shape, AskedByRun, Answered
<1>3. ASSUME ~strays PROVE Undisturbed'
  <2>1. Undisturbed
    BY <1>3 DEF IInv
  <2>2. pc \notin Quiet
    BY <1>1, <2>1 DEF Undisturbed, SwitchesFollow, Stopped
  <2>3. SwitchesFollow'
    BY <1>1, <2>1, <2>2 DEF Undisturbed, SwitchesFollow, AsksOff, AsksOn, GoesOff, GoesOn
  <2>4. CopyOfRun' /\ RolledBack'
    BY <1>1, <2>1 DEF Undisturbed, CopyOfRun, RolledBack
  <2>5. CopyIsCurrent'
    BY <1>1, <2>2 DEF CopyIsCurrent, Quiet
  <2>. QED  BY <1>1, <2>1, <2>3, <2>4, <2>5, TrackerKept DEF Undisturbed
<1>. QED  BY <1>1, <1>2, <1>3 DEF IInv

(* A trade is mined: a tracker that is ready follows the Vault.            *)
LEMMA MineTradeStep == ASSUME IInv, MineTrade PROVE IInv'
<1>1. /\ unmined \in Nat /\ unmined > 0 /\ unmined' = unmined - 1
      /\ chain \in Seq(Int) /\ chain # <<>> /\ chain' = Append(chain, Size + 1)
      /\ UNCHANGED <<disabled, busy, posts, seen, data, ready, txs>>
      /\ UNCHANGED <<pc, copy, runs, strays>>
  BY DEF IInv, Shape, MineTrade, serverVars, processVars
<1>2. /\ Size \in Int /\ chain' \in Seq(Int) /\ chain' # <<>>
      /\ Len(chain') = Len(chain) + 1 /\ Size' = Size + 1
  BY <1>1 DEF Size, Block
<1>3. /\ tracked \in Copies /\ tracked' \in Copies /\ tracked'.exact = tracked.exact
      /\ ready => tracked'.size = tracked.size + 1
  <2>1. tracked \in Copies /\ ready \in BOOLEAN
    BY DEF IInv, Shape
  <2>2. CASE ready
    <3>1. tracked' = [tracked EXCEPT !.size = tracked.size + 1]
      BY <2>2 DEF MineTrade
    <3>. QED  BY <2>1, <3>1 DEF Copies
  <2>3. CASE ~ready
    BY <2>1, <2>3 DEF MineTrade
  <2>. QED  BY <2>1, <2>2, <2>3
<1>4. Shape' /\ AskedByRun'
  BY <1>1, <1>2, <1>3 DEF IInv, Shape, AskedByRun, Answered
<1>5. ASSUME ~strays PROVE Undisturbed'
  <2>1. Undisturbed
    BY <1>5 DEF IInv
  <2>2. SwitchesFollow'
    BY <1>1, <2>1 DEF Undisturbed, SwitchesFollow, AsksOff, AsksOn, GoesOff, GoesOn
  <2>3. CopyOfRun' /\ RolledBack'
    BY <1>1, <2>1 DEF Undisturbed, CopyOfRun, RolledBack
  <2>4. CopyIsCurrent'
    BY <1>1, <2>1 DEF Undisturbed, CopyIsCurrent
  <2>5. ASSUME ready, tracked.exact PROVE Abs(Size' - tracked'.size) <= Difference
    <3>1. Size' - tracked'.size = Size - tracked.size
      BY <1>2, <1>3, <2>5 DEF Copies
    <3>. QED  BY <1>5, <2>1, <2>5, <3>1 DEF Undisturbed, TrackerIsCurrent
  <2>. QED  BY <1>1, <1>3, <2>2, <2>3, <2>4, <2>5 DEF Undisturbed, TrackerIsCurrent
<1>. QED  BY <1>1, <1>4, <1>5 DEF IInv

LEMMA SyncStep == ASSUME IInv, Sync PROVE IInv'
<1>1. /\ UNCHANGED <<disabled, busy, posts, unmined, chain, ready, tracked, txs>>
      /\ UNCHANGED <<pc, copy, runs, strays>>
  BY DEF Sync, chainVars, processVars
<1>2. seen' \in 1 .. Len(chain) /\ data' \in Int
  BY DEF IInv, Shape, Sync, Block
<1>3. Shape' /\ AskedByRun'
  BY <1>1, <1>2 DEF IInv, Shape, AskedByRun, Answered
<1>4. ASSUME ~strays PROVE Undisturbed'
  <2>1. SwitchesFollow'
    BY <1>1, <1>4 DEF IInv, Undisturbed, SwitchesFollow, AsksOff, AsksOn, GoesOff, GoesOn
  <2>2. CopyOfRun' /\ RolledBack'
    BY <1>1, <1>4 DEF IInv, Undisturbed, CopyOfRun, RolledBack
  <2>. QED  BY <1>1, <1>4, <2>1, <2>2, CopyKept, TrackerKept DEF IInv, Undisturbed
<1>. QED  BY <1>1, <1>3, <1>4 DEF IInv

(* The tracker's transactions, in their order: what it takes over is the   *)
(* copy of the run that waits for it, or a stray.                          *)
LEMMA MineTrackerStep == ASSUME IInv, MineTracker PROVE IInv'
<1> DEFINE tx == Head(txs)
           awaited == tx.run = runs /\ pc = "mining"
           reverts == tx # NoCopy /\ ready
<1>1. /\ txs \in Seq(Copies) /\ txs # <<>> /\ txs' = Tail(txs)
      /\ posts \subseteq Posts /\ ready \in BOOLEAN /\ strays \in BOOLEAN
      /\ tracked \in Copies /\ copy \in Copies /\ runs \in Nat
      /\ ready' = (tx # NoCopy)
      /\ tracked' = IF reverts \/ tx = NoCopy THEN tracked ELSE tx
      /\ strays' = (strays \/ (tx # NoCopy /\ ~reverts /\ ~awaited))
      /\ UNCHANGED <<disabled, busy, seen, data, unmined, chain, runs>>
  BY DEF IInv, Shape, MineTracker
<1>2. /\ tx = txs[1] /\ tx \in Copies /\ 1 \in DOMAIN txs /\ Len(txs) \in Nat \ {0}
      /\ txs' \in Seq(Copies) /\ Len(txs') = Len(txs) - 1
      /\ \A i \in DOMAIN txs' : i + 1 \in DOMAIN txs /\ txs'[i] = txs[i + 1]
  BY <1>1
<1>3. tracked' \in Copies
  BY <1>1, <1>2
<1>4. ASSUME ~strays' PROVE ~strays /\ Undisturbed /\ (tx # NoCopy /\ ~reverts => awaited)
  BY <1>1, <1>4 DEF IInv
<1>5. ASSUME ~strays' PROVE \A i \in DOMAIN txs' : txs'[i].run <= runs
  BY <1>2, <1>4, <1>5 DEF Undisturbed, CopyOfRun
<1>6. ASSUME ~strays', ready, tx # NoCopy PROVE TrackerIsCurrent'
  BY <1>1, <1>4, <1>6 DEF Undisturbed, TrackerIsCurrent, Size, Block
<1>7. CASE reverts /\ awaited
  <2>1. Throw(posts) /\ pc = "mining"
    BY <1>7 DEF MineTracker
  <2>2. /\ pc' \in {"rollbackOrders", "failed"} /\ copy' = copy
        /\ posts' \subseteq Posts
        /\ pc' = "failed" => Answered'
        /\ pc' = "rollbackOrders" => AsksOn' /\ GoesOn("orders")'
    BY <1>1, <2>1, ThrowStep
  <2>3. Shape'
    BY <1>1, <1>2, <1>3, <2>2 DEF IInv, Shape, Labels, Ended
  <2>4. AskedByRun'
    BY <2>2 DEF AskedByRun, Ended, Stopped, Quiet
  <2>5. ASSUME ~strays' PROVE Undisturbed'
    <3>1. SwitchesFollow'
      BY <2>2 DEF SwitchesFollow, Stopped, Quiet
    <3>2. runs > 0
      BY <1>4, <2>1, <2>5 DEF Undisturbed, CopyOfRun, Ended
    <3>3. CopyOfRun'
      BY <1>1, <1>5, <2>2, <2>5, <3>2 DEF CopyOfRun, Stopped, Quiet, Ended
    <3>4. RolledBack' /\ CopyIsCurrent'
      BY <2>2 DEF RolledBack, CopyIsCurrent
    <3>. QED  BY <1>6, <1>7, <2>5, <3>1, <3>3, <3>4 DEF Undisturbed
  <2>. QED  BY <2>3, <2>4, <2>5 DEF IInv
<1>8. CASE ~(reverts /\ awaited)
  <2>1. UNCHANGED <<pc, copy, posts>>
    BY <1>8 DEF MineTracker, processVars
  <2>2. Shape'
    BY <1>1, <1>2, <1>3, <2>1 DEF IInv, Shape
  <2>3. AskedByRun'
    BY <2>1 DEF IInv, AskedByRun, Answered
  <2>4. ASSUME ~strays' PROVE Undisturbed'
    <3>1. ~strays /\ Undisturbed /\ (tx # NoCopy /\ ~reverts => awaited)
      BY <1>4, <2>4
    <3>2. SwitchesFollow'
      BY <1>1, <2>1, <3>1 DEF Undisturbed, SwitchesFollow, AsksOff, AsksOn, GoesOff, GoesOn
    <3>3. pc \notin {"enabling", "done"}
      BY <1>1, <3>1 DEF Undisturbed, CopyOfRun
    <3>4. ASSUME pc = "mining" PROVE CopyOfRun'
      <4>1. /\ copy.run = runs /\ runs > 0 /\ txs[Len(txs)] = copy
            /\ \A i \in DOMAIN txs : i < Len(txs) => txs[i].run < runs
        BY <1>1, <3>1, <3>4 DEF Undisturbed, CopyOfRun, Ended
      <4>2. CASE Len(txs) = 1
        <5>1. tx = copy /\ NoCopy.run = 0
          BY <1>2, <4>1, <4>2 DEF NoCopy
        <5>2. tx # NoCopy
          BY <1>1, <4>1, <5>1
        <5>3. ready' /\ txs' = <<>>
          <6>1. ready'
            <7>1. ready' = (tx # NoCopy)
              BY <1>1
            <7>. HIDE DEF tx
            <7>. QED  BY <7>1, <5>2, Zenon
          <6>2. txs' = <<>>
            BY <1>1, <1>2, <4>2
          <6>. QED  BY <6>1, <6>2
        <5>. QED  BY <1>1, <2>1, <3>4, <4>1, <5>3 DEF CopyOfRun, Stopped, Quiet, Ended
      <4>3. CASE Len(txs) > 1
        <5>1. txs' # <<>> /\ txs'[Len(txs')] = copy
          BY <1>1, <1>2, <4>1, <4>3
        <5>2. \A i \in DOMAIN txs' : i < Len(txs') => txs'[i].run < runs
          BY <1>2, <4>1
        <5>. QED  BY <1>1, <1>5, <2>1, <2>4, <3>4, <4>1, <5>1, <5>2
                  DEF CopyOfRun, Stopped, Quiet, Ended
      <4>. QED  BY <1>2, <4>2, <4>3
    <3>5. ASSUME pc # "mining" PROVE CopyOfRun'
      <4>1. \A i \in DOMAIN txs' : txs'[i].run <= runs
        BY <1>5, <2>4
      <4>2. ASSUME pc \in {"disabling"} \cup (Stopped \ {"mining"})
            PROVE  \A i \in DOMAIN txs' : txs'[i].run < runs
        BY <1>2, <3>1, <4>2 DEF Undisturbed, CopyOfRun
      <4>. QED  BY <1>1, <2>1, <3>1, <3>3, <3>5, <4>1, <4>2 DEF Undisturbed, CopyOfRun
    <3>6. RolledBack'
      <4>. SUFFICES ASSUME pc = "rolledBack" PROVE ~ready' \/ (txs' # <<>> /\ txs'[Len(txs')] = NoCopy)
        BY <2>1 DEF RolledBack
      <4>1. CASE tx = NoCopy
        BY <4>1, <1>1
      <4>2. CASE tx # NoCopy
        <5>1. ready /\ txs[Len(txs)] = NoCopy
          BY <3>1, <4>2 DEF Undisturbed, RolledBack
        <5>2. Len(txs) > 1
          BY <1>2, <4>2, <5>1
        <5>3. txs' # <<>> /\ Len(txs') \in DOMAIN txs' /\ Len(txs') + 1 = Len(txs)
          BY <1>2, <5>2
        <5>. QED  BY <1>2, <5>1, <5>3
      <4>. QED  BY <4>1, <4>2
    <3>7. CopyIsCurrent'
      BY <1>1, <2>1, <3>1, CopyKept DEF Undisturbed
    <3>8. TrackerIsCurrent'
      <4>1. CASE tx = NoCopy
        BY <4>1, <1>1 DEF TrackerIsCurrent
      <4>2. CASE tx # NoCopy /\ ready
        BY <4>2, <1>6, <2>4
      <4>3. CASE tx # NoCopy /\ ~ready
        <5>1. pc = "mining" /\ tx.run = runs /\ tracked' = tx
          BY <1>1, <3>1, <4>3
        <5>2. txs[Len(txs)] = copy /\ \A i \in DOMAIN txs : i < Len(txs) => txs[i].run < runs
          BY <1>1, <3>1, <5>1 DEF Undisturbed, CopyOfRun
        <5>3. Len(txs) = 1
          BY <1>1, <1>2, <5>1, <5>2
        <5>4. tracked' = copy
          BY <1>2, <5>1, <5>2, <5>3
        <5>5. copy.exact => Close(copy.size)
          BY <3>1, <5>1 DEF Undisturbed, CopyIsCurrent
        <5>. QED  BY <1>1, <5>4, <5>5 DEF TrackerIsCurrent, Close, Size, Block
      <4>. QED  BY <4>1, <4>2, <4>3, <1>1
    <3>. QED  BY <3>2, <3>4, <3>5, <3>6, <3>7, <3>8 DEF Undisturbed
  <2>. QED  BY <2>2, <2>3, <2>4 DEF IInv
<1>. QED  BY <1>7, <1>8

LEMMA NextIInv == ASSUME IInv, [Next]_vars PROVE IInv'
<1>1. CASE Run
  BY <1>1, RunStep
<1>2. CASE Process
  BY <1>2, WaitDataStep, SendInitStep, RollbackTrackerStep, WaitJobsStep, ContinueStep
     DEF Process, chainVars
<1>3. CASE Environment
  BY <1>3, ServeStep, FaultStep, MineTradeStep, MineTrackerStep, SyncStep, WorkStep
     DEF Environment
<1>4. CASE UNCHANGED vars
  BY <1>4, WaitsAgain DEF vars, serverVars, chainVars, processVars
<1>. QED  BY <1>1, <1>2, <1>3, <1>4 DEF Next

LEMMA SpecIInv == Spec => []IInv
  BY InitIInv, NextIInv, PTL DEF Spec

-----------------------------------------------------------------------------
(* A tracker that a migration made ready, from data read while nothing was *)
(* on its way, is as close to the Vault as the check asks for, for any lag *)
(* of the server and however often runs fail or are repeated.              *)
THEOREM ReadyIsCurrent == Spec => []TrackerIsCurrent
<1>1. IInv => TrackerIsCurrent
  <2>. SUFFICES ASSUME IInv, ~strays PROVE TrackerIsCurrent
    BY DEF TrackerIsCurrent
  <2>. QED  BY DEF IInv, Undisturbed
<1>. QED  BY <1>1, SpecIInv, PTL

(* Once everything it sent has taken effect, a migration that ended leaves *)
(* the tracker ready, a rollback leaves it switched off, and both leave    *)
(* the jobs switched on.                                                   *)
THEOREM RunsEndCleanly == Spec => []EndsCleanly
<1>1. IInv => EndsCleanly
  <2>. SUFFICES ASSUME IInv, ~strays, posts = {}, txs = <<>>
                PROVE  /\ pc \in {"done", "rolledBack"} => \A j \in Jobs : ~disabled[j]
                       /\ pc = "done" => ready
                       /\ pc = "rolledBack" => ~ready
    BY DEF EndsCleanly
  <2>1. Undisturbed
    BY DEF IInv
  <2>2. pc \in {"done", "rolledBack"} => \A j \in Jobs : ~disabled[j]
    BY <2>1 DEF Undisturbed, SwitchesFollow
  <2>3. (pc = "done" => ready) /\ (pc = "rolledBack" => ~ready)
    BY <2>1 DEF Undisturbed, CopyOfRun, RolledBack
  <2>. QED  BY <2>2, <2>3
<1>. QED  BY <1>1, SpecIInv, PTL
=============================================================================
