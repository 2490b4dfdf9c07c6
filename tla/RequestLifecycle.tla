--------------------------- MODULE RequestLifecycle ---------------------------
(***************************************************************************)
(* What the position router promises about a request, whatever happens to  *)
(* the queue that holds it: its number is used once, in order, and once it *)
(* has been executed or cancelled it is never pending again.               *)
(***************************************************************************)
EXTENDS Integers

CONSTANTS Kind, Accounts, MaxRequests

VARIABLE phase

Id == Kind \X Accounts \X (1..MaxRequests)
Phases == {"unused", "pending", "settled"}

TypeOK == phase \in [Id -> Phases]

Init == phase = [id \in Id |-> "unused"]

Create(id) ==
    /\ phase[id] = "unused"
    /\ \A earlier \in Id :
          earlier[1] = id[1] /\ earlier[2] = id[2] /\ earlier[3] < id[3]
             => phase[earlier] # "unused"
    /\ phase' = [phase EXCEPT ![id] = "pending"]

(* One call may settle many requests, each at most once.                   *)
Settle(ids) ==
    /\ \A id \in ids : phase[id] = "pending"
    /\ phase' = [id \in Id |-> IF id \in ids THEN "settled" ELSE phase[id]]

Next == (\E id \in Id : Create(id)) \/ (\E ids \in SUBSET Id : Settle(ids))

Spec == Init /\ [][Next]_phase
=============================================================================
