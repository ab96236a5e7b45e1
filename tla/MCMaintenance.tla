--------------------------- MODULE MCMaintenance ---------------------------
(***************************************************************************)
(* Small instances of Maintenance for TLC.  Some rules hold however        *)
(* requests interleave, others only while callers take turns; MCSpec has   *)
(* behaviours of both kinds, told apart by the constant variable serial.   *)
(***************************************************************************)
EXTENDS Maintenance, TLC

VARIABLE serial         \* whether the callers of this behaviour take turns

(* At most one request is in flight.                                       *)
InTurn == \A r, q \in Requests : req[r].pc # "idle" /\ req[q].pc # "idle" => r = q

MCInit == Init /\ serial \in BOOLEAN

MCNext ==
    /\ Next
    /\ UNCHANGED serial
    /\ serial => InTurn'

MCSpec == MCInit /\ [][MCNext]_<<vars, serial>>

MCFairSpec == MCSpec /\ Fairness

(* While callers take turns, a vehicle is IN_MAINTENANCE only while a       *)
(* record of it is in progress: no transition, completion or cancellation   *)
(* leaves it behind.                                                        *)
NoStrandedInTurn == serial => NoStrandedVehicle

(* While callers take turns, a status moves along the arrows of the         *)
(* lifecycle only, whatever status the transaction overwrites.              *)
LifecycleInTurn == [][serial => LifecycleStep]_<<vars, serial>>

(* While callers take turns, no transition takes a vehicle out of           *)
(* IN_MAINTENANCE while one of its records is in progress.                  *)
WorkedOnInTurn == [][serial => WorkedOnStep]_<<vars, serial>>

Symmetry == Permutations(Records) \cup Permutations(Requests)
                \cup Permutations(Vehicles)
=============================================================================
