------------------------------ MODULE MCTrips ------------------------------
(***************************************************************************)
(* Small instances of Trips for TLC.  Some rules hold however requests     *)
(* interleave, others only while callers take turns; MCSpec has behaviours *)
(* of both kinds, told apart by the constant variable serial.              *)
(***************************************************************************)
EXTENDS Trips, TLC

CONSTANT
    MaxInterleaved      \* bound: the trips that interleaved requests are about

VARIABLE serial         \* whether the callers of this behaviour take turns

InFlight == {r \in Requests : req[r].pc # "idle"}

(* At most one request is in flight.                                       *)
InTurn == \A r, q \in InFlight : r = q

TripsInUse == Existing \cup {req[r].trip : r \in InFlight}

MCInit == Init /\ serial \in BOOLEAN

MCNext ==
    /\ Next
    /\ UNCHANGED serial
    /\ IF serial
       THEN InTurn'
       ELSE Cardinality(TripsInUse') <= MaxInterleaved

MCSpec == MCInit /\ [][MCNext]_<<vars, serial>>

(* While callers take turns, createTrip's two overlap checks are enough: no *)
(* two active trips of a vehicle, and none of a driver, overlap.            *)
NoOverlapInTurn == serial => NoOverlap

(* While callers take turns, a status moves along the arrows of the         *)
(* lifecycle only, whatever status the transaction overwrites.              *)
LifecycleInTurn == [][serial => LifecycleStep]_<<vars, serial>>

Symmetry == Permutations(TripNumbers) \cup Permutations(Requests)
                \cup Permutations(Vehicles) \cup Permutations(Drivers)

(* Two schedules that overlap and one that is refused.                      *)
SchedulesDef == {<<0, 2>>, <<1, 3>>, <<1, 1>>}
OverlappingDef == {<<0, 2>>, <<1, 3>>}
OneScheduleDef == {<<0, 1>>, <<1, 1>>}
=============================================================================
