------------------------------ MODULE MCFleet ------------------------------
(***************************************************************************)
(* A small instance of Fleet for TLC, with behaviours of two kinds, told   *)
(* apart by the constant variable alone: those of assignments alone, over  *)
(* all vehicles and drivers, and those of the three components together,   *)
(* over one vehicle.                                                       *)
(***************************************************************************)
EXTENDS Fleet, TLC

CONSTANTS o1, o2, v1, v2, d1, d2, d3

VARIABLE alone          \* whether maintenance and trips are at rest

(* Two vehicles and two drivers of o1, one driver of o2. *)
OrgOfDef == v1 :> o1 @@ v2 :> o1 @@ d1 :> o1 @@ d2 :> o1 @@ d3 :> o2

OneScheduleDef == {<<0, 1>>}

(* Bound: the vehicle and, in behaviours of assignments alone, the driver    *)
(* whose statuses change.                                                    *)
StatusChanges ==
    /\ \A v \in Vehicles \ {v1} : vehicleStatus[v] = "ACTIVE"
    /\ \A d \in Drivers \ {d1} : driverStatus[d] = "ACTIVE"
    /\ ~alone => driverStatus[d1] = "ACTIVE"

VehiclesInUse ==
    {assignments[a].vehicleId : a \in Created}
        \cup {trips[n].vehicleId : n \in T!Existing}
        \cup {records[m].vehicleId : m \in M!Existing}
        \cup {req[r].vehicleId : r \in Requests}
        \cup {tripReq[r].vehicleId : r \in Requests}

DriversInUse ==
    {assignments[a].driverId : a \in Created}
        \cup {req[r].driverId : r \in Requests}
        \cup {tripReq[r].driverId : r \in Requests}

(* Bound: the three together are about one vehicle, two drivers of its     *)
(* organization and two assignments.                                       *)
Together ==
    /\ VehiclesInUse \subseteq {v1, None}
    /\ DriversInUse \subseteq {d1, d2, None}
    /\ Cardinality(Created) + Cardinality({r \in Requests : Assigning(r)}) <= 2

MCInit == FleetInit /\ alone \in BOOLEAN

MCNext ==
    /\ UNCHANGED alone
    /\ \/ alone /\ \E r \in Requests : AssignmentStep(r)
       \/ ~alone /\ FleetNext /\ Together'
    /\ StatusChanges'

MCSpec == MCInit /\ [][MCNext]_<<fleetVars, alone>>

Symmetry == Permutations(AssignmentIds) \cup Permutations(Requests)
=============================================================================
