-------------------------------- MODULE Fleet --------------------------------
(***************************************************************************)
(* Assignments, maintenance and trips on one database; a trip's number is  *)
(* that of its organization.                                               *)
(* Each component is the module of its own; what the other modules assume  *)
(* about their environment is here what the other components do:           *)
(*   - vehicles.status is written by maintenance as well as by hand, and   *)
(*     read by assignments, by maintenance and by trips;                   *)
(*   - trips read the active assignments that VehicleAssignments writes.   *)
(*                                                                         *)
(* The callers are one pool: a request is in one handler at a time.        *)
(***************************************************************************)
EXTENDS VehicleAssignments

CONSTANTS
    Records,        \* bound: the maintenance records a behaviour may create
    TripNumbers,    \* bound: the trips a behaviour may create, by their number
    Schedules,      \* the <<start, end>> schedules callers ask for
    MaxEvents       \* bound: the events one record or one trip may collect

(* Maintenance writes the statuses a vehicle may be given by hand.         *)
ASSUME FleetAssumption ==
    /\ {"ACTIVE", "IN_MAINTENANCE"} \subseteq VehicleInputs
    /\ Schedules \subseteq Nat \X Nat
    /\ MaxEvents \in Nat \ {0}
    /\ None \notin Nat \cup Records \cup TripNumbers \cup Schedules
                       \cup VehicleStatus \cup MaintenanceStatus \cup TripStatus

VARIABLES
    records,                \* the maintenance tables
    maintenanceEvents,
    maintenanceAnnounced,
    maintenanceReq,         \* the handlers in flight of MaintenanceService
    trips,                  \* the trip tables
    tripEvents,
    tripAnnounced,
    tripReq                 \* and those of TripService

M == INSTANCE Maintenance WITH
        events <- maintenanceEvents,
        announced <- maintenanceAnnounced,
        req <- maintenanceReq

T == INSTANCE Trips WITH
        active <- Pairs,
        events <- tripEvents,
        announced <- tripAnnounced,
        req <- tripReq

ASSUME NoneIsNoOtherRow == None \notin M!Row \cup T!Row

assignmentVars == <<driverStatus, assignments, req>>
maintenanceVars == <<records, maintenanceEvents, maintenanceAnnounced, maintenanceReq>>
tripVars == <<trips, tripEvents, tripAnnounced, tripReq>>

fleetVars == <<vehicleStatus, assignmentVars, maintenanceVars, tripVars>>

-----------------------------------------------------------------------------
FleetInit == Init /\ M!Init /\ T!Init

(* assignVehicleToDriver, endAssignment, and the statuses set by hand.     *)
AssignmentStep(r) ==
    /\ maintenanceReq[r].pc = "idle"
    /\ tripReq[r].pc = "idle"
    /\ Arrival(r) \/ Step(r) \/ Abort(r)
    /\ UNCHANGED <<maintenanceVars, tripVars>>

(* schedule, start, complete and cancel a maintenance.                     *)
MaintenanceStep(r) ==
    /\ req[r].pc = "idle"
    /\ tripReq[r].pc = "idle"
    /\ UNCHANGED <<assignmentVars, tripVars>>
    /\ \/ \E m \in Records, v \in Vehicles : M!ScheduleMaintenance(r, m, v)
       \/ \E m \in Records, target \in MaintenanceStatus : M!ReadRecord(r, m, target)
       \/ M!Step(r)
       \/ M!Abort(r)

(* create, dispatch, start, complete and cancel a trip.                    *)
TripStep(r) ==
    /\ req[r].pc = "idle"
    /\ maintenanceReq[r].pc = "idle"
    /\ UNCHANGED <<vehicleStatus, assignmentVars, maintenanceVars>>
    /\ \/ \E n \in TripNumbers, v \in Vehicles, d \in Drivers, s \in Schedules :
             T!CreateReadVehicle(r, n, v, d, s)
       \/ \E n \in TripNumbers, target \in TripStatus : T!TransitionArrive(r, n, target)
       \/ T!Step(r)
       \/ T!Abort(r)

FleetNext == \E r \in Requests : AssignmentStep(r) \/ MaintenanceStep(r) \/ TripStep(r)

FleetSpec == FleetInit /\ [][FleetNext]_fleetVars

-----------------------------------------------------------------------------
(***************************************************************************)
(* Properties.                                                             *)
(***************************************************************************)

WasAssigned(v, d) ==
    \E a \in Created : assignments[a].vehicleId = v /\ assignments[a].driverId = d

(* createTrip looks for the assignment three calls before it inserts, and   *)
(* the assignment may end in between: still there is no trip of a vehicle   *)
(* and a driver that the assignments table has never brought together.      *)
TripsFollowAssignments ==
    \A n \in T!Existing : WasAssigned(trips[n].vehicleId, trips[n].driverId)

(* Each component is, among the others, what its own module specifies: the  *)
(* others do to the vehicle status and to the assignments only what that    *)
(* module lets its environment do.  So what holds of a module holds here.   *)
ImplementsComponents == Spec /\ M!Spec /\ T!Spec
=============================================================================
