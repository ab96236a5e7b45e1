------------------------- MODULE VehicleAssignments -------------------------
(***************************************************************************)
(* VehicleAssignmentService: assign a vehicle to a driver, end the         *)
(* assignment.  Every await of a handler is a separate database call, so a *)
(* request advances one call at a time and other requests run in between.  *)
(* The partial unique indexes on the active rows (ended_at IS NULL) are    *)
(* evaluated by the database inside the INSERT and the UPDATE.             *)
(*                                                                         *)
(* A check that fails answers 400, 404 or 409 and changes no state: the    *)
(* request goes back to "idle".  The status checks made after both rows    *)
(* are read only look at the values read, so each is a guard of its read.  *)
(***************************************************************************)
EXTENDS FleetConstants, FiniteSets

CONSTANTS
    Organizations,
    Vehicles,
    Drivers,
    OrgOf,          \* the organization a vehicle or a driver belongs to
    AssignmentIds,  \* bound: the assignment rows a behaviour may create
    Requests,       \* bound: the requests that can be in flight together
    VehicleInputs,  \* bound: the statuses a request may set on a vehicle
    DriverInputs,   \* bound: the statuses a request may set on a driver
    None

ASSUME AssignmentsAssumption ==
    /\ OrgOf \in [Vehicles \cup Drivers -> Organizations]
    /\ VehicleInputs \subseteq VehicleStatus
    /\ DriverInputs \subseteq DriverStatus
    /\ None \notin Vehicles \cup Drivers \cup Organizations \cup AssignmentIds

VARIABLES
    vehicleStatus,  \* vehicles.status
    driverStatus,   \* drivers.status
    assignments,    \* the vehicle_assignments table, None where no row exists
    req             \* the handlers in flight: program counter and locals

vars == <<vehicleStatus, driverStatus, assignments, req>>

-----------------------------------------------------------------------------
(***************************************************************************)
(* Rows and requests.  "endings" counts the writes of ended_at, so ended_at*)
(* IS NULL is endings = 0 and a second write of it is visible.             *)
(***************************************************************************)
Row == [organizationId : Organizations, vehicleId : Vehicles,
        driverId : Drivers, endings : Nat]

ASSUME NoneIsNoRow == None \notin Row

Steps == {"idle", "readDriver", "findByVehicle", "findByDriver", "create", "end"}

Request ==
    [pc : Steps,
     organizationId : Organizations \cup {None},
     vehicleId : Vehicles \cup {None},
     driverId : Drivers \cup {None},
     assignmentId : AssignmentIds \cup {None}]

Idle == [pc |-> "idle", organizationId |-> None, vehicleId |-> None,
         driverId |-> None, assignmentId |-> None]

Created == {a \in AssignmentIds : assignments[a] # None}
Active == {a \in Created : assignments[a].endings = 0}

ActiveOfVehicle(v) == {a \in Active : assignments[a].vehicleId = v}
ActiveOfDriver(d) == {a \in Active : assignments[a].driverId = d}

(* A request in flight that may still insert a row. *)
Assigning(r) == req[r].pc \in {"readDriver", "findByVehicle", "findByDriver", "create"}

(* Bound: a request is taken only while a row id is left for it. *)
RowLeft ==
    Cardinality({r \in Requests : Assigning(r)})
        < Cardinality(AssignmentIds \ Created)

(* Plausible fault: requireById in place of requireInOrganization. *)
InAnyOrganization(id, o) == TRUE

(* requireInOrganization: the row is looked up by id and organization. *)
InOrganization(id, o) == OrgOf[id] = o

Respond(r) == req' = [req EXCEPT ![r] = Idle]
GoTo(r, pc) == req' = [req EXCEPT ![r].pc = pc]

-----------------------------------------------------------------------------
Init ==
    /\ vehicleStatus \in [Vehicles -> {"ACTIVE"}]
    /\ driverStatus \in [Drivers -> {"ACTIVE"}]
    /\ assignments = [a \in AssignmentIds |-> None]
    /\ req = [r \in Requests |-> Idle]

(* assignVehicleToDriver: the vehicle is read in the caller's organization. *)
AssignReadVehicle(r, o, v, d) ==
    /\ req[r].pc = "idle"
    /\ RowLeft
    /\ InOrganization(v, o)
    /\ isVehicleAssignable(vehicleStatus[v])
    /\ req' = [req EXCEPT ![r] =
                 [pc |-> "readDriver", organizationId |-> o, vehicleId |-> v,
                  driverId |-> d, assignmentId |-> None]]
    /\ UNCHANGED <<vehicleStatus, driverStatus, assignments>>

(* The driver is read in the same organization. *)
AssignReadDriver(r) ==
    /\ req[r].pc = "readDriver"
    /\ IF /\ InOrganization(req[r].driverId, req[r].organizationId)
          /\ isDriverAssignable(driverStatus[req[r].driverId])
       THEN GoTo(r, "findByVehicle")
       ELSE Respond(r)
    /\ UNCHANGED <<vehicleStatus, driverStatus, assignments>>

(* findActiveByVehicleId: 409 when the vehicle has an active assignment. *)
AssignFindByVehicle(r) ==
    /\ req[r].pc = "findByVehicle"
    /\ IF ActiveOfVehicle(req[r].vehicleId) = {}
       THEN GoTo(r, "findByDriver")
       ELSE Respond(r)
    /\ UNCHANGED <<vehicleStatus, driverStatus, assignments>>

(* findActiveByDriverId: 409 when the driver has an active assignment. *)
AssignFindByDriver(r) ==
    /\ req[r].pc = "findByDriver"
    /\ IF ActiveOfDriver(req[r].driverId) = {}
       THEN GoTo(r, "create")
       ELSE Respond(r)
    /\ UNCHANGED <<vehicleStatus, driverStatus, assignments>>

(* Plausible faults: one of the two indexes is missing. *)
UniqueActiveVehicle(v, d) == ActiveOfVehicle(v) = {}
UniqueActiveDriver(v, d) == ActiveOfDriver(d) = {}

(* The two partial unique indexes of the table. *)
UniqueActive(v, d) == ActiveOfVehicle(v) = {} /\ ActiveOfDriver(d) = {}

(* Plausible fault: the two ids change places. *)
NewRowSwapped(r) ==
    [organizationId |-> req[r].organizationId, vehicleId |-> req[r].driverId,
     driverId |-> req[r].vehicleId, endings |-> 0]

NewRow(r) ==
    [organizationId |-> req[r].organizationId, vehicleId |-> req[r].vehicleId,
     driverId |-> req[r].driverId, endings |-> 0]

(* INSERT: a unique violation (P2002) is mapped to 409, any row id is free. *)
AssignCreate(r) ==
    /\ req[r].pc = "create"
    /\ \/ /\ UniqueActive(req[r].vehicleId, req[r].driverId)
          /\ \E a \in AssignmentIds \ Created :
                assignments' = [assignments EXCEPT ![a] = NewRow(r)]
       \/ /\ ~UniqueActive(req[r].vehicleId, req[r].driverId)
          /\ UNCHANGED assignments
    /\ Respond(r)
    /\ UNCHANGED <<vehicleStatus, driverStatus>>

(* endAssignment: the row is read and refused when it has already ended. *)
EndRead(r, a) ==
    /\ req[r].pc = "idle"
    /\ a \in Active
    /\ req' = [req EXCEPT ![r] =
                 [Idle EXCEPT !.pc = "end", !.assignmentId = a,
                              !.organizationId = assignments[a].organizationId]]
    /\ UNCHANGED <<vehicleStatus, driverStatus, assignments>>

(* UPDATE by id: nothing re-checks ended_at. *)
EndWrite(r) ==
    /\ req[r].pc = "end"
    /\ assignments' = [assignments EXCEPT ![req[r].assignmentId].endings = @ + 1]
    /\ Respond(r)
    /\ UNCHANGED <<vehicleStatus, driverStatus>>

(***************************************************************************)
(* updateVehicleStatus and updateDriverStatus: a read that only skips an   *)
(* equal status, then an UPDATE by id.  Writing an equal status changes    *)
(* nothing, so the two calls are one step.  Maintenance writes the vehicle *)
(* status too: any status may be written at any time.                      *)
(***************************************************************************)
UpdateVehicleStatus(r, v, status) ==
    /\ req[r].pc = "idle"
    /\ vehicleStatus[v] # status
    /\ vehicleStatus' = [vehicleStatus EXCEPT ![v] = status]
    /\ UNCHANGED <<driverStatus, assignments, req>>

UpdateDriverStatus(r, d, status) ==
    /\ req[r].pc = "idle"
    /\ driverStatus[d] # status
    /\ driverStatus' = [driverStatus EXCEPT ![d] = status]
    /\ UNCHANGED <<vehicleStatus, assignments, req>>

(* The process dies or the connection is lost: the locals are gone. *)
Abort(r) ==
    /\ req[r].pc # "idle"
    /\ Respond(r)
    /\ UNCHANGED <<vehicleStatus, driverStatus, assignments>>

Step(r) ==
    \/ AssignReadDriver(r)
    \/ AssignFindByVehicle(r)
    \/ AssignFindByDriver(r)
    \/ AssignCreate(r)
    \/ EndWrite(r)

Arrival(r) ==
    \/ \E o \in Organizations, v \in Vehicles, d \in Drivers :
          AssignReadVehicle(r, o, v, d)
    \/ \E a \in AssignmentIds : EndRead(r, a)
    \/ \E v \in Vehicles, s \in VehicleInputs : UpdateVehicleStatus(r, v, s)
    \/ \E d \in Drivers, s \in DriverInputs : UpdateDriverStatus(r, d, s)

Next == \E r \in Requests : Arrival(r) \/ Step(r) \/ Abort(r)

Spec == Init /\ [][Next]_vars

-----------------------------------------------------------------------------
(***************************************************************************)
(* Properties.                                                             *)
(***************************************************************************)

(* Every variable, row and request local has its type. *)
TypeOK ==
    /\ vehicleStatus \in [Vehicles -> VehicleStatus]
    /\ driverStatus \in [Drivers -> DriverStatus]
    /\ assignments \in [AssignmentIds -> Row \cup {None}]
    /\ req \in [Requests -> Request]

(* However the checks of concurrent assignVehicleToDriver calls interleave, *)
(* a vehicle has one active assignment at most and so has a driver.         *)
OneActivePerVehicleAndDriver ==
    \A a, b \in Active :
        \/ assignments[a].vehicleId = assignments[b].vehicleId
        \/ assignments[a].driverId = assignments[b].driverId
        => a = b

(* A row only ever joins a vehicle and a driver of its own organization. *)
TenantIsolation ==
    \A a \in Created :
        /\ OrgOf[assignments[a].vehicleId] = assignments[a].organizationId
        /\ OrgOf[assignments[a].driverId] = assignments[a].organizationId

(* The pairs the table says are active.                                     *)
Pairs == {<<assignments[a].vehicleId, assignments[a].driverId>> : a \in Active}

(* The requests implement the atomic book of assignments: each step of a    *)
(* request enters or removes one pair, or leaves the book unchanged.        *)
Book == INSTANCE AssignmentBook WITH active <- Pairs

ImplementsBook == Book!Spec
=============================================================================
