---------------------------- MODULE Fleet_proofs ----------------------------
(***************************************************************************)
(* Proofs about Fleet: assignments, maintenance and trips, run together on *)
(* one database, implement the three specifications that describe each of  *)
(* them alone in an environment.                                           *)
(***************************************************************************)
EXTENDS Fleet, VehicleAssignments_proofs

(* A status is set by hand by a request that maintenance or trips could     *)
(* have served.                                                             *)
ByHand(r) == \E v \in Vehicles, s \in VehicleInputs : UpdateVehicleStatus(r, v, s)

(* No other step of an assignment request writes a vehicle's status. *)
LEMMA AssignmentWrites ==
    ASSUME NEW r \in Requests, Arrival(r) \/ Step(r) \/ Abort(r)
    PROVE  vehicleStatus' = vehicleStatus \/ ByHand(r)
BY DEF Arrival, Step, Abort, ByHand, AssignReadVehicle, AssignReadDriver,
       AssignFindByVehicle, AssignFindByDriver, AssignCreate, EndRead, EndWrite,
       UpdateDriverStatus

-----------------------------------------------------------------------------
(***************************************************************************)
(* Maintenance, among the others.                                          *)
(***************************************************************************)

(* For maintenance the steps of assignments are stutters or statuses set by *)
(* hand, and those of trips are stutters.                                   *)
LEMMA MaintenanceMapped == [FleetNext]_fleetVars => [M!Next]_(M!vars)
<1> SUFFICES ASSUME [FleetNext]_fleetVars PROVE [M!Next]_(M!vars)
  OBVIOUS
<1> USE DEF M!vars
<1>1. CASE UNCHANGED fleetVars
  BY <1>1 DEF fleetVars, maintenanceVars
<1>2. ASSUME NEW r \in Requests, AssignmentStep(r) PROVE [M!Next]_(M!vars)
  <2>1. /\ maintenanceReq[r].pc = "idle"
        /\ UNCHANGED <<records, maintenanceEvents, maintenanceAnnounced, maintenanceReq>>
        /\ vehicleStatus' = vehicleStatus \/ ByHand(r)
    BY <1>2, AssignmentWrites DEF AssignmentStep, maintenanceVars
  <2>2. CASE ByHand(r)
    <3>1. PICK v \in Vehicles, s \in VehicleInputs : UpdateVehicleStatus(r, v, s)
      BY <2>2 DEF ByHand
    <3>2. M!UpdateVehicleStatus(r, v, s)
      BY <2>1, <3>1 DEF UpdateVehicleStatus, M!UpdateVehicleStatus
    <3>3. QED
      BY <3>2 DEF M!Next, M!Arrival
  <2>3. QED
    BY <2>1, <2>2
<1>3. ASSUME NEW r \in Requests, MaintenanceStep(r) PROVE M!Next
  BY <1>3 DEF MaintenanceStep, M!Next, M!Arrival, MaintenanceStatus, M!MaintenanceStatus
<1>4. ASSUME NEW r \in Requests, TripStep(r) PROVE UNCHANGED M!vars
  BY <1>4 DEF TripStep, maintenanceVars
<1>5. QED
  BY <1>1, <1>2, <1>3, <1>4 DEF FleetNext

(* Assignments and trips leave maintenance what its own module says it is. *)
THEOREM MaintenanceImplemented == FleetSpec => M!Spec
<1>1. FleetInit => M!Init
  BY DEF FleetInit
<1>2. QED
  BY <1>1, MaintenanceMapped, PTL DEF FleetSpec, M!Spec

(* A maintenance request works on a record that exists, towards a status,   *)
(* and sets no vehicle to a status but two.                                 *)
HandledOK(q, existing) ==
    /\ q \in M!Request
    /\ q.pc # "idle" => q.record \in existing /\ q.target \in MaintenanceStatus
    /\ q.setVehicle \in {None, "ACTIVE", "IN_MAINTENANCE"}

(* Enough of the types to know what maintenance can write to a vehicle.     *)
MaintenanceInv ==
    /\ vehicleStatus \in [Vehicles -> VehicleStatus]
    /\ records \in [Records -> M!Row \cup {None}]
    /\ maintenanceReq \in [Requests -> M!Request]
    /\ \A r \in Requests : HandledOK(maintenanceReq[r], M!Existing)

(* The enumerations of the constants module are the same in every instance. *)
LEMMA SameConstants ==
    /\ M!VehicleStatus = VehicleStatus /\ T!VehicleStatus = VehicleStatus
    /\ M!MaintenanceStatus = MaintenanceStatus
    /\ T!TripStatus = TripStatus
BY DEF VehicleStatus, M!VehicleStatus, T!VehicleStatus, MaintenanceStatus,
       M!MaintenanceStatus, TripStatus, T!TripStatus

(* A request that has been answered works on nothing. *)
LEMMA IdleHandled == \A existing : HandledOK(M!Idle, existing)
BY DEF HandledOK, M!Idle, M!Request, M!Steps

(* A request that answers, or goes on to its next statement. *)
LEMMA MaintenanceMoves ==
    ASSUME MaintenanceInv, NEW r \in Requests, NEW q,
           maintenanceReq' = [maintenanceReq EXCEPT ![r] = q],
           vehicleStatus' \in [Vehicles -> VehicleStatus],
           records' \in [Records -> M!Row \cup {None}],
           M!Existing \subseteq M!Existing',
           HandledOK(q, M!Existing)
    PROVE  MaintenanceInv'
<1>1. /\ maintenanceReq' \in [Requests -> M!Request]
      /\ \A p \in Requests : maintenanceReq'[p] = IF p = r THEN q ELSE maintenanceReq[p]
  BY DEF MaintenanceInv, HandledOK
<1>2. ASSUME NEW p \in Requests PROVE HandledOK(maintenanceReq'[p], M!Existing')
  BY <1>1 DEF MaintenanceInv, HandledOK
<1>3. QED
  BY <1>1, <1>2 DEF MaintenanceInv

(* The steps inside a transaction write the request alone. *)
LEMMA MaintenanceStatements ==
    ASSUME MaintenanceInv, NEW r \in Requests,
           M!TxUpdate(r) \/ M!TxIndex(r) \/ M!TxCount(r) \/ M!TxReadVehicle(r)
                \/ M!Announce(r) \/ M!Abort(r)
    PROVE  MaintenanceInv'
<1> DEFINE q == maintenanceReq[r]
           moved == {M!Idle} \cup {[q EXCEPT !.pc = pc] : pc \in M!Steps}
                       \cup {[q EXCEPT !.pc = "commit", !.setVehicle = s] :
                                s \in {None, "ACTIVE", "IN_MAINTENANCE"}}
<1>1. HandledOK(q, M!Existing) /\ HandledOK(M!Idle, M!Existing)
  BY IdleHandled DEF MaintenanceInv
<1>2. /\ q.pc # "idle" /\ vehicleStatus' = vehicleStatus /\ records' = records
      /\ \E w \in moved : maintenanceReq' = [maintenanceReq EXCEPT ![r] = w]
  <2>1. CASE M!TxUpdate(r)
    BY <2>1 DEF M!TxUpdate, M!tables, M!Steps, M!TxSteps, M!UpdatedSteps, MaintenanceInv
  <2>2. CASE M!TxIndex(r) \/ M!TxCount(r)
    BY <2>2 DEF M!TxIndex, M!TxCount, M!Respond, M!tables, M!Steps, M!TxSteps, M!UpdatedSteps, MaintenanceInv
  <2>3. CASE M!TxReadVehicle(r)
    BY <2>3 DEF M!TxReadVehicle, M!VehicleWrite, M!tables, MaintenanceInv
  <2>4. CASE M!Announce(r) \/ M!Abort(r)
    BY <2>4 DEF M!Announce, M!Abort, M!Respond, M!tables
  <2>5. QED
    BY <2>1, <2>2, <2>3, <2>4
<1>3. PICK w \in moved : maintenanceReq' = [maintenanceReq EXCEPT ![r] = w]
  BY <1>2
<1>4. HandledOK(w, M!Existing)
  <2>1. CASE w = M!Idle
    BY <1>1, <2>1
  <2>2. ASSUME NEW pc \in M!Steps, w = [q EXCEPT !.pc = pc] PROVE HandledOK(w, M!Existing)
    BY <1>1, <1>2, <2>2 DEF HandledOK, M!Request
  <2>3. ASSUME NEW s \in {None, "ACTIVE", "IN_MAINTENANCE"},
               w = [q EXCEPT !.pc = "commit", !.setVehicle = s]
        PROVE  HandledOK(w, M!Existing)
    BY <1>1, <1>2, <2>3 DEF HandledOK, M!Request, M!Steps, M!TxSteps, M!UpdatedSteps, M!VehicleStatus
  <2>4. QED
    BY <1>3, <2>1, <2>2, <2>3
<1>5. M!Existing' = M!Existing
  BY <1>2 DEF M!Existing
<1>6. QED
  BY <1>2, <1>3, <1>4, <1>5, MaintenanceMoves DEF MaintenanceInv

(* A transition begins with a record that exists. *)
LEMMA MaintenanceRead ==
    ASSUME MaintenanceInv, NEW r \in Requests, NEW m \in Records,
           NEW target \in MaintenanceStatus, M!ReadRecord(r, m, target)
    PROVE  MaintenanceInv'
<1> DEFINE q == [pc |-> "update", record |-> m, target |-> target,
                 startedAt |-> target = "IN_PROGRESS" \/ records[m].startedAt,
                 completedAt |-> target = "COMPLETED" \/ records[m].completedAt,
                 restore |-> M!ShouldRestoreVehicle(target, records[m].status),
                 setVehicle |-> None]
<1>1. /\ m \in M!Existing /\ vehicleStatus' = vehicleStatus /\ records' = records
      /\ maintenanceReq' = [maintenanceReq EXCEPT ![r] = q]
  BY DEF M!ReadRecord, M!tables
<1>2. records[m].startedAt \in BOOLEAN /\ records[m].completedAt \in BOOLEAN
  BY <1>1 DEF MaintenanceInv, M!Existing, M!Row
<1>3. M!ShouldRestoreVehicle(target, records[m].status) \in BOOLEAN
  BY DEF M!ShouldRestoreVehicle
<1>4. q \in M!Request
  BY <1>2, <1>3, SameConstants DEF M!Request, M!Steps
<1>5. M!Existing' = M!Existing /\ HandledOK(q, M!Existing)
  BY <1>1, <1>4 DEF M!Existing, HandledOK
<1> HIDE DEF q
<1>6. QED
  BY <1>1, <1>4, <1>5, MaintenanceMoves DEF MaintenanceInv

(* The commit writes ACTIVE or IN_MAINTENANCE, or leaves the vehicle alone: *)
(* to the others it is a status set by hand.                                *)
LEMMA CommitWrites ==
    ASSUME MaintenanceInv, NEW r \in Requests, M!TxCommit(r)
    PROVE  \/ vehicleStatus' = vehicleStatus
           \/ \E v \in Vehicles, s \in VehicleInputs :
                 /\ vehicleStatus[v] # s
                 /\ vehicleStatus' = [vehicleStatus EXCEPT ![v] = s]
<1> DEFINE v == M!VehicleOf(r)
           s == maintenanceReq[r].setVehicle
<1>1. /\ vehicleStatus' = IF s = None THEN vehicleStatus
                          ELSE [vehicleStatus EXCEPT ![v] = s]
      /\ maintenanceReq[r].record \in M!Existing
  BY DEF M!TxCommit, MaintenanceInv, HandledOK
<1>2. v \in Vehicles /\ s \in {None} \cup VehicleInputs
  BY <1>1, FleetAssumption DEF MaintenanceInv, HandledOK, M!VehicleOf, M!Existing, M!Row
<1> HIDE DEF v, s
<1>3. CASE s = None \/ vehicleStatus[v] = s
  BY <1>1, <1>2, <1>3 DEF MaintenanceInv
<1>4. QED
  BY <1>1, <1>2, <1>3

(* The commit leaves a row of its type under its request's record. *)
LEMMA MaintenanceCommit ==
    ASSUME MaintenanceInv, NEW r \in Requests, M!TxCommit(r)
    PROVE  MaintenanceInv'
<1> DEFINE q == maintenanceReq[r]
           m == q.record
           row == [vehicleId |-> M!VehicleOf(r), status |-> q.target,
                   startedAt |-> q.startedAt, completedAt |-> q.completedAt]
<1>1. /\ HandledOK(q, M!Existing) /\ q.pc = "commit"
      /\ records' = [records EXCEPT ![m] = row]
  BY DEF M!TxCommit, MaintenanceInv
<1>2. vehicleStatus' \in [Vehicles -> VehicleStatus]
  BY CommitWrites, AssignmentsAssumption DEF MaintenanceInv
<1>3. row \in M!Row
  BY <1>1, SameConstants
     DEF MaintenanceInv, HandledOK, M!VehicleOf, M!Existing, M!Row, M!Request
<1>4. row # None
  BY <1>3, NoneIsNoOtherRow
<1> HIDE DEF row
<1>5. records' \in [Records -> M!Row \cup {None}] /\ M!Existing' = M!Existing
  BY <1>1, <1>3, <1>4 DEF MaintenanceInv, HandledOK, M!Existing
<1>6. HandledOK([q EXCEPT !.pc = "announce"], M!Existing)
  BY <1>1 DEF HandledOK, M!Request, M!Steps
<1>7. PICK w \in {M!Idle, [q EXCEPT !.pc = "announce"]} :
         maintenanceReq' = [maintenanceReq EXCEPT ![r] = w]
  BY DEF M!TxCommit, M!Respond, MaintenanceInv
<1> HIDE DEF q
<1>8. QED
  BY <1>2, <1>5, <1>6, <1>7, IdleHandled, MaintenanceMoves

(* A record that is scheduled is new, and no request works on it. *)
LEMMA MaintenanceSchedule ==
    ASSUME MaintenanceInv, NEW r \in Requests, NEW m \in Records, NEW v \in Vehicles,
           M!ScheduleMaintenance(r, m, v)
    PROVE  MaintenanceInv'
<1> DEFINE row == [vehicleId |-> v, status |-> "SCHEDULED",
                   startedAt |-> FALSE, completedAt |-> FALSE]
<1>1. /\ records' = [records EXCEPT ![m] = row]
      /\ vehicleStatus' = vehicleStatus /\ maintenanceReq' = maintenanceReq
  BY DEF M!ScheduleMaintenance
<1>2. row \in M!Row
  BY DEF M!Row, M!MaintenanceStatus
<1> HIDE DEF row
<1>3. records' \in [Records -> M!Row \cup {None}] /\ M!Existing \subseteq M!Existing'
  BY <1>1, <1>2, NoneIsNoOtherRow DEF MaintenanceInv, M!Existing
<1>4. ASSUME NEW q \in Requests PROVE HandledOK(maintenanceReq[q], M!Existing')
  BY <1>3 DEF MaintenanceInv, HandledOK
<1>5. QED
  BY <1>1, <1>3, <1>4 DEF MaintenanceInv

(* No request of maintenance is in flight at first. *)
LEMMA InitMaintenance == M!Init => MaintenanceInv
<1> SUFFICES ASSUME M!Init PROVE MaintenanceInv
  OBVIOUS
<1>1. \A r \in Requests : maintenanceReq[r] = M!Idle
  BY DEF M!Init
<1>2. M!Idle \in M!Request
  BY IdleHandled DEF HandledOK
<1>3. QED
  BY <1>1, <1>2, IdleHandled DEF M!Init, MaintenanceInv, VehicleStatus

(* Every step of maintenance, its environment included, keeps it. *)
LEMMA NextMaintenance == MaintenanceInv /\ [M!Next]_(M!vars) => MaintenanceInv'
<1> SUFFICES ASSUME MaintenanceInv, [M!Next]_(M!vars) PROVE MaintenanceInv'
  OBVIOUS
<1>1. CASE UNCHANGED M!vars
  BY <1>1 DEF M!vars, MaintenanceInv, M!Existing
<1>2. ASSUME NEW r \in Requests, M!Step(r) \/ M!Abort(r) PROVE MaintenanceInv'
  BY <1>2, MaintenanceStatements, MaintenanceCommit DEF M!Step
<1>3. ASSUME NEW r \in Requests, NEW v \in Vehicles, NEW s \in VehicleInputs,
             M!UpdateVehicleStatus(r, v, s)
      PROVE  MaintenanceInv'
  BY <1>3, AssignmentsAssumption DEF M!UpdateVehicleStatus, MaintenanceInv, M!Existing
<1>4. ASSUME NEW r \in Requests, M!Arrival(r) PROVE MaintenanceInv'
  BY <1>3, <1>4, MaintenanceRead, MaintenanceSchedule, SameConstants DEF M!Arrival
<1>5. QED
  BY <1>1, <1>2, <1>4 DEF M!Next

(* The invariant of maintenance holds of the composition. *)
LEMMA AlwaysMaintenance == FleetSpec => []MaintenanceInv
BY InitMaintenance, NextMaintenance, MaintenanceImplemented, PTL DEF M!Spec

-----------------------------------------------------------------------------
(***************************************************************************)
(* Assignments, among the others.                                          *)
(***************************************************************************)

(* A vehicle status written as if by hand. *)
Written == \E v \in Vehicles, s \in VehicleInputs :
              /\ vehicleStatus[v] # s
              /\ vehicleStatus' = [vehicleStatus EXCEPT ![v] = s]

(* No other step of a maintenance request writes a vehicle's status. *)
LEMMA MaintenanceWrites ==
    ASSUME MaintenanceInv, NEW r \in Requests, MaintenanceStep(r)
    PROVE  vehicleStatus' = vehicleStatus \/ Written
<1>1. CASE M!TxCommit(r)
  BY <1>1, CommitWrites DEF Written
<1>2. CASE ~M!TxCommit(r)
  BY <1>2 DEF MaintenanceStep, M!Step, M!Abort, M!ScheduleMaintenance, M!ReadRecord,
       M!TxUpdate, M!TxIndex, M!TxCount, M!TxReadVehicle, M!Announce, M!tables
<1>3. QED
  BY <1>1, <1>2

(* For assignments the others do nothing, or set a status by hand. *)
LEMMA AssignmentsMapped == MaintenanceInv /\ [FleetNext]_fleetVars => [Next]_vars
<1> SUFFICES ASSUME MaintenanceInv, [FleetNext]_fleetVars PROVE [Next]_vars
  OBVIOUS
<1> USE DEF vars
<1>1. CASE UNCHANGED fleetVars
  BY <1>1 DEF fleetVars, assignmentVars
<1>2. ASSUME NEW r \in Requests, AssignmentStep(r) PROVE Next
  BY <1>2 DEF AssignmentStep, Next
<1>3. ASSUME NEW r \in Requests, MaintenanceStep(r) PROVE [Next]_vars
  <2>1. req[r].pc = "idle" /\ UNCHANGED <<driverStatus, assignments, req>>
    BY <1>3 DEF MaintenanceStep, assignmentVars
  <2>2. CASE Written
    <3>1. PICK v \in Vehicles, s \in VehicleInputs : UpdateVehicleStatus(r, v, s)
      BY <2>1, <2>2 DEF Written, UpdateVehicleStatus
    <3>2. QED
      BY <3>1 DEF Next, Arrival
  <2>3. QED
    BY <1>3, <2>1, <2>2, MaintenanceWrites
<1>4. ASSUME NEW r \in Requests, TripStep(r) PROVE UNCHANGED vars
  BY <1>4 DEF TripStep, assignmentVars
<1>5. QED
  BY <1>1, <1>2, <1>3, <1>4 DEF FleetNext

(* Maintenance and trips leave assignments what its own module says it is.  *)
THEOREM AssignmentsImplemented == FleetSpec => Spec
<1>1. FleetInit => Init
  BY DEF FleetInit
<1>2. QED
  BY <1>1, AssignmentsMapped, AlwaysMaintenance, PTL DEF FleetSpec, Spec

(* The inductive invariant of assignments holds of the composition. *)
LEMMA AlwaysAssignments == FleetSpec => []IInv
BY AssignmentsImplemented, Inductive, PTL

-----------------------------------------------------------------------------
(***************************************************************************)
(* Trips, among the others.                                                *)
(***************************************************************************)

(* For trips the vehicle status changes as if by hand, and a step of an     *)
(* assignment request is a step of the book of assignments, or nothing.     *)
LEMMA TripsMapped ==
    MaintenanceInv /\ IInv /\ [FleetNext]_fleetVars => [T!Next]_(T!vars)
<1> SUFFICES ASSUME MaintenanceInv, IInv, [FleetNext]_fleetVars PROVE [T!Next]_(T!vars)
  OBVIOUS
<1> USE DEF T!vars
<1>1. ASSUME assignments' = assignments PROVE Pairs' = Pairs
  BY <1>1 DEF Pairs, Active, Created
<1>2. CASE UNCHANGED fleetVars
  BY <1>1, <1>2 DEF fleetVars, assignmentVars, tripVars
<1>3. ASSUME NEW r \in Requests, tripReq[r].pc = "idle", assignments' = assignments,
             UNCHANGED tripVars, vehicleStatus' = vehicleStatus \/ Written
      PROVE  [T!Next]_(T!vars)
  <2>1. UNCHANGED <<Pairs, trips, tripEvents, tripAnnounced, tripReq>>
    BY <1>1, <1>3 DEF tripVars
  <2>2. CASE Written
    <3>1. PICK v \in Vehicles, s \in VehicleInputs : T!UpdateVehicleStatus(r, v, s)
      BY <1>3, <2>1, <2>2 DEF Written, T!UpdateVehicleStatus, T!tables
    <3>2. QED
      BY <3>1 DEF T!Next, T!Arrival
  <2>3. QED
    BY <1>3, <2>1, <2>2
<1>4. ASSUME NEW r \in Requests, AssignmentStep(r) PROVE [T!Next]_(T!vars)
  <2>1. /\ tripReq[r].pc = "idle" /\ UNCHANGED tripVars
        /\ Arrival(r) \/ Step(r) \/ Abort(r)
    BY <1>4 DEF AssignmentStep
  <2>2. CASE ByHand(r)
    BY <1>3, <2>1, <2>2 DEF ByHand, Written, UpdateVehicleStatus
  <2>3. CASE ~ByHand(r)
    <3>1. vehicleStatus' = vehicleStatus
      BY <2>1, <2>3, AssignmentWrites
    <3>2. Book!Next \/ Pairs' = Pairs
      BY <2>1, StepRefinement DEF Next
    <3>3. CASE Book!Next
      <4>1. T!UpdateAssignments(r)
        BY <2>1, <3>1, <3>3
           DEF T!UpdateAssignments, T!tables, tripVars, Book!Next, Book!Assign, Book!End,
               Book!FreeVehicle, Book!FreeDriver, T!Book!Next, T!Book!Assign, T!Book!End,
               T!Book!FreeVehicle, T!Book!FreeDriver
      <4>2. QED
        BY <4>1 DEF T!Next, T!Arrival
    <3>4. CASE Pairs' = Pairs
      BY <2>1, <3>1, <3>4 DEF tripVars
    <3>5. QED
      BY <3>2, <3>3, <3>4
  <2>4. QED
    BY <2>2, <2>3
<1>5. ASSUME NEW r \in Requests, MaintenanceStep(r) PROVE [T!Next]_(T!vars)
  <2>1. /\ tripReq[r].pc = "idle" /\ UNCHANGED tripVars /\ assignments' = assignments
        /\ vehicleStatus' = vehicleStatus \/ Written
    BY <1>5, MaintenanceWrites DEF MaintenanceStep, assignmentVars
  <2>2. QED
    BY <1>3, <2>1
<1>6. ASSUME NEW r \in Requests, TripStep(r) PROVE T!Next
  BY <1>6, SameConstants DEF TripStep, T!Next, T!Arrival
<1>7. QED
  BY <1>2, <1>4, <1>5, <1>6 DEF FleetNext

(* Assignments and maintenance leave trips what its own module says it is:  *)
(* the assignments trips read change as the abstract book.                  *)
THEOREM TripsImplemented == FleetSpec => T!Spec
<1>1. FleetInit => T!Init
  BY DEF FleetInit
<1>2. QED
  BY <1>1, TripsMapped, AlwaysMaintenance, AlwaysAssignments, PTL DEF FleetSpec, T!Spec

(* The three services running together implement the three specifications   *)
(* that describe each of them alone.                                        *)
THEOREM ComponentsImplemented == FleetSpec => ImplementsComponents
BY AssignmentsImplemented, MaintenanceImplemented, TripsImplemented, PTL
   DEF ImplementsComponents

-----------------------------------------------------------------------------
(***************************************************************************)
(* Trips follow assignments.                                               *)
(***************************************************************************)

(* A creation past the look at the assignment has a pair that was assigned; *)
(* a transition has a trip.  "paired" says who was assigned to whom.        *)
Matched == {"vehicleOverlap", "driverOverlap", "insert"}

TripRequestOK(q, existing, paired) ==
    /\ q \in T!Request
    /\ q.pc \in {"assignment"} \cup Matched =>
          /\ q.trip \in TripNumbers
          /\ q.vehicleId \in Vehicles /\ q.driverId \in Drivers /\ q.schedule \in Schedules
    /\ q.pc \in Matched => /\ T!ValidSchedule(q.schedule)
                           /\ <<q.vehicleId, q.driverId>> \in paired
    /\ q.pc \in {"read", "commit"} => q.trip \in existing
    /\ q.pc = "commit" => q.target \in TripStatus

Paired == {<<assignments[a].vehicleId, assignments[a].driverId>> : a \in Created}

TripInv ==
    /\ trips \in [TripNumbers -> T!Row \cup {None}]
    /\ tripReq \in [Requests -> T!Request]
    /\ \A r \in Requests : TripRequestOK(tripReq[r], T!Existing, Paired)
    /\ \A n \in T!Existing : <<trips[n].vehicleId, trips[n].driverId>> \in Paired

(* Rows of assignments are neither deleted nor given to another pair. *)
LEMMA PairedGrows == IInv /\ [Next]_vars => Paired \subseteq Paired'
<1> SUFFICES ASSUME IInv, [Next]_vars PROVE Paired \subseteq Paired'
  OBVIOUS
<1>1. ASSUME NEW b \in Created
      PROVE  /\ b \in Created' /\ assignments'[b].vehicleId = assignments[b].vehicleId
             /\ assignments'[b].driverId = assignments[b].driverId
  <2>1. CASE assignments' = assignments
    BY <2>1 DEF Created
  <2>2. CASE assignments' # assignments
    <3>1. PICK r \in Requests : AssignCreate(r) \/ EndWrite(r)
      BY <2>2 DEF Next, Step, Arrival, vars, AssignReadVehicle, AssignReadDriver,
           AssignFindByVehicle, AssignFindByDriver, EndRead, UpdateVehicleStatus,
           UpdateDriverStatus, Abort
    <3>2. CASE AssignCreate(r)
      <4>1. PICK a \in AssignmentIds \ Created :
               /\ assignments' = [assignments EXCEPT ![a] = NewRow(r)]
               /\ Created' = Created \cup {a}
        BY <2>2, <3>2, Inserted
      <4>2. QED
        BY <4>1 DEF Created
    <3>3. CASE EndWrite(r)
      <4>1. Created' = Created
        BY <3>3, Ended
      <4>2. CASE b = req[r].assignmentId
        BY <3>3, <4>1, <4>2, Ended
      <4>3. CASE b # req[r].assignmentId
        <5>1. b \in AssignmentIds \ {req[r].assignmentId}
          BY <4>3 DEF Created
        <5>2. assignments'[b] = assignments[b]
          BY <3>3, <5>1, Ended
        <5>3. QED
          BY <4>1, <5>2
      <4>4. QED
        BY <4>2, <4>3
    <3>4. QED
      BY <3>1, <3>2, <3>3
  <2>3. QED
    BY <2>1, <2>2
<1>2. QED
  BY <1>1 DEF Paired

(* What a request of trips knows stays true. *)
LEMMA TripKnowledgeKept ==
    ASSUME NEW q, NEW existing, NEW paired, TripRequestOK(q, existing, paired),
           NEW more, existing \subseteq more, NEW wider, paired \subseteq wider
    PROVE  TripRequestOK(q, more, wider)
BY DEF TripRequestOK

(* A request that has been answered knows nothing. *)
LEMMA IdleTripRequest == \A existing, paired : TripRequestOK(T!Idle, existing, paired)
BY DEF TripRequestOK, Matched, T!Idle, T!Request, T!Steps

(* A step of one trip request: it goes on as q, and no trip disappears. *)
LEMMA TripMoves ==
    ASSUME TripInv, NEW r \in Requests, NEW q,
           tripReq' = [tripReq EXCEPT ![r] = q],
           assignments' = assignments,
           trips' \in [TripNumbers -> T!Row \cup {None}],
           T!Existing \subseteq T!Existing',
           TripRequestOK(q, T!Existing', Paired),
           \A n \in T!Existing' : <<trips'[n].vehicleId, trips'[n].driverId>> \in Paired
    PROVE  TripInv'
<1>1. Paired' = Paired
  BY DEF Paired, Created
<1>2. /\ tripReq' \in [Requests -> T!Request]
      /\ \A p \in Requests : tripReq'[p] = IF p = r THEN q ELSE tripReq[p]
  BY DEF TripInv, TripRequestOK
<1>3. ASSUME NEW p \in Requests PROVE TripRequestOK(tripReq'[p], T!Existing', Paired)
  BY <1>2 DEF TripInv, TripRequestOK
<1>4. QED
  BY <1>1, <1>2, <1>3 DEF TripInv

(* A step that writes no trip. *)
LEMMA TripReads ==
    ASSUME TripInv, NEW r \in Requests, NEW q,
           tripReq' = [tripReq EXCEPT ![r] = q],
           assignments' = assignments, trips' = trips,
           TripRequestOK(q, T!Existing, Paired)
    PROVE  TripInv'
<1>1. T!Existing' = T!Existing
  BY DEF T!Existing
<1>2. QED
  BY <1>1, TripMoves DEF TripInv

(* createTrip looks up the assignment of the vehicle: it is a row. *)
LEMMA TripCreation ==
    ASSUME TripInv, NEW r \in Requests, assignments' = assignments,
           \/ T!CreateMatchAssignment(r)
           \/ T!CreateCheckVehicle(r)
           \/ T!CreateCheckDriver(r)
    PROVE  TripInv'
<1> DEFINE q == tripReq[r]
           next(pc) == [q EXCEPT !.pc = pc]
<1>1. TripRequestOK(q, T!Existing, Paired) /\ tripReq \in [Requests -> T!Request]
  BY DEF TripInv
<1>2. Pairs \subseteq Paired
  BY DEF Pairs, Paired, Active
<1>3. trips' = trips
  BY DEF T!CreateMatchAssignment, T!CreateCheckVehicle, T!CreateCheckDriver, T!tables
<1>4. CASE tripReq' = [tripReq EXCEPT ![r] = T!Idle]
  BY <1>3, <1>4, IdleTripRequest, TripReads
<1>5. CASE tripReq' # [tripReq EXCEPT ![r] = T!Idle]
  <2>1. PICK pc \in Matched :
           /\ tripReq' = [tripReq EXCEPT ![r] = next(pc)]
           /\ q.pc \in {"assignment"} \cup Matched
           /\ <<q.vehicleId, q.driverId>> \in Paired /\ T!ValidSchedule(q.schedule)
    BY <1>1, <1>2, <1>5
       DEF T!ActiveAssignmentMatches, T!CreateMatchAssignment, T!CreateCheckVehicle, T!CreateCheckDriver,
           T!ProceedIf, Matched, TripRequestOK
  <2>2. next(pc) \in T!Request /\ next(pc).pc = pc
    BY <1>1, <2>1 DEF TripRequestOK, Matched, T!Request, T!Steps
  <2>3. TripRequestOK(next(pc), T!Existing, Paired)
    BY <1>1, <2>1, <2>2 DEF TripRequestOK, Matched, T!Request
  <2> HIDE DEF next
  <2>4. QED
    BY <1>3, <2>1, <2>3, TripReads
<1>6. QED
  BY <1>4, <1>5

(* Both kinds of request begin with what their caller gave. *)
LEMMA TripArrival ==
    ASSUME TripInv, NEW r \in Requests, assignments' = assignments,
           \/ \E n \in TripNumbers, v \in Vehicles, d \in Drivers, s \in Schedules :
                 T!CreateReadVehicle(r, n, v, d, s)
           \/ \E n \in TripNumbers, target \in TripStatus : T!TransitionArrive(r, n, target)
    PROVE  TripInv'
<1>1. ASSUME NEW n \in TripNumbers, NEW v \in Vehicles, NEW d \in Drivers,
             NEW s \in Schedules, T!CreateReadVehicle(r, n, v, d, s)
      PROVE  TripInv'
  <2> DEFINE q == [T!Idle EXCEPT !.pc = "assignment", !.trip = n, !.target = "PLANNED",
                                 !.vehicleId = v, !.driverId = d, !.schedule = s]
  <2>1. tripReq' = [tripReq EXCEPT ![r] = q] /\ trips' = trips
    BY <1>1 DEF T!CreateReadVehicle, T!tables
  <2>2. TripRequestOK(q, T!Existing, Paired)
    BY DEF TripRequestOK, Matched, T!Idle, T!Request, T!Steps, T!TripStatus
  <2> HIDE DEF q
  <2>3. QED
    BY <2>1, <2>2, TripReads
<1>2. ASSUME NEW n \in TripNumbers, NEW target \in TripStatus,
             T!TransitionArrive(r, n, target)
      PROVE  TripInv'
  <2> DEFINE q == [T!Idle EXCEPT !.pc = "read", !.trip = n, !.target = target,
                                 !.actualStartAt = target = "IN_PROGRESS",
                                 !.actualEndAt = target = "COMPLETED"]
  <2>1. tripReq' = [tripReq EXCEPT ![r] = q] /\ trips' = trips /\ n \in T!Existing
    BY <1>2 DEF T!TransitionArrive, T!tables
  <2>2. TripRequestOK(q, T!Existing, Paired)
    BY <2>1, SameConstants DEF TripRequestOK, Matched, T!Idle, T!Request, T!Steps
  <2> HIDE DEF q
  <2>3. QED
    BY <2>1, <2>2, TripReads
<1>3. QED
  BY <1>1, <1>2

(* A request that is about to announce has written its trip. *)
LEMMA AnnouncingOK ==
    ASSUME NEW q, NEW existing, NEW paired, TripRequestOK(q, existing, paired)
    PROVE  TripRequestOK([q EXCEPT !.pc = "announce"], existing, paired)
BY DEF TripRequestOK, Matched, T!Request, T!Steps

(* The INSERT writes a pair that was assigned. *)
LEMMA TripInsert ==
    ASSUME TripInv, NEW r \in Requests, assignments' = assignments, T!CreateInsert(r)
    PROVE  TripInv'
<1> DEFINE q == tripReq[r]
           row == [vehicleId |-> q.vehicleId, driverId |-> q.driverId,
                   schedule |-> q.schedule, status |-> "PLANNED",
                   actualStartAt |-> FALSE, actualEndAt |-> FALSE]
<1>1. /\ TripRequestOK(q, T!Existing, Paired) /\ q.pc = "insert"
      /\ q.trip \in TripNumbers
      /\ trips \in [TripNumbers -> T!Row \cup {None}]
  BY DEF TripInv, TripRequestOK, Matched, T!CreateInsert
<1>2. CASE trips[q.trip] # None
  BY <1>2, IdleTripRequest, TripReads DEF T!CreateInsert, T!TripNumberFree, T!Respond
<1>3. CASE trips[q.trip] = None
  <2>1. /\ trips' = [trips EXCEPT ![q.trip] = row]
        /\ tripReq' = [tripReq EXCEPT ![r] = [q EXCEPT !.pc = "announce"]]
    BY <1>3 DEF T!CreateInsert, T!TripNumberFree, TripInv
  <2>2. row \in T!Row /\ <<row.vehicleId, row.driverId>> \in Paired
    <3>1. /\ q.vehicleId \in Vehicles /\ q.driverId \in Drivers /\ q.schedule \in Schedules
          /\ q.schedule[2] > q.schedule[1] /\ <<q.vehicleId, q.driverId>> \in Paired
      BY <1>1 DEF TripRequestOK, Matched, T!ValidSchedule
    <3>2. q.schedule[1] < q.schedule[2]
      BY <3>1, FleetAssumption
    <3>3. QED
      BY <3>1, <3>2 DEF T!Row, T!TripStatus
  <2> HIDE DEF row
  <2>3. /\ trips' \in [TripNumbers -> T!Row \cup {None}]
        /\ T!Existing' = T!Existing \cup {q.trip}
    BY <1>1, <2>1, <2>2, NoneIsNoOtherRow DEF T!Existing
  <2>4. \A n \in T!Existing' : <<trips'[n].vehicleId, trips'[n].driverId>> \in Paired
    BY <1>1, <2>1, <2>2, <2>3 DEF TripInv, T!Existing
  <2>5. TripRequestOK([q EXCEPT !.pc = "announce"], T!Existing', Paired)
    BY <1>1, <2>3, AnnouncingOK, TripKnowledgeKept
  <2> HIDE DEF q
  <2>6. QED
    BY <2>1, <2>3, <2>4, <2>5, TripMoves
<1>4. QED
  BY <1>2, <1>3

(* The check of a transition writes no trip; the commit leaves the vehicle  *)
(* and the driver of its trip alone.                                        *)
LEMMA TripTransition ==
    ASSUME TripInv, NEW r \in Requests, assignments' = assignments,
           T!TransitionRead(r) \/ T!TransitionCommit(r)
    PROVE  TripInv'
<1> DEFINE q == tripReq[r]
           n == q.trip
<1>1. /\ TripRequestOK(q, T!Existing, Paired) /\ q \in T!Request
      /\ q.pc \in {"read", "commit"}
      /\ n \in TripNumbers /\ trips[n] \in T!Row
      /\ trips \in [TripNumbers -> T!Row \cup {None}]
  BY DEF TripInv, TripRequestOK, T!TransitionRead, T!TransitionCommit, T!Existing
<1>2. CASE T!TransitionRead(r)
  <2> DEFINE w == [q EXCEPT !.pc = "commit",
                     !.actualStartAt = T!Coalesce(q.actualStartAt, trips[n].actualStartAt),
                     !.actualEndAt = T!Coalesce(q.actualEndAt, trips[n].actualEndAt)]
  <2>1. trips' = trips /\ q.pc = "read"
    BY <1>2 DEF T!TransitionRead, T!tables
  <2>2. CASE ~T!isAllowedTripTransition(trips[n].status, q.target)
    BY <1>2, <2>1, <2>2, IdleTripRequest, TripReads DEF T!TransitionRead
  <2>3. CASE T!isAllowedTripTransition(trips[n].status, q.target)
    <3>1. tripReq' = [tripReq EXCEPT ![r] = w]
      BY <1>2, <2>3 DEF T!TransitionRead
    <3>2. q.target \in TripStatus
      BY <2>3 DEF T!isAllowedTripTransition, T!AllowedTripTransitions, TripStatus
    <3>3. /\ T!Coalesce(q.actualStartAt, trips[n].actualStartAt) \in BOOLEAN
          /\ T!Coalesce(q.actualEndAt, trips[n].actualEndAt) \in BOOLEAN
      BY DEF T!Coalesce
    <3>4. TripRequestOK(w, T!Existing, Paired)
      BY <1>1, <2>1, <3>2, <3>3 DEF TripRequestOK, Matched, T!Request, T!Steps
    <3> HIDE DEF w
    <3>5. QED
      BY <2>1, <3>1, <3>4, TripReads
  <2>4. QED
    BY <2>2, <2>3
<1>3. CASE T!TransitionCommit(r)
  <2> DEFINE row == [trips[n] EXCEPT !.status = q.target,
                                     !.actualStartAt = q.actualStartAt,
                                     !.actualEndAt = q.actualEndAt]
  <2>1. trips' = [trips EXCEPT ![n] = row] /\ q.pc = "commit"
    BY <1>1, <1>3 DEF T!TransitionCommit
  <2>2. /\ row \in T!Row
        /\ row.vehicleId = trips[n].vehicleId /\ row.driverId = trips[n].driverId
    BY <1>1, <2>1, SameConstants DEF TripRequestOK, T!Row, T!Request
  <2> HIDE DEF row
  <2>3. trips' \in [TripNumbers -> T!Row \cup {None}] /\ T!Existing' = T!Existing
    BY <1>1, <2>1, <2>2, NoneIsNoOtherRow DEF T!Existing
  <2>4. \A m \in T!Existing' : <<trips'[m].vehicleId, trips'[m].driverId>> \in Paired
    BY <1>1, <2>1, <2>2, <2>3 DEF TripInv, T!Existing
  <2>5. PICK w \in {T!Idle, [q EXCEPT !.pc = "announce"]} :
           tripReq' = [tripReq EXCEPT ![r] = w]
    BY <1>3 DEF T!TransitionCommit, T!Respond
  <2>6. TripRequestOK(w, T!Existing', Paired)
    BY <1>1, <2>3, <2>5, IdleTripRequest, AnnouncingOK
  <2>7. QED
    BY <2>3, <2>4, <2>5, <2>6, TripMoves
<1>4. QED
  BY <1>2, <1>3

(* Every step of a trip request keeps the invariant of trips. *)
LEMMA TripStepKeeps ==
    ASSUME TripInv, NEW r \in Requests, TripStep(r)
    PROVE  TripInv'
<1>1. assignments' = assignments
  BY DEF TripStep, assignmentVars
<1>2. CASE T!Announce(r) \/ T!Abort(r)
  BY <1>1, <1>2, IdleTripRequest, TripReads DEF T!Announce, T!Abort, T!Respond, T!tables
<1>3. QED
  BY <1>1, <1>2, TripArrival, TripCreation, TripInsert, TripTransition DEF TripStep, T!Step

(* No trip and no request exists at first; the steps of the others write    *)
(* neither, and leave every pair that was assigned in the table.            *)
LEMMA TripInvInductive ==
    /\ FleetInit => TripInv
    /\ TripInv /\ IInv /\ MaintenanceInv /\ [FleetNext]_fleetVars => TripInv'
<1>1. ASSUME FleetInit PROVE TripInv
  <2>1. T!Existing = {} /\ \A r \in Requests : tripReq[r] = T!Idle
    BY <1>1 DEF FleetInit, T!Init, T!Existing
  <2>2. T!Idle \in T!Request
    BY IdleTripRequest DEF TripRequestOK
  <2>3. QED
    BY <1>1, <2>1, <2>2, IdleTripRequest DEF FleetInit, T!Init, TripInv
<1>2. ASSUME TripInv, IInv, MaintenanceInv, [FleetNext]_fleetVars PROVE TripInv'
  <2>1. CASE UNCHANGED tripVars
    <3>1. Paired \subseteq Paired'
      BY <1>2, AssignmentsMapped, PairedGrows
    <3>2. trips' = trips /\ tripReq' = tripReq /\ T!Existing' = T!Existing
      BY <2>1 DEF tripVars, T!Existing
    <3>3. \A r \in Requests : TripRequestOK(tripReq[r], T!Existing, Paired')
      BY <1>2, <3>1, TripKnowledgeKept DEF TripInv
    <3>4. QED
      BY <1>2, <3>1, <3>2, <3>3 DEF TripInv
  <2>2. CASE ~UNCHANGED tripVars
    <3>1. PICK r \in Requests : TripStep(r)
      BY <1>2, <2>2 DEF FleetNext, AssignmentStep, MaintenanceStep, fleetVars
    <3>2. QED
      BY <1>2, <3>1, TripStepKeeps
  <2>3. QED
    BY <2>1, <2>2
<1>3. QED
  BY <1>1, <1>2

(* However assignments end while trips are being created, a trip is of a    *)
(* vehicle and a driver that an assignment has brought together.            *)
THEOREM TripsWereAssigned == FleetSpec => []TripsFollowAssignments
<1>1. TripInv => TripsFollowAssignments
  BY DEF TripInv, Paired, TripsFollowAssignments, WasAssigned
<1>2. QED
  BY <1>1, TripInvInductive, AlwaysAssignments, AlwaysMaintenance, PTL DEF FleetSpec
=============================================================================
