---------------------- MODULE VehicleAssignments_proofs ----------------------
(***************************************************************************)
(* Proofs about VehicleAssignments, for every fleet, every number of rows  *)
(* and every number of requests in flight.                                 *)
(***************************************************************************)
EXTENDS VehicleAssignments, TLAPS

(* What a request in flight remembers of the checks it has passed: the row  *)
(* ids it was called with, the organization they were looked up in, and,    *)
(* when it is about to end an assignment, that this row exists.             *)
RequestOK(r) ==
    /\ req[r].pc # "idle" => req[r].organizationId \in Organizations
    /\ Assigning(r) =>
          /\ req[r].vehicleId \in Vehicles
          /\ req[r].driverId \in Drivers
          /\ OrgOf[req[r].vehicleId] = req[r].organizationId
    /\ req[r].pc \in {"findByVehicle", "findByDriver", "create"} =>
          OrgOf[req[r].driverId] = req[r].organizationId
    /\ req[r].pc = "end" => req[r].assignmentId \in Created

(* The inductive invariant. *)
IInv ==
    /\ TypeOK
    /\ \A r \in Requests : RequestOK(r)
    /\ TenantIsolation
    /\ OneActivePerVehicleAndDriver

(* The initial state, in which no row and no request exists. *)
LEMMA InitIInv == Init => IInv
<1> SUFFICES ASSUME Init PROVE IInv
  OBVIOUS
<1> USE AssignmentsAssumption DEF Init
<1>1. TypeOK
  BY DEF TypeOK, VehicleStatus, DriverStatus, Request, Idle, Steps
<1>2. Created = {} /\ Active = {}
  BY DEF Created, Active
<1>3. \A r \in Requests : RequestOK(r)
  BY DEF RequestOK, Assigning, Idle
<1>4. TenantIsolation /\ OneActivePerVehicleAndDriver
  BY <1>2 DEF TenantIsolation, OneActivePerVehicleAndDriver
<1>5. QED
  BY <1>1, <1>3, <1>4 DEF IInv

(* A step that leaves the assignments table alone keeps the two invariants  *)
(* of the table, and moves a request only past a check it made.             *)
LEMMA TableUnchanged ==
    ASSUME IInv, assignments' = assignments, TypeOK',
           \A r \in Requests : RequestOK(r)'
    PROVE  IInv'
<1>1. Created' = Created /\ Active' = Active
  BY DEF Created, Active
<1>2. TenantIsolation' /\ OneActivePerVehicleAndDriver'
  BY <1>1 DEF IInv, TenantIsolation, OneActivePerVehicleAndDriver
<1>3. QED
  BY <1>2 DEF IInv

(* A step of one request leaves what the others remember alone, as long as  *)
(* rows are never deleted.                                                  *)
LEMMA OthersKept ==
    ASSUME IInv, NEW r \in Requests, NEW q \in Request,
           req' = [req EXCEPT ![r] = q],
           Created \subseteq Created',
           RequestOK(r)'
    PROVE  \A s \in Requests : RequestOK(s)'
<1> SUFFICES ASSUME NEW s \in Requests, s # r PROVE RequestOK(s)'
  OBVIOUS
<1>1. req'[s] = req[s]
  BY DEF IInv, TypeOK
<1>2. RequestOK(s)
  BY DEF IInv
<1>3. QED
  BY <1>1, <1>2 DEF RequestOK, Assigning

(* A request that answers is idle and remembers nothing. *)
LEMMA RespondOK ==
    ASSUME IInv, NEW r \in Requests, Respond(r), Created \subseteq Created'
    PROVE  /\ req' \in [Requests -> Request]
           /\ \A s \in Requests : RequestOK(s)'
<1>1. Idle \in Request
  BY DEF Idle, Request, Steps
<1>2. req' = [req EXCEPT ![r] = Idle]
  BY DEF Respond
<1>3. req' \in [Requests -> Request] /\ req'[r] = Idle
  BY <1>1, <1>2 DEF IInv, TypeOK
<1>4. RequestOK(r)'
  BY <1>3 DEF RequestOK, Assigning, Idle
<1>5. QED
  BY <1>1, <1>2, <1>3, <1>4, OthersKept

(* A request that passed a check goes on with the same locals. *)
LEMMA GoToOK ==
    ASSUME IInv, NEW r \in Requests, NEW pc \in Steps, GoTo(r, pc),
           Created \subseteq Created', Assigning(r),
           pc \in {"findByVehicle", "findByDriver", "create"},
           OrgOf[req[r].driverId] = req[r].organizationId
    PROVE  /\ req' \in [Requests -> Request]
           /\ \A s \in Requests : RequestOK(s)'
<1> DEFINE q == [req[r] EXCEPT !.pc = pc]
<1>1. req[r] \in Request
  BY DEF IInv, TypeOK
<1>2. q \in Request
  BY <1>1 DEF Request
<1>3. req' = [req EXCEPT ![r] = q]
  BY DEF GoTo
<1>4. req' \in [Requests -> Request] /\ req'[r] = q
  BY <1>2, <1>3 DEF IInv, TypeOK
<1>5. /\ q.pc = pc
      /\ q.organizationId = req[r].organizationId
      /\ q.vehicleId = req[r].vehicleId
      /\ q.driverId = req[r].driverId
  BY <1>1 DEF Request
<1>6. RequestOK(r)
  BY DEF IInv
<1> HIDE DEF q
<1>7. RequestOK(r)'
  BY <1>4, <1>5, <1>6 DEF RequestOK, Assigning
<1>8. QED
  BY <1>2, <1>3, <1>4, <1>7, OthersKept

-----------------------------------------------------------------------------
(* One lemma per action. *)

(* The vehicle was found in the organization of the request. *)
LEMMA AssignReadVehicleIInv ==
    ASSUME IInv, NEW r \in Requests, NEW o \in Organizations,
           NEW v \in Vehicles, NEW d \in Drivers, AssignReadVehicle(r, o, v, d)
    PROVE  IInv'
<1> DEFINE q == [pc |-> "readDriver", organizationId |-> o, vehicleId |-> v,
                 driverId |-> d, assignmentId |-> None]
<1>1. q \in Request
  BY DEF Request, Steps
<1>2. /\ req' = [req EXCEPT ![r] = q]
      /\ OrgOf[v] = o
      /\ UNCHANGED <<vehicleStatus, driverStatus, assignments>>
  BY DEF AssignReadVehicle, InOrganization
<1>3. req' \in [Requests -> Request] /\ req'[r] = q
  BY <1>1, <1>2 DEF IInv, TypeOK
<1>4. RequestOK(r)'
  BY <1>2, <1>3 DEF RequestOK, Assigning
<1>5. Created' = Created
  BY <1>2 DEF Created
<1>6. \A s \in Requests : RequestOK(s)'
  BY <1>1, <1>2, <1>4, <1>5, OthersKept
<1>7. TypeOK'
  BY <1>2, <1>3 DEF IInv, TypeOK
<1>8. QED
  BY <1>2, <1>6, <1>7, TableUnchanged

(* The driver was found in it too, or the request is refused. *)
LEMMA AssignReadDriverIInv ==
    ASSUME IInv, NEW r \in Requests, AssignReadDriver(r)
    PROVE  IInv'
<1>1. UNCHANGED <<vehicleStatus, driverStatus, assignments>> /\ Created' = Created
  BY DEF AssignReadDriver, Created
<1>2. /\ req' \in [Requests -> Request]
      /\ \A s \in Requests : RequestOK(s)'
  <2>1. CASE Respond(r)
    BY <1>1, <2>1, RespondOK
  <2>2. CASE ~Respond(r)
    <3>1. /\ GoTo(r, "findByVehicle")
          /\ OrgOf[req[r].driverId] = req[r].organizationId
          /\ Assigning(r)
      BY <2>2 DEF AssignReadDriver, InOrganization, Assigning
    <3>2. QED
      BY <1>1, <3>1, GoToOK DEF Steps
  <2>3. QED
    BY <2>1, <2>2
<1>3. QED
  BY <1>1, <1>2, TableUnchanged DEF IInv, TypeOK

(* The two searches for an active assignment only look. *)
LEMMA FindIInv ==
    ASSUME IInv, NEW r \in Requests,
           AssignFindByVehicle(r) \/ AssignFindByDriver(r)
    PROVE  IInv'
<1>1. UNCHANGED <<vehicleStatus, driverStatus, assignments>> /\ Created' = Created
  BY DEF AssignFindByVehicle, AssignFindByDriver, Created
<1>2. Assigning(r) /\ OrgOf[req[r].driverId] = req[r].organizationId
  BY DEF IInv, RequestOK, AssignFindByVehicle, AssignFindByDriver, Assigning
<1>3. Respond(r) \/ GoTo(r, "findByDriver") \/ GoTo(r, "create")
  BY DEF AssignFindByVehicle, AssignFindByDriver
<1>4. /\ req' \in [Requests -> Request]
      /\ \A s \in Requests : RequestOK(s)'
  BY <1>1, <1>2, <1>3, RespondOK, GoToOK DEF Steps
<1>5. QED
  BY <1>1, <1>4, TableUnchanged DEF IInv, TypeOK

(* What an INSERT does, as a fact about the table: one row id that was free *)
(* holds the new active row, of a vehicle and a driver that had none.       *)
LEMMA Inserted ==
    ASSUME IInv, NEW r \in Requests, AssignCreate(r), assignments' # assignments
    PROVE  /\ NewRow(r) \in Row
           /\ UniqueActive(req[r].vehicleId, req[r].driverId)
           /\ \E a \in AssignmentIds \ Created :
                 /\ assignments' = [assignments EXCEPT ![a] = NewRow(r)]
                 /\ Created' = Created \cup {a}
                 /\ Active' = Active \cup {a}
<1>1. NewRow(r) \in Row
  BY DEF IInv, RequestOK, Assigning, AssignCreate, NewRow, Row
<1>2. PICK a \in AssignmentIds \ Created :
         assignments' = [assignments EXCEPT ![a] = NewRow(r)]
  BY DEF AssignCreate
<1>3. /\ assignments'[a] = NewRow(r)
      /\ \A b \in AssignmentIds \ {a} : assignments'[b] = assignments[b]
  BY <1>2 DEF IInv, TypeOK
<1>4. NewRow(r).endings = 0
  BY DEF NewRow
<1>5. NewRow(r) # None
  BY <1>1, NoneIsNoRow
<1>6. Created' = Created \cup {a}
  BY <1>3, <1>5 DEF Created
<1>7. Active' = Active \cup {a}
  <2>1. ASSUME NEW b \in AssignmentIds
        PROVE  b \in Active' <=> b \in Active \/ b = a
    <3>1. CASE b = a
      BY <1>3, <1>4, <1>6, <3>1 DEF Active
    <3>2. CASE b # a
      BY <1>3, <1>6, <3>2 DEF Active
    <3>3. QED
      BY <3>1, <3>2
  <2>2. Active' \subseteq AssignmentIds /\ Active \subseteq AssignmentIds
    BY DEF Active, Created
  <2>3. QED
    BY <2>1, <2>2
<1>8. UniqueActive(req[r].vehicleId, req[r].driverId)
  BY DEF AssignCreate
<1>9. QED
  BY <1>1, <1>2, <1>6, <1>7, <1>8

(* Either index refuses the row, or it is the only active one of its vehicle *)
(* and of its driver.                                                        *)
LEMMA AssignCreateIInv ==
    ASSUME IInv, NEW r \in Requests, AssignCreate(r)
    PROVE  IInv'
<1>1. Respond(r) /\ UNCHANGED <<vehicleStatus, driverStatus>>
  BY DEF AssignCreate
<1>2. CASE assignments' = assignments
  <2>1. Created' = Created
    BY <1>2 DEF Created
  <2>2. req' \in [Requests -> Request] /\ \A s \in Requests : RequestOK(s)'
    BY <1>1, <2>1, RespondOK
  <2>3. QED
    BY <1>1, <1>2, <2>2, TableUnchanged DEF IInv, TypeOK
<1>3. CASE assignments' # assignments
  <2>1. PICK a \in AssignmentIds \ Created :
           /\ assignments' = [assignments EXCEPT ![a] = NewRow(r)]
           /\ Created' = Created \cup {a}
           /\ Active' = Active \cup {a}
    BY <1>3, Inserted
  <2>2. NewRow(r) \in Row /\ UniqueActive(req[r].vehicleId, req[r].driverId)
    BY <1>3, Inserted
  <2>3. /\ assignments' \in [AssignmentIds -> Row \cup {None}]
        /\ assignments'[a] = NewRow(r)
        /\ \A b \in Created : assignments'[b] = assignments[b]
    BY <2>1, <2>2 DEF IInv, TypeOK, Created
  <2>4. req' \in [Requests -> Request] /\ \A s \in Requests : RequestOK(s)'
    BY <1>1, <2>1, RespondOK
  <2>5. /\ NewRow(r).organizationId = req[r].organizationId
        /\ NewRow(r).vehicleId = req[r].vehicleId
        /\ NewRow(r).driverId = req[r].driverId
    BY DEF NewRow
  <2>6. /\ OrgOf[req[r].vehicleId] = req[r].organizationId
        /\ OrgOf[req[r].driverId] = req[r].organizationId
    BY DEF IInv, RequestOK, Assigning, AssignCreate
  <2>7. TenantIsolation'
    <3>1. ASSUME NEW b \in Created'
          PROVE  /\ OrgOf[assignments'[b].vehicleId] = assignments'[b].organizationId
                 /\ OrgOf[assignments'[b].driverId] = assignments'[b].organizationId
      BY <2>1, <2>3, <2>5, <2>6 DEF IInv, TenantIsolation
    <3>2. QED
      BY <3>1 DEF TenantIsolation
  <2>8. OneActivePerVehicleAndDriver'
    <3>1. \A b \in Active : /\ assignments[b].vehicleId # req[r].vehicleId
                            /\ assignments[b].driverId # req[r].driverId
      BY <2>2 DEF UniqueActive, ActiveOfVehicle, ActiveOfDriver
    <3>2. Active \subseteq Created
      BY DEF Active
    <3>3. ASSUME NEW b \in Active', NEW c \in Active',
                 \/ assignments'[b].vehicleId = assignments'[c].vehicleId
                 \/ assignments'[b].driverId = assignments'[c].driverId
          PROVE  b = c
      BY <2>1, <2>3, <2>5, <3>1, <3>2, <3>3 DEF IInv, OneActivePerVehicleAndDriver
    <3>4. QED
      BY <3>3 DEF OneActivePerVehicleAndDriver
  <2>9. TypeOK'
    BY <1>1, <2>3, <2>4 DEF IInv, TypeOK
  <2>10. QED
    BY <2>4, <2>7, <2>8, <2>9 DEF IInv
<1>4. QED
  BY <1>2, <1>3

(* The read of an assignment that is to be ended. *)
LEMMA EndReadIInv ==
    ASSUME IInv, NEW r \in Requests, NEW a \in AssignmentIds, EndRead(r, a)
    PROVE  IInv'
<1> DEFINE q == [Idle EXCEPT !.pc = "end", !.assignmentId = a,
                             !.organizationId = assignments[a].organizationId]
<1>1. a \in Created /\ assignments[a] \in Row
  BY DEF IInv, TypeOK, EndRead, Active, Created
<1>2. /\ q \in Request
      /\ q.pc = "end" /\ q.assignmentId = a
      /\ q.organizationId \in Organizations
  BY <1>1 DEF Idle, Request, Steps, Row
<1>3. /\ req' = [req EXCEPT ![r] = q]
      /\ UNCHANGED <<vehicleStatus, driverStatus, assignments>>
  BY DEF EndRead
<1> HIDE DEF q
<1>4. req' \in [Requests -> Request] /\ req'[r] = q
  BY <1>2, <1>3 DEF IInv, TypeOK
<1>5. Created' = Created
  BY <1>3 DEF Created
<1>6. RequestOK(r)'
  BY <1>1, <1>2, <1>4, <1>5 DEF RequestOK, Assigning
<1>7. \A s \in Requests : RequestOK(s)'
  BY <1>2, <1>3, <1>5, <1>6, OthersKept
<1>8. QED
  BY <1>3, <1>4, <1>7, TableUnchanged DEF IInv, TypeOK

(* What the UPDATE of ended_at does to the table: one row is not active any  *)
(* more, the others and the ids of all stay.                                 *)
LEMMA Ended ==
    ASSUME IInv, NEW r \in Requests, EndWrite(r)
    PROVE  LET a == req[r].assignmentId
           IN  /\ a \in Created
               /\ assignments' \in [AssignmentIds -> Row \cup {None}]
               /\ \A b \in AssignmentIds \ {a} : assignments'[b] = assignments[b]
               /\ assignments'[a].organizationId = assignments[a].organizationId
               /\ assignments'[a].vehicleId = assignments[a].vehicleId
               /\ assignments'[a].driverId = assignments[a].driverId
               /\ Created' = Created
               /\ Active' = Active \ {a}
<1> DEFINE a == req[r].assignmentId
           row == [assignments[a] EXCEPT !.endings = @ + 1]
<1>1. a \in Created /\ a \in AssignmentIds
  BY DEF IInv, RequestOK, EndWrite, Created
<1>2. assignments[a] \in Row
  BY <1>1 DEF IInv, TypeOK, Created
<1>3. /\ row \in Row
      /\ row.organizationId = assignments[a].organizationId
      /\ row.vehicleId = assignments[a].vehicleId
      /\ row.driverId = assignments[a].driverId
      /\ row.endings # 0
  BY <1>2 DEF Row
<1>4. assignments' = [assignments EXCEPT ![a] = row]
  BY DEF EndWrite
<1> HIDE DEF row, a
<1>5. /\ assignments' \in [AssignmentIds -> Row \cup {None}]
      /\ assignments'[a] = row
      /\ \A b \in AssignmentIds \ {a} : assignments'[b] = assignments[b]
  BY <1>1, <1>3, <1>4 DEF IInv, TypeOK
<1>6. Created' = Created
  BY <1>1, <1>3, <1>5, NoneIsNoRow DEF Created
<1>7. Active' = Active \ {a}
  BY <1>3, <1>5, <1>6 DEF Active, Created
<1>8. QED
  BY <1>1, <1>3, <1>5, <1>6, <1>7 DEF a

(* An assignment that ends frees its vehicle and its driver. *)
LEMMA EndWriteIInv ==
    ASSUME IInv, NEW r \in Requests, EndWrite(r)
    PROVE  IInv'
<1> DEFINE a == req[r].assignmentId
<1>1. /\ a \in Created
      /\ assignments' \in [AssignmentIds -> Row \cup {None}]
      /\ \A b \in AssignmentIds \ {a} : assignments'[b] = assignments[b]
      /\ assignments'[a].organizationId = assignments[a].organizationId
      /\ assignments'[a].vehicleId = assignments[a].vehicleId
      /\ assignments'[a].driverId = assignments[a].driverId
      /\ Created' = Created
      /\ Active' = Active \ {a}
  BY Ended
<1>2. Respond(r) /\ UNCHANGED <<vehicleStatus, driverStatus>>
  BY DEF EndWrite
<1>3. req' \in [Requests -> Request] /\ \A s \in Requests : RequestOK(s)'
  BY <1>1, <1>2, RespondOK
<1> HIDE DEF a
<1>4. TypeOK'
  BY <1>1, <1>2, <1>3 DEF IInv, TypeOK
<1>5. TenantIsolation'
  BY <1>1 DEF IInv, TenantIsolation, Created
<1>6. OneActivePerVehicleAndDriver'
  BY <1>1 DEF IInv, OneActivePerVehicleAndDriver, Active, Created
<1>7. QED
  BY <1>3, <1>4, <1>5, <1>6 DEF IInv

(* A status set by hand, a request that dies, a stuttering step. *)
LEMMA OtherStepsIInv ==
    ASSUME IInv,
           \/ \E r \in Requests, v \in Vehicles, s \in VehicleInputs :
                 UpdateVehicleStatus(r, v, s)
           \/ \E r \in Requests, d \in Drivers, s \in DriverInputs :
                 UpdateDriverStatus(r, d, s)
           \/ \E r \in Requests : Abort(r)
           \/ UNCHANGED vars
    PROVE  IInv'
<1>1. assignments' = assignments /\ Created' = Created
  BY DEF UpdateVehicleStatus, UpdateDriverStatus, Abort, vars, Created
<1>2. vehicleStatus' \in [Vehicles -> VehicleStatus]
  BY AssignmentsAssumption
     DEF IInv, TypeOK, UpdateVehicleStatus, UpdateDriverStatus, Abort, vars
<1>3. driverStatus' \in [Drivers -> DriverStatus]
  BY AssignmentsAssumption
     DEF IInv, TypeOK, UpdateVehicleStatus, UpdateDriverStatus, Abort, vars
<1>4. /\ req' \in [Requests -> Request]
      /\ \A s \in Requests : RequestOK(s)'
  <2>1. CASE req' = req
    BY <1>1, <2>1 DEF IInv, TypeOK, RequestOK, Assigning
  <2>2. CASE \E r \in Requests : Abort(r)
    BY <1>1, <2>2, RespondOK DEF Abort
  <2>3. QED
    BY <2>1, <2>2 DEF UpdateVehicleStatus, UpdateDriverStatus, vars
<1>5. TypeOK'
  BY <1>1, <1>2, <1>3, <1>4 DEF IInv, TypeOK
<1>6. QED
  BY <1>1, <1>4, <1>5, TableUnchanged

(* The invariant is inductive. *)
LEMMA NextIInv == IInv /\ [Next]_vars => IInv'
<1> SUFFICES ASSUME IInv, [Next]_vars PROVE IInv'
  OBVIOUS
<1>1. CASE \E r \in Requests : Step(r)
  BY <1>1, AssignReadDriverIInv, FindIInv, AssignCreateIInv, EndWriteIInv DEF Step
<1>2. CASE \E r \in Requests : Arrival(r)
  BY <1>2, AssignReadVehicleIInv, EndReadIInv, OtherStepsIInv DEF Arrival
<1>3. CASE \E r \in Requests : Abort(r)
  BY <1>3, OtherStepsIInv
<1>4. CASE UNCHANGED vars
  BY <1>4, OtherStepsIInv
<1>5. QED
  BY <1>1, <1>2, <1>3, <1>4 DEF Next

-----------------------------------------------------------------------------
(***************************************************************************)
(* The theorems.                                                           *)
(***************************************************************************)

(* The inductive invariant holds in every reachable state. *)
THEOREM Inductive == Spec => []IInv
BY InitIInv, NextIInv, PTL DEF Spec

(* Type correctness of the tables and of the requests in flight. *)
THEOREM TypeCorrect == Spec => []TypeOK
<1>1. IInv => TypeOK
  BY DEF IInv
<1>2. QED
  BY <1>1, Inductive, PTL

(* assignVehicleToDriver never leaves a vehicle with two active assignments, *)
(* nor a driver, however many calls interleave.                              *)
THEOREM UniqueAssignments == Spec => []OneActivePerVehicleAndDriver
<1>1. IInv => OneActivePerVehicleAndDriver
  BY DEF IInv
<1>2. QED
  BY <1>1, Inductive, PTL

(* Two separate lookups in the caller's organization are enough to keep the *)
(* rows of the table inside one organization.                               *)
THEOREM RowsStayInOrganization == Spec => []TenantIsolation
<1>1. IInv => TenantIsolation
  BY DEF IInv
<1>2. QED
  BY <1>1, Inductive, PTL

-----------------------------------------------------------------------------
(***************************************************************************)
(* The requests implement the atomic book of assignments.                  *)
(***************************************************************************)

(* An INSERT enters its pair, while both are free, or is refused. *)
LEMMA CreateAssigns ==
    ASSUME IInv, NEW r \in Requests, AssignCreate(r), assignments' # assignments
    PROVE  Book!Assign(req[r].vehicleId, req[r].driverId)
<1> DEFINE v == req[r].vehicleId
           d == req[r].driverId
<1>1. PICK a \in AssignmentIds \ Created :
         /\ assignments' = [assignments EXCEPT ![a] = NewRow(r)]
         /\ Created' = Created \cup {a}
         /\ Active' = Active \cup {a}
  BY Inserted
<1>2. /\ assignments'[a].vehicleId = v
      /\ assignments'[a].driverId = d
      /\ \A b \in Active : assignments'[b] = assignments[b]
  BY <1>1 DEF IInv, TypeOK, NewRow, Active
<1>3. \A b \in Active : assignments[b].vehicleId # v /\ assignments[b].driverId # d
  BY Inserted DEF UniqueActive, ActiveOfVehicle, ActiveOfDriver
<1> HIDE DEF v, d
<1>4. Pairs' = Pairs \cup {<<v, d>>}
  <2>1. Pairs' = {<<assignments'[b].vehicleId, assignments'[b].driverId>> :
                     b \in Active \cup {a}}
    BY <1>1 DEF Pairs
  <2>2. QED
    BY <1>2, <2>1 DEF Pairs
<1>5. Book!FreeVehicle(v) /\ Book!FreeDriver(d)
  BY <1>3 DEF Book!FreeVehicle, Book!FreeDriver, Pairs
<1>6. QED
  BY <1>4, <1>5 DEF Book!Assign, v, d

(* The UPDATE of an active row removes its pair; a second UPDATE of the same *)
(* row changes no pair.  That no other row holds the same pair is what       *)
(* OneActivePerVehicleAndDriver is needed for.                               *)
LEMMA EndEnds ==
    ASSUME IInv, NEW r \in Requests, EndWrite(r)
    PROVE  Book!Next \/ Pairs' = Pairs
<1> DEFINE a == req[r].assignmentId
           p == <<assignments[a].vehicleId, assignments[a].driverId>>
<1>1. /\ a \in Created
      /\ \A b \in AssignmentIds \ {a} : assignments'[b] = assignments[b]
      /\ Active' = Active \ {a}
  BY Ended
<1>2. Active \subseteq AssignmentIds
  BY DEF Active, Created
<1> HIDE DEF a
<1>3. Pairs' = {<<assignments[b].vehicleId, assignments[b].driverId>> :
                  b \in Active \ {a}}
  BY <1>1, <1>2 DEF Pairs
<1>4. CASE a \in Active
  <2>1. \A b \in Active \ {a} :
           <<assignments[b].vehicleId, assignments[b].driverId>> # p
    BY <1>4 DEF IInv, OneActivePerVehicleAndDriver
  <2>2. p \in Pairs /\ Pairs' = Pairs \ {p}
    BY <1>3, <1>4, <2>1 DEF Pairs
  <2>3. QED
    BY <2>2 DEF Book!Next, Book!End, Pairs
<1>5. CASE a \notin Active
  BY <1>3, <1>5 DEF Pairs
<1>6. QED
  BY <1>4, <1>5

(* Every step of a request is a step of the book or leaves it unchanged. *)
LEMMA StepRefinement == IInv /\ [Next]_vars => Book!Next \/ Pairs' = Pairs
<1> SUFFICES ASSUME IInv, [Next]_vars PROVE Book!Next \/ Pairs' = Pairs
  OBVIOUS
<1>1. CASE assignments' = assignments
  BY <1>1 DEF Pairs, Active, Created
<1>2. CASE assignments' # assignments
  <2>1. PICK r \in Requests : AssignCreate(r) \/ EndWrite(r)
    BY <1>2 DEF Next, Step, Arrival, vars, AssignReadVehicle, AssignReadDriver,
         AssignFindByVehicle, AssignFindByDriver, EndRead, UpdateVehicleStatus,
         UpdateDriverStatus, Abort
  <2>2. CASE AssignCreate(r)
    <3>1. /\ req[r].vehicleId \in Vehicles
          /\ req[r].driverId \in Drivers
      BY <2>2 DEF IInv, RequestOK, Assigning, AssignCreate
    <3>2. Book!Assign(req[r].vehicleId, req[r].driverId)
      BY <1>2, <2>2, CreateAssigns
    <3>3. QED
      BY <3>1, <3>2 DEF Book!Next, Book!Assign, Book!FreeVehicle, Book!FreeDriver
  <2>3. CASE EndWrite(r)
    BY <2>3, EndEnds
  <2>4. QED
    BY <2>1, <2>2, <2>3
<1>3. QED
  BY <1>1, <1>2

(* assignVehicleToDriver and endAssignment, with their separate reads and   *)
(* writes, implement atomic assignments of free vehicles to free drivers.   *)
THEOREM Refinement == Spec => ImplementsBook
<1>1. Init => Book!Init
  BY DEF Init, Book!Init, Pairs, Active, Created
<1>2. IInv /\ [Next]_vars => [Book!Next]_Pairs
  BY StepRefinement
<1>3. QED
  BY <1>1, <1>2, Inductive, PTL DEF Spec, ImplementsBook, Book!Spec, Pairs
=============================================================================
