-------------------------- MODULE Maintenance_proofs --------------------------
(***************************************************************************)
(* Proofs about Maintenance, for every fleet, every number of records and  *)
(* every number of concurrent transactions.                                *)
(***************************************************************************)
EXTENDS MCMaintenance, TLAPS

(* A request in flight works on a record that exists, towards a status that *)
(* is not the first one, with the timestamps this status requires.          *)
RequestOK(r) ==
    req[r].pc # "idle" =>
        /\ req[r].record \in Existing
        /\ req[r].target \in MaintenanceStatus
        /\ req[r].target \in {"IN_PROGRESS", "COMPLETED"} => req[r].startedAt
        /\ req[r].target = "COMPLETED" => req[r].completedAt

WellFormed ==
    /\ TypeOK
    /\ \A r \in Requests : RequestOK(r)
    /\ TimestampsMatchStatus

(* What the row locks and the index give an open transaction: no other one  *)
(* has updated its record, and while it starts work on a vehicle no other   *)
(* one does and no other record of the vehicle is IN_PROGRESS.              *)
StartsWork(r) == Updated(r) /\ req[r].target = "IN_PROGRESS"

LocksOK ==
    /\ \A r, q \in Requests :
          HoldsRow(r) /\ HoldsRow(q) /\ r # q =>
              /\ req[r].record # req[q].record
              /\ StartsWork(r) /\ StartsWork(q) => VehicleOf(r) # VehicleOf(q)
    /\ \A r \in Requests :
          StartsWork(r) => InProgressOf(VehicleOf(r)) \subseteq {req[r].record}

(* The transition a request is about to record, or has recorded, was allowed *)
(* from a status the log of its record shows.                                *)
RequestJustified(r) ==
    req[r].pc # "idle" =>
        \E j \in 1..Len(events[req[r].record]), step \in AllowedMaintenanceTransitions :
            /\ events[req[r].record][j] = MaintenanceEventOf(step[1])
            /\ req[r].target = step[2]

RequestRecorded(r) ==
    req[r].pc = "announce" =>
        \E i \in 1..Len(events[req[r].record]) :
            events[req[r].record][i] = MaintenanceEventOf(req[r].target)

LogsOK ==
    /\ LogIsOfRecord
    /\ TransitionsJustified
    /\ NoPhantomAnnouncement
    /\ \A r \in Requests : RequestJustified(r) /\ RequestRecorded(r)

IInv == WellFormed /\ LocksOK /\ OneInProgressPerVehicle /\ LogsOK

-----------------------------------------------------------------------------
(***************************************************************************)
(* What a step changes.                                                    *)
(***************************************************************************)

USE DEF tables

(* An idle request satisfies whatever is asked of a request in flight. *)
LEMMA IdleType == Idle \in Request /\ Idle.pc = "idle"
BY DEF Idle, Request, Steps

(* A request that answers becomes idle and the others stay as they are. *)
LEMMA RespondEffect ==
    ASSUME TypeOK, NEW r \in Requests, Respond(r)
    PROVE  /\ req' \in [Requests -> Request]
           /\ req'[r].pc = "idle"
           /\ req'[r].record = None
           /\ \A q \in Requests \ {r} : req'[q] = req[q]
BY IdleType DEF TypeOK, Respond, Idle

(* A request that only moves its program counter keeps its locals. *)
LEMMA MoveEffect ==
    ASSUME TypeOK, NEW r \in Requests, NEW pc \in Steps,
           req' = [req EXCEPT ![r].pc = pc]
    PROVE  /\ req' \in [Requests -> Request]
           /\ req'[r] = [req[r] EXCEPT !.pc = pc]
           /\ req'[r].pc = pc
           /\ req'[r].record = req[r].record
           /\ req'[r].target = req[r].target
           /\ req'[r].startedAt = req[r].startedAt
           /\ req'[r].completedAt = req[r].completedAt
           /\ \A q \in Requests \ {r} : req'[q] = req[q]
<1>1. req[r] \in Request
  BY DEF TypeOK
<1>2. /\ req'[r] = [req[r] EXCEPT !.pc = pc]
      /\ \A q \in Requests \ {r} : req'[q] = req[q]
      /\ DOMAIN req' = Requests
  BY DEF TypeOK
<1>3. [req[r] EXCEPT !.pc = pc] \in Request
  BY <1>1 DEF Request
<1>4. req' \in [Requests -> Request]
  BY <1>2, <1>3 DEF TypeOK
<1>5. QED
  BY <1>1, <1>2, <1>4 DEF Request

(* Moves that happen inside a transaction, tables untouched. *)
InsideTx(r) ==
    \/ TxUpdate(r)
    \/ TxIndex(r) /\ ~IndexViolated(r)
    \/ TxCount(r)
    \/ TxReadVehicle(r)

(* Inside its transaction a request keeps what it read and writes no table. *)
LEMMA InsideTxEffect ==
    ASSUME TypeOK, NEW r \in Requests, InsideTx(r)
    PROVE  /\ req' \in [Requests -> Request]
           /\ req[r].pc # "idle"
           /\ req'[r].pc \in TxSteps
           /\ req'[r].record = req[r].record
           /\ req'[r].target = req[r].target
           /\ req'[r].startedAt = req[r].startedAt
           /\ req'[r].completedAt = req[r].completedAt
           /\ \A q \in Requests \ {r} : req'[q] = req[q]
           /\ UNCHANGED tables
<1>1. CASE TxUpdate(r) \/ (TxIndex(r) /\ ~IndexViolated(r)) \/ TxCount(r)
  <2> DEFINE first == IF req[r].target = "IN_PROGRESS" THEN "index"
                      ELSE IF req[r].restore THEN "count" ELSE "commit"
             read == IF InProgressOf(VehicleOf(r)) \ {req[r].record} = {}
                     THEN "readVehicle" ELSE "commit"
  <2>1. \/ req' = [req EXCEPT ![r].pc = first]
        \/ req' = [req EXCEPT ![r].pc = read]
        \/ req' = [req EXCEPT ![r].pc = "readVehicle"]
    <3>1. CASE TxCount(r)
      BY <3>1 DEF TxCount
    <3>2. CASE TxUpdate(r)
      BY <3>2 DEF TxUpdate
    <3>3. CASE TxIndex(r) /\ ~IndexViolated(r)
      BY <3>3 DEF TxIndex
    <3>4. QED
      BY <1>1, <3>1, <3>2, <3>3
  <2>2. first \in TxSteps /\ read \in TxSteps
    BY DEF TxSteps, UpdatedSteps
  <2> HIDE DEF first, read
  <2>3. req[r].pc # "idle" /\ UNCHANGED tables
    BY <1>1 DEF TxUpdate, TxIndex, TxCount
  <2>4. "readVehicle" \in TxSteps /\ TxSteps \subseteq Steps
    BY DEF TxSteps, UpdatedSteps, Steps
  <2>5. PICK pc \in TxSteps : req' = [req EXCEPT ![r].pc = pc]
    BY <2>1, <2>2, <2>4
  <2>6. pc \in Steps
    BY <2>4, <2>5
  <2>7. /\ req' \in [Requests -> Request]
        /\ req'[r].pc = pc /\ req'[r].record = req[r].record
        /\ req'[r].target = req[r].target
        /\ req'[r].startedAt = req[r].startedAt /\ req'[r].completedAt = req[r].completedAt
        /\ \A p \in Requests \ {r} : req'[p] = req[p]
    BY <2>5, <2>6, MoveEffect
  <2> HIDE DEF tables
  <2>8. QED
    BY <2>3, <2>5, <2>7
<1>2. CASE TxReadVehicle(r)
  <2> DEFINE w == VehicleWrite(req[r].target, vehicleStatus[VehicleOf(r)])
             q == [req[r] EXCEPT !.pc = "commit", !.setVehicle = w]
  <2>1. req[r] \in Request
    BY DEF TypeOK
  <2>2. w \in VehicleStatus \cup {None}
    BY DEF VehicleWrite, VehicleStatus
  <2> HIDE DEF w
  <2>3. /\ q \in Request
        /\ q.pc = "commit"
        /\ q.record = req[r].record
        /\ q.target = req[r].target
        /\ q.startedAt = req[r].startedAt
        /\ q.completedAt = req[r].completedAt
    BY <2>1, <2>2 DEF Request, Steps, TxSteps, UpdatedSteps
  <2>4. req' = [req EXCEPT ![r] = q] /\ req[r].pc = "readVehicle" /\ UNCHANGED tables
    BY <1>2 DEF TxReadVehicle, w
  <2> HIDE DEF q
  <2>5. QED
    BY <2>3, <2>4 DEF TypeOK, TxSteps, UpdatedSteps
<1>3. QED
  BY <1>1, <1>2 DEF InsideTx

(* The read of a record that is about to move. *)
LEMMA ReadEffect ==
    ASSUME TypeOK, NEW r \in Requests, NEW m \in Records,
           NEW target \in MaintenanceStatus, ReadRecord(r, m, target)
    PROVE  /\ req' \in [Requests -> Request]
           /\ req[r].pc = "idle"
           /\ req'[r].pc = "update"
           /\ req'[r].record = m
           /\ req'[r].target = target
           /\ req'[r].startedAt = (target = "IN_PROGRESS" \/ records[m].startedAt)
           /\ req'[r].completedAt = (target = "COMPLETED" \/ records[m].completedAt)
           /\ \A q \in Requests \ {r} : req'[q] = req[q]
           /\ m \in Existing
           /\ <<records[m].status, target>> \in AllowedMaintenanceTransitions
           /\ UNCHANGED tables
<1> DEFINE q == [pc |-> "update",
                 record |-> m,
                 target |-> target,
                 startedAt |-> target = "IN_PROGRESS" \/ records[m].startedAt,
                 completedAt |-> target = "COMPLETED" \/ records[m].completedAt,
                 restore |-> ShouldRestoreVehicle(target, records[m].status),
                 setVehicle |-> None]
<1>1. q \in Request
  BY DEF Request, Steps, ShouldRestoreVehicle
<1>2. /\ req' = [req EXCEPT ![r] = q]
      /\ req[r].pc = "idle"
      /\ m \in Existing
      /\ <<records[m].status, target>> \in AllowedMaintenanceTransitions
      /\ UNCHANGED tables
  BY DEF ReadRecord, isAllowedMaintenanceTransition
<1>3. req' \in [Requests -> Request] /\ req'[r] = q
  BY <1>1, <1>2 DEF TypeOK
<1>4. QED
  BY <1>2, <1>3 DEF TypeOK

(* A new record: the row and the first entry of its log. *)
LEMMA ScheduleEffect ==
    ASSUME TypeOK, NEW r \in Requests, NEW m \in Records, NEW v \in Vehicles,
           ScheduleMaintenance(r, m, v)
    PROVE  /\ m \notin Existing
           /\ records' \in [Records -> Row \cup {None}]
           /\ records'[m].vehicleId = v
           /\ records'[m].status = "SCHEDULED"
           /\ \A n \in Records \ {m} : records'[n] = records[n]
           /\ Existing' = Existing \cup {m}
           /\ events'[m] = <<"MAINTENANCE_SCHEDULED">>
           /\ events' \in [Records -> Seq(MaintenanceEventType)]
           /\ \A n \in Records \ {m} : events'[n] = events[n]
           /\ UNCHANGED <<vehicleStatus, announced, req>>
<1> DEFINE row == [vehicleId |-> v, status |-> "SCHEDULED",
                   startedAt |-> FALSE, completedAt |-> FALSE]
<1>1. row \in Row
  BY DEF Row, MaintenanceStatus
<1>2. /\ records[m] = None
      /\ records' = [records EXCEPT ![m] = row]
      /\ events' = [events EXCEPT ![m] = <<"MAINTENANCE_SCHEDULED">>]
      /\ UNCHANGED <<vehicleStatus, announced, req>>
  BY DEF ScheduleMaintenance, MaintenanceEventOf
<1> HIDE DEF row
<1>3. /\ records' \in [Records -> Row \cup {None}]
      /\ records'[m] = row
      /\ \A n \in Records \ {m} : records'[n] = records[n]
  BY <1>1, <1>2 DEF TypeOK
<1>4. /\ events' \in [Records -> Seq(MaintenanceEventType)]
      /\ events'[m] = <<"MAINTENANCE_SCHEDULED">>
      /\ \A n \in Records \ {m} : events'[n] = events[n]
  BY <1>2 DEF TypeOK, MaintenanceEventType
<1>5. m \notin Existing /\ Existing' = Existing \cup {m}
  BY <1>1, <1>2, <1>3, NoneIsNoRow DEF Existing
<1>6. row.vehicleId = v /\ row.status = "SCHEDULED"
  BY DEF row
<1>7. QED
  BY <1>2, <1>3, <1>4, <1>5, <1>6

(* Every status has an event. *)
LEMMA EventType ==
    \A s \in MaintenanceStatus : MaintenanceEventOf(s) \in MaintenanceEventType
BY DEF MaintenanceStatus, MaintenanceEventOf, MaintenanceEventType

(* A commit: the record, its log and the vehicle. *)
LEMMA CommitEffect ==
    ASSUME WellFormed, NEW r \in Requests, TxCommit(r)
    PROVE  LET m == req[r].record
           IN  /\ m \in Existing
               /\ req[r].pc = "commit"
               /\ req[r].target \in MaintenanceStatus
               /\ records' \in [Records -> Row \cup {None}]
               /\ records'[m].vehicleId = records[m].vehicleId
               /\ records'[m].status = req[r].target
               /\ records'[m].startedAt = req[r].startedAt
               /\ records'[m].completedAt = req[r].completedAt
               /\ \A n \in Records \ {m} : records'[n] = records[n]
               /\ Existing' = Existing
               /\ events' \in [Records -> Seq(MaintenanceEventType)]
               /\ events'[m] = Append(events[m], MaintenanceEventOf(req[r].target))
               /\ \A n \in Records \ {m} : events'[n] = events[n]
               /\ vehicleStatus' \in [Vehicles -> VehicleStatus]
               /\ announced' = announced
<1> DEFINE m == req[r].record
           row == [vehicleId |-> records[m].vehicleId, status |-> req[r].target,
                   startedAt |-> req[r].startedAt,
                   completedAt |-> req[r].completedAt]
           e == MaintenanceEventOf(req[r].target)
<1>1. /\ m \in Existing /\ m \in Records
      /\ req[r] \in Request
      /\ req[r].target \in MaintenanceStatus
      /\ req[r].pc = "commit"
  BY DEF WellFormed, TypeOK, RequestOK, TxCommit, Existing
<1>2. records[m] \in Row
  BY <1>1 DEF WellFormed, TypeOK, Existing
<1>3. row \in Row
  BY <1>1, <1>2 DEF Row, Request
<1>4. e \in MaintenanceEventType
  BY <1>1, EventType
<1>5. /\ records' = [records EXCEPT ![m] = row]
      /\ events' = [events EXCEPT ![m] = Append(events[m], e)]
      /\ announced' = announced
  BY DEF TxCommit, VehicleOf
<1>6. vehicleStatus' \in [Vehicles -> VehicleStatus]
  <2>1. CASE req[r].setVehicle = None
    BY <2>1 DEF TxCommit, WellFormed, TypeOK
  <2>2. CASE req[r].setVehicle # None
    <3>1. req[r].setVehicle \in VehicleStatus
      BY <1>1, <2>2 DEF Request
    <3>2. vehicleStatus' = [vehicleStatus EXCEPT ![VehicleOf(r)] = req[r].setVehicle]
      BY <2>2 DEF TxCommit
    <3>3. QED
      BY <3>1, <3>2 DEF WellFormed, TypeOK
  <2>3. QED
    BY <2>1, <2>2
<1>7. /\ row.vehicleId = records[m].vehicleId
      /\ row.status = req[r].target
      /\ row.startedAt = req[r].startedAt
      /\ row.completedAt = req[r].completedAt
  OBVIOUS
<1> HIDE DEF row, e, m
<1>8. /\ records' \in [Records -> Row \cup {None}]
      /\ records'[m] = row
      /\ \A n \in Records \ {m} : records'[n] = records[n]
      /\ Existing' = Existing
  BY <1>1, <1>3, <1>5, NoneIsNoRow DEF WellFormed, TypeOK, Existing
<1>9. /\ events' \in [Records -> Seq(MaintenanceEventType)]
      /\ events'[m] = Append(events[m], e)
      /\ \A n \in Records \ {m} : events'[n] = events[n]
  BY <1>1, <1>4, <1>5 DEF WellFormed, TypeOK
<1>10. QED
  BY <1>1, <1>5, <1>6, <1>7, <1>8, <1>9 DEF m, e

(* Then the request announces the transition, or answers. *)
LEMMA CommitMoves ==
    ASSUME WellFormed, NEW r \in Requests, TxCommit(r)
    PROVE  /\ req' \in [Requests -> Request]
           /\ \/ req'[r].pc = "idle" /\ req'[r].record = None
              \/ /\ req'[r].pc = "announce"
                 /\ req'[r].record = req[r].record
                 /\ req'[r].target = req[r].target
                 /\ req'[r].startedAt = req[r].startedAt
                 /\ req'[r].completedAt = req[r].completedAt
           /\ \A q \in Requests \ {r} : req'[q] = req[q]
<1>1. TypeOK
  BY DEF WellFormed
<1>2. CASE Respond(r)
  BY <1>1, <1>2, RespondEffect
<1>3. CASE req' = [req EXCEPT ![r].pc = "announce"]
  BY <1>1, <1>3, MoveEffect DEF Steps
<1>4. QED
  BY <1>2, <1>3 DEF TxCommit

(* Every step is of one of these kinds. *)
Answer(r) == req[r].pc # "idle" /\ Respond(r) /\ UNCHANGED tables

ByHand ==
    /\ \/ \E v \in Vehicles, s \in VehicleInputs :
             vehicleStatus' = [vehicleStatus EXCEPT ![v] = s]
       \/ vehicleStatus' = vehicleStatus
    /\ UNCHANGED <<records, events, announced, req>>

(* The disjuncts of Next, regrouped by what they change. *)
LEMMA StepKinds ==
    [Next]_vars =>
        \/ \E r \in Requests, m \in Records, v \in Vehicles : ScheduleMaintenance(r, m, v)
        \/ \E r \in Requests, m \in Records, target \in MaintenanceStatus :
              ReadRecord(r, m, target)
        \/ \E r \in Requests :
              InsideTx(r) \/ TxCommit(r) \/ Announce(r) \/ Answer(r)
        \/ ByHand
<1> SUFFICES ASSUME [Next]_vars
             PROVE  \/ \E r \in Requests, m \in Records, v \in Vehicles :
                          ScheduleMaintenance(r, m, v)
                    \/ \E r \in Requests, m \in Records, target \in MaintenanceStatus :
                          ReadRecord(r, m, target)
                    \/ \E r \in Requests :
                          InsideTx(r) \/ TxCommit(r) \/ Announce(r) \/ Answer(r)
                    \/ ByHand
  OBVIOUS
<1>1. ASSUME NEW r \in Requests, TxIndex(r)
      PROVE  InsideTx(r) \/ Answer(r)
  BY <1>1 DEF InsideTx, Answer, TxIndex
<1>2. ASSUME NEW r \in Requests, Abort(r)
      PROVE  Answer(r)
  BY <1>2 DEF Abort, Answer
<1>3. ASSUME NEW r \in Requests, NEW v \in Vehicles, NEW s \in VehicleInputs,
             UpdateVehicleStatus(r, v, s)
      PROVE  ByHand
  BY <1>3 DEF UpdateVehicleStatus, ByHand
<1>4. UNCHANGED vars => ByHand
  BY DEF vars, ByHand
<1>5. QED
  BY <1>1, <1>2, <1>3, <1>4 DEF Next, Arrival, Step, InsideTx

-----------------------------------------------------------------------------
(***************************************************************************)
(* Types, requests and timestamps.                                         *)
(***************************************************************************)

(* A request that keeps its locals, on records that do not disappear. *)
LEMMA RequestKept ==
    ASSUME NEW r \in Requests, RequestOK(r), Existing \subseteq Existing',
           req[r].pc # "idle" \/ req'[r].pc = "idle",
           \/ req'[r].pc = "idle"
           \/ /\ req'[r].record = req[r].record
              /\ req'[r].target = req[r].target
              /\ req'[r].startedAt = req[r].startedAt
              /\ req'[r].completedAt = req[r].completedAt
    PROVE  RequestOK(r)'
BY DEF RequestOK

(* A completion was allowed because the record was IN_PROGRESS when it was  *)
(* read, and so had been started.                                           *)
LEMMA ReadWellFormed ==
    ASSUME WellFormed, NEW r \in Requests, NEW m \in Records,
           NEW target \in MaintenanceStatus, ReadRecord(r, m, target)
    PROVE  WellFormed'
<1>1. TypeOK
  BY DEF WellFormed
<1>2. /\ req' \in [Requests -> Request]
      /\ req'[r].record = m
      /\ req'[r].target = target
      /\ req'[r].startedAt = (target = "IN_PROGRESS" \/ records[m].startedAt)
      /\ req'[r].completedAt = (target = "COMPLETED" \/ records[m].completedAt)
      /\ \A q \in Requests \ {r} : req'[q] = req[q]
      /\ m \in Existing
      /\ <<records[m].status, target>> \in AllowedMaintenanceTransitions
      /\ UNCHANGED tables
  BY <1>1, ReadEffect
<1>3. Existing' = Existing
  BY <1>2 DEF Existing
<1>4. target = "COMPLETED" => records[m].status = "IN_PROGRESS"
  BY <1>2 DEF AllowedMaintenanceTransitions
<1>5. target = "COMPLETED" => records[m].startedAt
  BY <1>2, <1>4 DEF WellFormed, TimestampsMatchStatus
<1>6. RequestOK(r)'
  BY <1>2, <1>3, <1>5 DEF RequestOK
<1>7. \A q \in Requests : RequestOK(q)'
  BY <1>2, <1>3, <1>6 DEF WellFormed, RequestOK
<1>8. TypeOK' /\ TimestampsMatchStatus'
  BY <1>2, <1>3 DEF WellFormed, TypeOK, TimestampsMatchStatus
<1>9. QED
  BY <1>7, <1>8 DEF WellFormed

(* A commit writes back the timestamps computed from the read. *)
LEMMA CommitWellFormed ==
    ASSUME WellFormed, NEW r \in Requests, TxCommit(r)
    PROVE  WellFormed'
<1> DEFINE m == req[r].record
<1>1. /\ m \in Existing
      /\ req[r].pc = "commit"
      /\ records' \in [Records -> Row \cup {None}]
      /\ records'[m].status = req[r].target
      /\ records'[m].startedAt = req[r].startedAt
      /\ records'[m].completedAt = req[r].completedAt
      /\ \A n \in Records \ {m} : records'[n] = records[n]
      /\ Existing' = Existing
      /\ events' \in [Records -> Seq(MaintenanceEventType)]
      /\ vehicleStatus' \in [Vehicles -> VehicleStatus]
      /\ announced' = announced
  BY CommitEffect
<1>2. RequestOK(r)
  BY DEF WellFormed
<1>3. TimestampsMatchStatus'
  <2>1. ASSUME NEW n \in Existing
        PROVE  /\ records'[n].status \in {"IN_PROGRESS", "COMPLETED"} =>
                     records'[n].startedAt
               /\ records'[n].status = "COMPLETED" => records'[n].completedAt
    <3>1. CASE n = m
      BY <1>1, <1>2, <3>1 DEF RequestOK
    <3>2. CASE n # m
      BY <1>1, <3>2 DEF WellFormed, TimestampsMatchStatus, Existing
    <3>3. QED
      BY <3>1, <3>2
  <2>2. QED
    BY <1>1, <2>1 DEF TimestampsMatchStatus
<1>4. \A q \in Requests : RequestOK(q)'
  <2>1. RequestOK(r)'
    BY <1>1, <1>2, CommitMoves, RequestKept
  <2>2. ASSUME NEW q \in Requests \ {r} PROVE RequestOK(q)'
    BY <1>1, <2>2, CommitMoves DEF WellFormed, RequestOK
  <2>3. QED
    BY <2>1, <2>2
<1>5. TypeOK'
  BY <1>1, CommitMoves DEF WellFormed, TypeOK
<1>6. QED
  BY <1>3, <1>4, <1>5 DEF WellFormed

(* A step that changes no record: requests move inside their transaction,   *)
(* announce or answer.                                                      *)
LEMMA MoveWellFormed ==
    ASSUME WellFormed, NEW r \in Requests,
           InsideTx(r) \/ Announce(r) \/ Answer(r)
    PROVE  WellFormed'
<1>1. TypeOK /\ RequestOK(r)
  BY DEF WellFormed
<1>2. UNCHANGED <<vehicleStatus, records, events>>
  BY <1>1, InsideTxEffect DEF Announce, Answer
<1>3. Existing' = Existing
  BY <1>2 DEF Existing
<1>4. /\ req' \in [Requests -> Request]
      /\ \A q \in Requests \ {r} : req'[q] = req[q]
      /\ RequestOK(r)'
  <2>1. CASE InsideTx(r)
    BY <1>1, <1>3, <2>1, InsideTxEffect, RequestKept
  <2>2. CASE Announce(r) \/ Answer(r)
    BY <1>1, <2>2, RespondEffect DEF Announce, Answer, RequestOK
  <2>3. QED
    BY <2>1, <2>2
<1>5. announced' \in [Records -> SUBSET MaintenanceEventType]
  <2>1. CASE Announce(r)
    <3>1. MaintenanceEventOf(req[r].target) \in MaintenanceEventType
      BY <1>1, <2>1, EventType DEF RequestOK, Announce
    <3>2. QED
      BY <1>1, <2>1, <3>1 DEF TypeOK, Announce
  <2>2. CASE InsideTx(r) \/ Answer(r)
    BY <1>1, <2>2, InsideTxEffect DEF TypeOK, Answer
  <2>3. QED
    BY <2>1, <2>2
<1>6. \A q \in Requests : RequestOK(q)'
  BY <1>3, <1>4 DEF WellFormed, RequestOK
<1>7. TypeOK' /\ TimestampsMatchStatus'
  BY <1>2, <1>3, <1>4, <1>5 DEF WellFormed, TypeOK, TimestampsMatchStatus
<1>8. QED
  BY <1>6, <1>7 DEF WellFormed

(* A record that is scheduled has not started. *)
LEMMA ScheduleWellFormed ==
    ASSUME WellFormed, NEW r \in Requests, NEW m \in Records, NEW v \in Vehicles,
           ScheduleMaintenance(r, m, v)
    PROVE  WellFormed'
<1>1. TypeOK
  BY DEF WellFormed
<1>2. /\ records' \in [Records -> Row \cup {None}]
      /\ records'[m].status = "SCHEDULED"
      /\ \A n \in Records \ {m} : records'[n] = records[n]
      /\ Existing' = Existing \cup {m}
      /\ events' \in [Records -> Seq(MaintenanceEventType)]
      /\ UNCHANGED <<vehicleStatus, announced, req>>
  BY <1>1, ScheduleEffect
<1>3. \A q \in Requests : RequestOK(q)'
  BY <1>2 DEF WellFormed, RequestOK
<1>4. TimestampsMatchStatus'
  BY <1>2 DEF WellFormed, TimestampsMatchStatus, Existing
<1>5. TypeOK'
  BY <1>1, <1>2 DEF TypeOK
<1>6. QED
  BY <1>3, <1>4, <1>5 DEF WellFormed

(* A status set by hand, or a step that changes nothing. *)
LEMMA ByHandWellFormed == WellFormed /\ ByHand => WellFormed'
<1> SUFFICES ASSUME WellFormed, ByHand PROVE WellFormed'
  OBVIOUS
<1>1. vehicleStatus' \in [Vehicles -> VehicleStatus]
  BY MaintenanceAssumption DEF WellFormed, TypeOK, ByHand
<1>2. UNCHANGED <<records, events, announced, req>> /\ Existing' = Existing
  BY DEF ByHand, Existing
<1>3. QED
  BY <1>1, <1>2 DEF WellFormed, TypeOK, RequestOK, TimestampsMatchStatus

(* The first layer of the invariant is inductive by itself. *)
LEMMA InitWellFormed == Init => WellFormed
<1> SUFFICES ASSUME Init PROVE WellFormed
  OBVIOUS
<1>1. TypeOK
  BY IdleType DEF Init, TypeOK, VehicleStatus
<1>2. Existing = {}
  BY DEF Init, Existing
<1>3. \A r \in Requests : RequestOK(r)
  BY IdleType DEF Init, RequestOK
<1>4. QED
  BY <1>1, <1>2, <1>3 DEF WellFormed, TimestampsMatchStatus

(* Every step keeps the first layer. *)
LEMMA NextWellFormed == WellFormed /\ [Next]_vars => WellFormed'
BY StepKinds, ScheduleWellFormed, ReadWellFormed, MoveWellFormed,
   CommitWellFormed, ByHandWellFormed

-----------------------------------------------------------------------------
(***************************************************************************)
(* Row locks and the index.                                                *)
(***************************************************************************)

Exclusive == WellFormed /\ LocksOK /\ OneInProgressPerVehicle

(* A transaction that has updated its record holds the row. *)
LEMMA UpdatedHolds == \A r \in Requests : StartsWork(r) => HoldsRow(r)
BY DEF StartsWork, Updated, HoldsRow, TxSteps

(* A step that locks no row, updates none and changes no record. *)
LEMMA LocksKept ==
    ASSUME Exclusive, records' = records,
           \A q \in Requests :
               /\ Updated(q)' => Updated(q)
               /\ HoldsRow(q)' =>
                      /\ HoldsRow(q)
                      /\ req'[q].record = req[q].record
                      /\ req'[q].target = req[q].target
    PROVE  LocksOK' /\ OneInProgressPerVehicle'
<1>0. \A q \in Requests : StartsWork(q)' => HoldsRow(q)'
  BY DEF StartsWork, Updated, HoldsRow, TxSteps
<1>1. OneInProgressPerVehicle'
  BY DEF Exclusive, OneInProgressPerVehicle, InProgressOf, Existing
<1>2. \A q \in Requests : StartsWork(q)' => StartsWork(q)
  BY <1>0 DEF StartsWork
<1>3. \A q \in Requests : HoldsRow(q)' => VehicleOf(q)' = VehicleOf(q)
  BY DEF VehicleOf
<1>4. \A v \in Vehicles : InProgressOf(v)' = InProgressOf(v)
  BY DEF InProgressOf, Existing
<1>5. ASSUME NEW r \in Requests, NEW q \in Requests, HoldsRow(r)', HoldsRow(q)', r # q
      PROVE  /\ req'[r].record # req'[q].record
             /\ StartsWork(r)' /\ StartsWork(q)' => VehicleOf(r)' # VehicleOf(q)'
  BY <1>2, <1>3, <1>5 DEF Exclusive, LocksOK
<1>6. ASSUME NEW r \in Requests, StartsWork(r)'
      PROVE  InProgressOf(VehicleOf(r))' \subseteq {req'[r].record}
  <2>1. HoldsRow(r)' /\ StartsWork(r)
    BY <1>0, <1>2, <1>6
  <2>2. InProgressOf(VehicleOf(r)) \subseteq {req[r].record}
    BY <2>1 DEF Exclusive, LocksOK
  <2>3. InProgressOf(VehicleOf(r))' = InProgressOf(VehicleOf(r))
    BY <1>3, <2>1 DEF InProgressOf, Existing
  <2>4. QED
    BY <2>1, <2>2, <2>3
<1>7. QED
  BY <1>1, <1>5, <1>6 DEF LocksOK

(* The UPDATE that takes a row lock finds the row unlocked and, for a start, *)
(* the index without another entry, committed or not.                        *)
LEMMA UpdateLocks ==
    ASSUME Exclusive, NEW r \in Requests, InsideTx(r)
    PROVE  LocksOK' /\ OneInProgressPerVehicle'
<1>1. /\ req'[r].record = req[r].record
      /\ req'[r].target = req[r].target
      /\ \A q \in Requests \ {r} : req'[q] = req[q]
      /\ records' = records
  BY InsideTxEffect DEF Exclusive, WellFormed
<1>2. CASE Updated(r)
  <2>1. \A q \in Requests :
           /\ Updated(q)' => Updated(q)
           /\ HoldsRow(q)' =>
                  /\ HoldsRow(q)
                  /\ req'[q].record = req[q].record
                  /\ req'[q].target = req[q].target
    BY <1>1, <1>2 DEF HoldsRow, Updated, TxSteps
  <2>2. QED
    BY <1>1, <2>1, LocksKept
<1>3. CASE ~Updated(r)
  <2>0. TxUpdate(r) \/ (TxIndex(r) /\ ~IndexViolated(r))
    BY <1>3 DEF InsideTx, TxCount, TxReadVehicle, Updated, UpdatedSteps
  <2>1. StartsWork(r)' => TxIndex(r) /\ ~IndexViolated(r)
    <3>1. CASE TxUpdate(r)
      <4> DEFINE first == IF req[r].target = "IN_PROGRESS" THEN "index"
                          ELSE IF req[r].restore THEN "count" ELSE "commit"
      <4>0. req' = [req EXCEPT ![r].pc = first]
        BY <3>1 DEF TxUpdate
      <4>1. /\ first \in TxSteps
            /\ req[r].target = "IN_PROGRESS" => first = "index"
        BY DEF TxSteps, UpdatedSteps
      <4> HIDE DEF first
      <4>2. req[r].target = "IN_PROGRESS" => req'[r].pc = "index"
        BY <4>0, <4>1, MoveEffect DEF Exclusive, WellFormed, Steps
      <4>3. QED
        BY <1>1, <4>2 DEF StartsWork, Updated, UpdatedSteps
    <3>2. QED
      BY <2>0, <3>1
  <2>2. \A q \in Requests \ {r} : HoldsRow(q) => req[q].record # req[r].record
    <3>1. CASE TxUpdate(r)
      BY <3>1 DEF TxUpdate, RowLocked
    <3>2. CASE TxIndex(r)
      BY <3>2 DEF TxIndex, HoldsRow, TxSteps, Exclusive, LocksOK
    <3>3. QED
      BY <2>0, <3>1, <3>2
  <2>3. ASSUME NEW q \in Requests \ {r}, StartsWork(q), StartsWork(r)'
        PROVE  VehicleOf(q) # VehicleOf(r)
    BY <2>1, <2>3 DEF TxIndex, IndexUndecided, StartsWork
  <2>4. StartsWork(r)' => InProgressOf(VehicleOf(r)) \subseteq {req[r].record}
    BY <2>1 DEF IndexViolated
  <2>5. \A q \in Requests : /\ req'[q].record = req[q].record
                            /\ req'[q].target = req[q].target
                            /\ VehicleOf(q)' = VehicleOf(q)
    BY <1>1 DEF VehicleOf
  <2>6. \A q \in Requests \ {r} : /\ HoldsRow(q)' <=> HoldsRow(q)
                                  /\ StartsWork(q)' <=> StartsWork(q)
    BY <1>1 DEF HoldsRow, StartsWork, Updated
  <2>7. ASSUME NEW p \in Requests, NEW q \in Requests,
               HoldsRow(p)', HoldsRow(q)', p # q
        PROVE  /\ req'[p].record # req'[q].record
               /\ StartsWork(p)' /\ StartsWork(q)' => VehicleOf(p)' # VehicleOf(q)'
    <3>1. CASE p # r /\ q # r
      BY <2>5, <2>6, <2>7, <3>1 DEF Exclusive, LocksOK
    <3>2. CASE p = r \/ q = r
      BY <2>2, <2>3, <2>5, <2>6, <2>7, <3>2
    <3>3. QED
      BY <3>1, <3>2
  <2>8. ASSUME NEW q \in Requests, StartsWork(q)'
        PROVE  InProgressOf(VehicleOf(q))' \subseteq {req'[q].record}
    <3>1. InProgressOf(VehicleOf(q)) \subseteq {req[q].record}
      BY <2>4, <2>6, <2>8 DEF Exclusive, LocksOK
    <3>2. InProgressOf(VehicleOf(q))' = InProgressOf(VehicleOf(q))
      BY <1>1, <2>5 DEF InProgressOf, Existing
    <3>3. QED
      BY <2>5, <3>1, <3>2
  <2>9. OneInProgressPerVehicle'
    BY <1>1 DEF Exclusive, OneInProgressPerVehicle, InProgressOf, Existing
  <2>10. QED
    BY <2>7, <2>8, <2>9 DEF LocksOK
<1>4. QED
  BY <1>2, <1>3

(* A commit releases its locks; the only record it can put in progress is    *)
(* its own, on a vehicle that had no other.                                  *)
LEMMA CommitLocks ==
    ASSUME Exclusive, NEW r \in Requests, TxCommit(r)
    PROVE  LocksOK' /\ OneInProgressPerVehicle'
<1> DEFINE m == req[r].record
<1>0. WellFormed
  BY DEF Exclusive
<1>1. /\ m \in Existing
      /\ req[r].pc = "commit"
      /\ records'[m].vehicleId = records[m].vehicleId
      /\ records'[m].status = req[r].target
      /\ \A n \in Records \ {m} : records'[n] = records[n]
      /\ Existing' = Existing
  BY <1>0, CommitEffect
<1>2. /\ ~HoldsRow(r)'
      /\ \A q \in Requests \ {r} : req'[q] = req[q]
  BY <1>0, CommitMoves DEF HoldsRow, TxSteps, UpdatedSteps
<1>3. HoldsRow(r) /\ Updated(r)
  BY <1>1 DEF HoldsRow, Updated, TxSteps, UpdatedSteps
<1>4. \A n \in Existing : records'[n].vehicleId = records[n].vehicleId
  BY <1>1 DEF Existing
<1>5. ASSUME NEW n \in Existing', records'[n].status = "IN_PROGRESS"
      PROVE  \/ n \in InProgressOf(records[n].vehicleId)
             \/ n = m /\ StartsWork(r)
  BY <1>1, <1>3, <1>5 DEF InProgressOf, StartsWork, Existing
<1>6. StartsWork(r) => InProgressOf(records[m].vehicleId) \subseteq {m}
  BY DEF Exclusive, LocksOK, VehicleOf
<1>7. \A q \in Requests \ {r} : HoldsRow(q)' =>
         /\ HoldsRow(q)
         /\ req[q].record \in Existing
         /\ VehicleOf(q)' = VehicleOf(q)
         /\ StartsWork(q)' <=> StartsWork(q)
  <2>1. ASSUME NEW q \in Requests \ {r}, HoldsRow(q)'
        PROVE  HoldsRow(q) /\ req[q].record \in Existing
    BY <1>0, <1>2, <2>1 DEF HoldsRow, WellFormed, RequestOK, TxSteps, UpdatedSteps
  <2>2. QED
    BY <1>2, <1>4, <2>1 DEF VehicleOf, StartsWork, Updated
<1>8. ASSUME NEW p \in Requests, NEW q \in Requests,
             HoldsRow(p)', HoldsRow(q)', p # q
      PROVE  /\ req'[p].record # req'[q].record
             /\ StartsWork(p)' /\ StartsWork(q)' => VehicleOf(p)' # VehicleOf(q)'
  BY <1>2, <1>7, <1>8 DEF Exclusive, LocksOK
<1>9. ASSUME NEW q \in Requests, StartsWork(q)',
             NEW n \in InProgressOf(VehicleOf(q))'
      PROVE  n = req'[q].record
  <2>1. q # r /\ HoldsRow(q) /\ StartsWork(q) /\ VehicleOf(q)' = VehicleOf(q)
    BY <1>2, <1>7, <1>9 DEF StartsWork, Updated, HoldsRow, TxSteps
  <2>2. /\ n \in Existing' /\ n \in Existing
        /\ records'[n].status = "IN_PROGRESS"
        /\ records[n].vehicleId = VehicleOf(q)
    BY <1>1, <1>4, <1>9, <2>1 DEF InProgressOf
  <2>3. CASE n \in InProgressOf(records[n].vehicleId)
    BY <1>2, <2>1, <2>2, <2>3 DEF Exclusive, LocksOK
  <2>4. CASE n = m /\ StartsWork(r)
    BY <1>3, <2>1, <2>2, <2>4 DEF Exclusive, LocksOK, VehicleOf
  <2>5. QED
    BY <1>5, <2>2, <2>3, <2>4
<1>10. OneInProgressPerVehicle'
  <2>1. ASSUME NEW v \in Vehicles, NEW n \in InProgressOf(v)', NEW k \in InProgressOf(v)'
        PROVE  n = k
    <3>1. /\ n \in Existing' /\ records'[n].status = "IN_PROGRESS"
          /\ k \in Existing' /\ records'[k].status = "IN_PROGRESS"
          /\ records[n].vehicleId = v /\ records[k].vehicleId = v
      BY <1>1, <1>4 DEF InProgressOf
    <3>2. CASE n \in InProgressOf(v) /\ k \in InProgressOf(v)
      BY <3>2 DEF Exclusive, OneInProgressPerVehicle
    <3>3. CASE StartsWork(r) /\ (n = m \/ k = m)
      BY <1>5, <1>6, <3>1, <3>3
    <3>4. QED
      BY <1>5, <3>1, <3>2, <3>3
  <2>2. QED
    BY <2>1 DEF OneInProgressPerVehicle
<1>11. QED
  BY <1>8, <1>9, <1>10 DEF LocksOK

(* A scheduled record is neither in progress nor in any transaction yet. *)
LEMMA ScheduleLocks ==
    ASSUME Exclusive, NEW r \in Requests, NEW m \in Records, NEW v \in Vehicles,
           ScheduleMaintenance(r, m, v)
    PROVE  LocksOK' /\ OneInProgressPerVehicle'
<1>1. /\ m \notin Existing
      /\ records'[m].status = "SCHEDULED"
      /\ \A n \in Records \ {m} : records'[n] = records[n]
      /\ Existing' = Existing \cup {m}
      /\ req' = req
  BY ScheduleEffect DEF Exclusive, WellFormed
<1>2. ASSUME NEW w PROVE InProgressOf(w)' = InProgressOf(w)
  BY <1>1 DEF InProgressOf, Existing
<1>3. OneInProgressPerVehicle'
  BY <1>2 DEF Exclusive, OneInProgressPerVehicle
<1>4. \A q \in Requests : (HoldsRow(q)' <=> HoldsRow(q)) /\ (StartsWork(q)' <=> StartsWork(q))
  BY <1>1 DEF HoldsRow, StartsWork, Updated
<1>5. ASSUME NEW q \in Requests, HoldsRow(q)
      PROVE  VehicleOf(q)' = VehicleOf(q)
  <2>1. req[q].record \in Existing
    BY <1>5 DEF Exclusive, WellFormed, RequestOK, HoldsRow, TxSteps, UpdatedSteps
  <2>2. QED
    BY <1>1, <2>1 DEF VehicleOf, Existing
<1>6. ASSUME NEW p \in Requests, NEW q \in Requests,
             HoldsRow(p)', HoldsRow(q)', p # q
      PROVE  /\ req'[p].record # req'[q].record
             /\ StartsWork(p)' /\ StartsWork(q)' => VehicleOf(p)' # VehicleOf(q)'
  BY <1>1, <1>4, <1>5, <1>6 DEF Exclusive, LocksOK
<1>7. ASSUME NEW q \in Requests, StartsWork(q)'
      PROVE  InProgressOf(VehicleOf(q))' \subseteq {req'[q].record}
  <2>1. StartsWork(q) /\ VehicleOf(q)' = VehicleOf(q)
    BY <1>4, <1>5, <1>7, UpdatedHolds
  <2>2. InProgressOf(VehicleOf(q))' = InProgressOf(VehicleOf(q))
    BY <1>1, <2>1 DEF InProgressOf, Existing
  <2>3. QED
    BY <1>1, <2>1, <2>2 DEF Exclusive, LocksOK
<1>8. QED
  BY <1>3, <1>6, <1>7 DEF LocksOK

(* Reads, announcements and answers take no lock. *)
LEMMA OtherLocks ==
    ASSUME Exclusive,
           \/ \E r \in Requests, m \in Records, target \in MaintenanceStatus :
                 ReadRecord(r, m, target)
           \/ \E r \in Requests : Announce(r) \/ Answer(r)
           \/ ByHand
    PROVE  LocksOK' /\ OneInProgressPerVehicle'
<1>1. TypeOK
  BY DEF Exclusive, WellFormed
<1>2. CASE ByHand
  BY <1>2, LocksKept DEF ByHand, HoldsRow, Updated
<1>3. ASSUME NEW r \in Requests, ~HoldsRow(r)', records' = records,
             \A q \in Requests \ {r} : req'[q] = req[q]
      PROVE  LocksOK' /\ OneInProgressPerVehicle'
  BY <1>3, LocksKept DEF HoldsRow, Updated, TxSteps
<1>4. ASSUME NEW r \in Requests, NEW m \in Records,
             NEW target \in MaintenanceStatus, ReadRecord(r, m, target)
      PROVE  LocksOK' /\ OneInProgressPerVehicle'
  BY <1>1, <1>3, <1>4, ReadEffect DEF HoldsRow, TxSteps, UpdatedSteps
<1>5. ASSUME NEW r \in Requests, Announce(r) \/ Answer(r)
      PROVE  LocksOK' /\ OneInProgressPerVehicle'
  BY <1>1, <1>3, <1>5, RespondEffect DEF Announce, Answer, HoldsRow, TxSteps, UpdatedSteps
<1>6. QED
  BY <1>2, <1>4, <1>5

(* Initially no request is in a transaction. *)
LEMMA InitExclusive == Init => Exclusive
<1> SUFFICES ASSUME Init PROVE Exclusive
  OBVIOUS
<1>1. \A r \in Requests : ~HoldsRow(r)
  BY IdleType DEF Init, HoldsRow, TxSteps, UpdatedSteps
<1>2. Existing = {}
  BY DEF Init, Existing
<1>3. QED
  BY <1>1, <1>2, InitWellFormed, UpdatedHolds
     DEF Exclusive, LocksOK, OneInProgressPerVehicle, InProgressOf

(* Every step keeps the locks exclusive. *)
LEMMA NextExclusive == Exclusive /\ [Next]_vars => Exclusive'
<1> SUFFICES ASSUME Exclusive, [Next]_vars PROVE Exclusive'
  OBVIOUS
<1>1. WellFormed'
  BY NextWellFormed DEF Exclusive
<1>2. LocksOK' /\ OneInProgressPerVehicle'
  BY StepKinds, ScheduleLocks, UpdateLocks, CommitLocks, OtherLocks
<1>3. QED
  BY <1>1, <1>2 DEF Exclusive

-----------------------------------------------------------------------------
(***************************************************************************)
(* The logs.                                                               *)
(***************************************************************************)

(* Only a commit appends to a log that exists; a step that touches no log    *)
(* and no record keeps what the logs say, if every request in flight is      *)
(* justified again.                                                          *)
LEMMA LogsKept ==
    ASSUME LogsOK, UNCHANGED <<records, events>>,
           \A m \in Records : \A e \in announced'[m] :
               e \in announced[m] \/ \E i \in 1..Len(events[m]) : events[m][i] = e,
           TypeOK,
           \A r \in Requests : RequestJustified(r)' /\ RequestRecorded(r)'
    PROVE  LogsOK'
<1>1. LogIsOfRecord' /\ TransitionsJustified'
  BY DEF LogsOK, LogIsOfRecord, TransitionsJustified, JustifiedLog
<1>2. NoPhantomAnnouncement'
  <2>1. ASSUME NEW m \in Records, NEW e \in announced'[m]
        PROVE  \E i \in DOMAIN events'[m] : events'[m][i] = e
    <3>1. events[m] \in Seq(MaintenanceEventType) /\ events'[m] = events[m]
      BY DEF TypeOK
    <3>2. CASE e \in announced[m]
      BY <3>1, <3>2 DEF LogsOK, NoPhantomAnnouncement
    <3>3. CASE \E i \in 1..Len(events[m]) : events[m][i] = e
      BY <3>1, <3>3
    <3>4. QED
      BY <2>1, <3>2, <3>3
  <2>2. QED
    BY <2>1 DEF NoPhantomAnnouncement
<1>3. QED
  BY <1>1, <1>2 DEF LogsOK

(* The transition was allowed from the status read, which is the status of  *)
(* the last event of the log.                                               *)
LEMMA ReadLogs ==
    ASSUME WellFormed, LogsOK, NEW r \in Requests, NEW m \in Records,
           NEW target \in MaintenanceStatus, ReadRecord(r, m, target)
    PROVE  LogsOK'
<1>1. TypeOK
  BY DEF WellFormed
<1>2. /\ req'[r].pc = "update"
      /\ req'[r].record = m
      /\ req'[r].target = target
      /\ \A q \in Requests \ {r} : req'[q] = req[q]
      /\ m \in Existing
      /\ <<records[m].status, target>> \in AllowedMaintenanceTransitions
      /\ UNCHANGED tables
  BY <1>1, ReadEffect
<1>3. /\ events[m] \in Seq(MaintenanceEventType)
      /\ events[m] # <<>>
      /\ events[m][Len(events[m])] = MaintenanceEventOf(records[m].status)
  BY <1>1, <1>2 DEF LogsOK, LogIsOfRecord, Existing, TypeOK
<1>4. Len(events[m]) \in 1..Len(events[m])
  BY <1>3
<1>5. RequestJustified(r)' /\ RequestRecorded(r)'
  BY <1>2, <1>3, <1>4 DEF RequestJustified, RequestRecorded
<1>6. ASSUME NEW q \in Requests \ {r}
      PROVE  RequestJustified(q)' /\ RequestRecorded(q)'
  <2>1. RequestJustified(q) /\ RequestRecorded(q)
    BY DEF LogsOK
  <2>2. req'[q] = req[q] /\ events' = events
    BY <1>2
  <2>3. QED
    BY <2>1, <2>2 DEF RequestJustified, RequestRecorded
<1>7. QED
  BY <1>1, <1>2, <1>5, <1>6, LogsKept

(* The event is appended with the status it belongs to. *)
LEMMA CommitLogs ==
    ASSUME WellFormed, LogsOK, NEW r \in Requests, TxCommit(r)
    PROVE  LogsOK'
<1> DEFINE m == req[r].record
           e == MaintenanceEventOf(req[r].target)
           n == Len(events[m])
<1>1. /\ m \in Existing /\ m \in Records
      /\ req[r].pc = "commit"
      /\ records'[m].status = req[r].target
      /\ \A k \in Records \ {m} : records'[k] = records[k]
      /\ Existing' = Existing
      /\ events'[m] = Append(events[m], e)
      /\ \A k \in Records \ {m} : events'[k] = events[k]
      /\ announced' = announced
  BY CommitEffect DEF Existing
<1>2. /\ events[m] \in Seq(MaintenanceEventType) /\ n \in Nat
      /\ e \in MaintenanceEventType
  BY <1>1, EventType DEF WellFormed, TypeOK, RequestOK
<1>3. /\ Len(events'[m]) = n + 1
      /\ events'[m][n + 1] = e
      /\ \A i \in 1..n : events'[m][i] = events[m][i]
      /\ events'[m] # <<>>
  BY <1>1, <1>2
<1>4. \A k \in Records \ {m} : k \in Existing' <=> k \in Existing
  BY <1>1
<1>5. LogIsOfRecord'
  <2>1. ASSUME NEW k \in Records
        PROVE  IF records'[k] = None
               THEN events'[k] = <<>>
               ELSE /\ events'[k] # <<>>
                    /\ events'[k][Len(events'[k])] = MaintenanceEventOf(records'[k].status)
    <3>1. CASE k = m
      BY <1>1, <1>3, <3>1 DEF Existing
    <3>2. CASE k # m
      BY <1>1, <3>2 DEF LogsOK, LogIsOfRecord
    <3>3. QED
      BY <3>1, <3>2
  <2>2. QED
    BY <2>1 DEF LogIsOfRecord
<1>6. PICK j \in 1..n, step \in AllowedMaintenanceTransitions :
         events[m][j] = MaintenanceEventOf(step[1]) /\ req[r].target = step[2]
  BY <1>1 DEF LogsOK, RequestJustified
<1>7. TransitionsJustified'
  <2>1. ASSUME NEW k \in Records, NEW i \in 2..Len(events'[k])
        PROVE  \E l \in 1..(i - 1), s \in AllowedMaintenanceTransitions :
                  /\ events'[k][l] = MaintenanceEventOf(s[1])
                  /\ events'[k][i] = MaintenanceEventOf(s[2])
    <3>1. CASE k # m
      <4>1. events'[k] = events[k] /\ i \in 2..Len(events[k])
        BY <1>1, <3>1
      <4>2. PICK l \in 1..(i - 1), s \in AllowedMaintenanceTransitions :
               /\ events[k][l] = MaintenanceEventOf(s[1])
               /\ events[k][i] = MaintenanceEventOf(s[2])
        BY <4>1 DEF LogsOK, TransitionsJustified, JustifiedLog
      <4>3. QED
        BY <4>1, <4>2
    <3>2. CASE k = m /\ i = n + 1
      <4>1. /\ j \in 1..(i - 1)
            /\ events'[k][j] = MaintenanceEventOf(step[1])
            /\ events'[k][i] = MaintenanceEventOf(step[2])
        BY <1>2, <1>3, <1>6, <3>2
      <4>2. QED
        BY <4>1
    <3>3. CASE k = m /\ i # n + 1
      <4>1. i \in 2..n
        BY <1>2, <1>3, <3>3
      <4>2. PICK l \in 1..(i - 1), s \in AllowedMaintenanceTransitions :
               /\ events[m][l] = MaintenanceEventOf(s[1])
               /\ events[m][i] = MaintenanceEventOf(s[2])
        BY <1>1, <4>1 DEF LogsOK, TransitionsJustified, JustifiedLog
      <4>3. l \in 1..n /\ i \in 1..n
        BY <1>2, <4>1, <4>2
      <4>4. /\ events'[k][l] = MaintenanceEventOf(s[1])
            /\ events'[k][i] = MaintenanceEventOf(s[2])
        BY <1>3, <3>3, <4>2, <4>3
      <4>5. QED
        BY <4>2, <4>4
    <3>4. QED
      BY <3>1, <3>2, <3>3
  <2>2. QED
    BY <2>1 DEF TransitionsJustified, JustifiedLog
<1>8. NoPhantomAnnouncement'
  <2>1. ASSUME NEW k \in Records, NEW a \in announced'[k]
        PROVE  \E i \in DOMAIN events'[k] : events'[k][i] = a
    <3>1. PICK i \in DOMAIN events[k] : events[k][i] = a
      BY <1>1, <2>1 DEF LogsOK, NoPhantomAnnouncement
    <3>2. CASE k # m
      BY <1>1, <3>1, <3>2
    <3>3. CASE k = m
      <4>1. i \in 1..n /\ i \in 1..(n + 1)
        BY <1>2, <3>1, <3>3
      <4>2. events'[k][i] = a
        BY <1>3, <3>1, <3>3, <4>1
      <4>3. i \in DOMAIN events'[k]
        <5>1. events'[k] = Append(events[m], e) /\ Len(events'[k]) = n + 1
          BY <1>1, <1>3, <3>3
        <5>2. Append(events[m], e) \in Seq(MaintenanceEventType)
          BY <1>2
        <5>3. DOMAIN events'[k] = 1..(n + 1)
          BY <5>1, <5>2
        <5>4. QED
          BY <4>1, <5>3
      <4>4. QED
        BY <4>2, <4>3
    <3>4. QED
      BY <3>2, <3>3
  <2>2. QED
    BY <2>1 DEF NoPhantomAnnouncement
<1>9. \A k \in Records : /\ 1..Len(events[k]) \subseteq 1..Len(events'[k])
                         /\ \A i \in 1..Len(events[k]) : events'[k][i] = events[k][i]
  <2>1. 1..n \subseteq 1..(n + 1)
    BY <1>2
  <2>2. ASSUME NEW k \in Records \ {m}
        PROVE  events'[k] = events[k]
    BY <1>1
  <2>3. QED
    BY <1>3, <2>1, <2>2
<1> HIDE DEF m, e, n
<1>10. ASSUME NEW q \in Requests
       PROVE  RequestJustified(q)' /\ RequestRecorded(q)'
  <2>1. CASE q # r /\ req[q].pc # "idle"
    <3>1. req'[q] = req[q] /\ req[q].record \in Records
      BY <2>1, CommitMoves DEF WellFormed, RequestOK, Existing
    <3>2. RequestJustified(q)'
      <4>1. PICK l \in 1..Len(events[req[q].record]), s \in AllowedMaintenanceTransitions :
               /\ events[req[q].record][l] = MaintenanceEventOf(s[1])
               /\ req[q].target = s[2]
        BY <2>1 DEF LogsOK, RequestJustified
      <4>2. /\ l \in 1..Len(events'[req[q].record])
            /\ events'[req[q].record][l] = MaintenanceEventOf(s[1])
        BY <1>9, <3>1, <4>1
      <4>3. QED
        BY <3>1, <4>1, <4>2 DEF RequestJustified
    <3>3. RequestRecorded(q)'
      <4>1. CASE req[q].pc # "announce"
        BY <3>1, <4>1 DEF RequestRecorded
      <4>2. CASE req[q].pc = "announce"
        <5>1. PICK i \in 1..Len(events[req[q].record]) :
                 events[req[q].record][i] = MaintenanceEventOf(req[q].target)
          BY <4>2 DEF LogsOK, RequestRecorded
        <5>2. /\ i \in 1..Len(events'[req[q].record])
              /\ events'[req[q].record][i] = MaintenanceEventOf(req[q].target)
          BY <1>9, <3>1, <5>1
        <5>3. QED
          BY <3>1, <5>2 DEF RequestRecorded
      <4>3. QED
        BY <4>1, <4>2
    <3>4. QED
      BY <3>2, <3>3
  <2>2. CASE q # r /\ req[q].pc = "idle"
    BY <2>2, CommitMoves DEF RequestJustified, RequestRecorded
  <2>3. CASE q = r /\ req'[r].pc = "idle"
    BY <2>3 DEF RequestJustified, RequestRecorded
  <2>4. CASE q = r /\ req'[r].pc # "idle"
    <3>1. req'[r].record = m /\ req'[r].target = req[r].target
      BY <2>4, CommitMoves DEF m
    <3>2. RequestJustified(r)'
      <4>1. j \in 1..Len(events'[m]) /\ events'[m][j] = events[m][j]
        BY <1>1, <1>6, <1>9 DEF n
      <4>2. QED
        BY <1>6, <3>1, <4>1 DEF RequestJustified
    <3>3. RequestRecorded(r)'
      <4>1. n + 1 \in 1..Len(events'[m]) /\ events'[m][n + 1] = e
        BY <1>2, <1>3
      <4>2. QED
        BY <3>1, <4>1 DEF RequestRecorded, e
    <3>4. QED
      BY <2>4, <3>2, <3>3
  <2>5. QED
    BY <2>1, <2>2, <2>3, <2>4
<1>11. QED
  BY <1>5, <1>7, <1>8, <1>10 DEF LogsOK

(* A scheduled record's log is its first event, and justifies nothing else. *)
LEMMA ScheduleLogs ==
    ASSUME WellFormed, LogsOK, NEW r \in Requests, NEW m \in Records,
           NEW v \in Vehicles, ScheduleMaintenance(r, m, v)
    PROVE  LogsOK'
<1>1. /\ m \notin Existing
      /\ records'[m].status = "SCHEDULED"
      /\ Existing' = Existing \cup {m}
      /\ \A n \in Records \ {m} : records'[n] = records[n]
      /\ events'[m] = <<"MAINTENANCE_SCHEDULED">>
      /\ \A n \in Records \ {m} : events'[n] = events[n]
      /\ UNCHANGED <<announced, req>>
  BY ScheduleEffect DEF WellFormed
<1>2. /\ Len(events'[m]) = 1
      /\ events'[m][1] = MaintenanceEventOf("SCHEDULED")
      /\ events'[m] # <<>>
  BY <1>1 DEF MaintenanceEventOf
<1>3. events[m] = <<>>
  BY <1>1 DEF LogsOK, LogIsOfRecord, Existing
<1>4. LogIsOfRecord'
  <2>1. ASSUME NEW n \in Records
        PROVE  IF records'[n] = None
               THEN events'[n] = <<>>
               ELSE /\ events'[n] # <<>>
                    /\ events'[n][Len(events'[n])] = MaintenanceEventOf(records'[n].status)
    <3>1. CASE n = m
      BY <1>1, <1>2, <3>1 DEF Existing
    <3>2. CASE n # m
      BY <1>1, <3>2 DEF LogsOK, LogIsOfRecord
    <3>3. QED
      BY <3>1, <3>2
  <2>2. QED
    BY <2>1 DEF LogIsOfRecord
<1>5. TransitionsJustified'
  <2>1. ASSUME NEW n \in Records, NEW i \in 2..Len(events'[n])
        PROVE  \E l \in 1..(i - 1), s \in AllowedMaintenanceTransitions :
                  /\ events'[n][l] = MaintenanceEventOf(s[1])
                  /\ events'[n][i] = MaintenanceEventOf(s[2])
    <3>1. n # m
      <4>1. 2..Len(events'[m]) = {}
        BY <1>2
      <4>2. QED
        BY <2>1, <4>1
    <3>2. QED
      BY <1>1, <3>1 DEF LogsOK, TransitionsJustified, JustifiedLog
  <2>2. QED
    BY <2>1 DEF TransitionsJustified, JustifiedLog
<1>6. NoPhantomAnnouncement'
  <2>1. ASSUME NEW n \in Records, NEW e \in announced'[n]
        PROVE  \E i \in DOMAIN events'[n] : events'[n][i] = e
    <3>1. PICK i \in DOMAIN events[n] : events[n][i] = e
      BY <1>1, <2>1 DEF LogsOK, NoPhantomAnnouncement
    <3>2. n # m
      <4>1. DOMAIN events[m] = {}
        BY <1>3
      <4>2. QED
        BY <3>1, <4>1
    <3>3. QED
      BY <1>1, <3>1, <3>2
  <2>2. QED
    BY <2>1 DEF NoPhantomAnnouncement
<1>7. ASSUME NEW q \in Requests
      PROVE  RequestJustified(q)' /\ RequestRecorded(q)'
  <2>1. req[q].pc # "idle" => req[q].record \in Records \ {m}
    BY <1>1 DEF WellFormed, RequestOK, Existing
  <2>2. QED
    BY <1>1, <2>1 DEF LogsOK, RequestJustified, RequestRecorded
<1>8. QED
  BY <1>4, <1>5, <1>6, <1>7 DEF LogsOK

(* What is announced was committed by the request that announces it. *)
LEMMA MoveLogs ==
    ASSUME WellFormed, LogsOK, NEW r \in Requests,
           InsideTx(r) \/ Announce(r) \/ Answer(r)
    PROVE  LogsOK'
<1>1. TypeOK
  BY DEF WellFormed
<1>2. UNCHANGED <<records, events>>
  BY <1>1, InsideTxEffect DEF Announce, Answer
<1>3. /\ \A q \in Requests \ {r} : req'[q] = req[q]
      /\ \/ req'[r].pc = "idle"
         \/ /\ req'[r].pc \in TxSteps
            /\ req[r].pc # "idle"
            /\ req'[r].record = req[r].record
            /\ req'[r].target = req[r].target
  BY <1>1, InsideTxEffect, RespondEffect DEF Announce, Answer
<1>4. \A q \in Requests : RequestJustified(q)' /\ RequestRecorded(q)'
  BY <1>2, <1>3 DEF LogsOK, RequestJustified, RequestRecorded, TxSteps, UpdatedSteps
<1>5. ASSUME NEW m \in Records, NEW e \in announced'[m]
      PROVE  e \in announced[m] \/ \E i \in 1..Len(events[m]) : events[m][i] = e
  <2>1. CASE InsideTx(r) \/ Answer(r)
    BY <1>1, <1>5, <2>1, InsideTxEffect DEF Answer
  <2>2. CASE Announce(r)
    <3>1. \/ e \in announced[m]
          \/ m = req[r].record /\ e = MaintenanceEventOf(req[r].target)
      BY <1>1, <1>5, <2>2 DEF Announce, TypeOK
    <3>2. QED
      BY <2>2, <3>1 DEF LogsOK, RequestRecorded, Announce
  <2>3. QED
    BY <2>1, <2>2
<1>6. QED
  BY <1>1, <1>2, <1>4, <1>5, LogsKept

(* A status set by hand touches no log. *)
LEMMA ByHandLogs == WellFormed /\ LogsOK /\ ByHand => LogsOK'
<1> SUFFICES ASSUME WellFormed, LogsOK, ByHand PROVE LogsOK'
  OBVIOUS
<1>1. UNCHANGED <<records, events, announced, req>>
  BY DEF ByHand
<1>2. \A q \in Requests : RequestJustified(q)' /\ RequestRecorded(q)'
  BY <1>1 DEF LogsOK, RequestJustified, RequestRecorded
<1>3. QED
  BY <1>1, <1>2, LogsKept DEF WellFormed

(* Initially there is no log. *)
LEMMA InitLogs == Init => LogsOK
<1> SUFFICES ASSUME Init PROVE LogsOK
  OBVIOUS
<1>1. \A m \in Records : records[m] = None /\ events[m] = <<>> /\ announced[m] = {}
  BY DEF Init
<1>2. \A r \in Requests : RequestJustified(r) /\ RequestRecorded(r)
  BY IdleType DEF Init, RequestJustified, RequestRecorded
<1>3. QED
  BY <1>1, <1>2
     DEF LogsOK, LogIsOfRecord, TransitionsJustified, JustifiedLog, NoPhantomAnnouncement

(* Every step keeps what the logs say. *)
LEMMA NextLogs == WellFormed /\ LogsOK /\ [Next]_vars => LogsOK'
BY StepKinds, ScheduleLogs, ReadLogs, MoveLogs, CommitLogs, ByHandLogs

-----------------------------------------------------------------------------
(***************************************************************************)
(* The theorems.                                                           *)
(***************************************************************************)

(* The three layers together are an inductive invariant. *)
THEOREM Inductive == Spec => []IInv
<1>1. Init => IInv
  BY InitExclusive, InitLogs DEF IInv, Exclusive
<1>2. IInv /\ [Next]_vars => IInv'
  BY NextExclusive, NextLogs DEF IInv, Exclusive
<1>3. QED
  BY <1>1, <1>2, PTL DEF Spec

(* Type correctness of the tables and of the open transactions. *)
THEOREM TypeCorrect == Spec => []TypeOK
<1>1. IInv => TypeOK
  BY DEF IInv, WellFormed
<1>2. QED
  BY <1>1, Inductive, PTL

(* Concurrent startMaintenance calls never leave two records of a vehicle   *)
(* IN_PROGRESS, however many transactions are open.                         *)
THEOREM OneJobPerVehicle == Spec => []OneInProgressPerVehicle
<1>1. IInv => OneInProgressPerVehicle
  BY DEF IInv
<1>2. QED
  BY <1>1, Inductive, PTL

(* transitionMaintenance writes startedAt and completedAt back from a read   *)
(* that may be stale; still no status is ever without its timestamps.        *)
THEOREM TimestampsKept == Spec => []TimestampsMatchStatus
<1>1. IInv => TimestampsMatchStatus
  BY DEF IInv, WellFormed
<1>2. QED
  BY <1>1, Inductive, PTL

(* transitionWithEvent keeps the status and the log of a record together,    *)
(* and notifications and webhooks are sent after it, so never for a          *)
(* transition that was rolled back.                                          *)
THEOREM LogsFollowStatus == Spec => []LogMatchesStatus
<1>1. IInv => LogMatchesStatus
  BY DEF IInv, LogsOK, LogMatchesStatus
<1>2. QED
  BY <1>1, Inductive, PTL

(* A check made on a stale read still justifies every transition by a       *)
(* status the record has had.                                               *)
THEOREM StaleChecksJustify == Spec => []TransitionsJustified
<1>1. IInv => TransitionsJustified
  BY DEF IInv, LogsOK
<1>2. QED
  BY <1>1, Inductive, PTL

-----------------------------------------------------------------------------
(***************************************************************************)
(* Callers that take turns.  With one request in flight at a time, nobody  *)
(* moves a record between the read of a transition and its commit: what    *)
(* was checked still holds when it is written.                             *)
(***************************************************************************)

(* The transition is still allowed from the status the record has. *)
Checked(r) ==
    req[r].pc \in {"update"} \cup TxSteps =>
        /\ isAllowedMaintenanceTransition(records[req[r].record].status, req[r].target)
        /\ req[r].restore =
              ShouldRestoreVehicle(req[r].target, records[req[r].record].status)

(* No other record of the vehicle is in progress. *)
Alone(r) == InProgressOf(VehicleOf(r)) \ {req[r].record} = {}

(* What the transaction is going to write to the vehicle: a start takes it, *)
(* an end gives it back when nobody else works on it and it is taken.       *)
Lends(r) ==
    /\ req[r].pc = "index" => req[r].target = "IN_PROGRESS"
    /\ req[r].pc = "count" => req[r].restore
    /\ req[r].pc \in {"update", "index", "count", "readVehicle"} => req[r].setVehicle = None
    /\ req[r].pc = "readVehicle" =>
          Alone(r) /\ (req[r].target = "IN_PROGRESS" \/ req[r].restore)
    /\ req[r].pc = "commit" =>
          IF req[r].target = "IN_PROGRESS"
          THEN req[r].setVehicle = "IN_MAINTENANCE"
          ELSE /\ req[r].setVehicle \in {None, "ACTIVE"}
               /\ req[r].setVehicle = "ACTIVE" => Alone(r)
               /\ req[r].restore /\ Alone(r)
                     /\ vehicleStatus[VehicleOf(r)] = "IN_MAINTENANCE" =>
                  req[r].setVehicle = "ACTIVE"

AllChecked == \A r \in Requests : Checked(r)
AllLend == NoStrandedVehicle /\ \A r \in Requests : Lends(r)

(* Inside its transaction a request moves by its program counter, and the   *)
(* read of the vehicle sets what is written to it.                          *)
LEMMA TxMoves ==
    ASSUME TypeOK, NEW r \in Requests, InsideTx(r)
    PROVE  /\ req'[r].restore = req[r].restore
           /\ \/ /\ req[r].pc = "update"
                 /\ req'[r].pc = IF req[r].target = "IN_PROGRESS" THEN "index"
                                 ELSE IF req[r].restore THEN "count" ELSE "commit"
                 /\ req'[r].setVehicle = req[r].setVehicle
              \/ /\ req[r].pc = "index" /\ req'[r].pc = "readVehicle" /\ Alone(r)
                 /\ req'[r].setVehicle = req[r].setVehicle
              \/ /\ req[r].pc = "count"
                 /\ req'[r].pc = IF Alone(r) THEN "readVehicle" ELSE "commit"
                 /\ req'[r].setVehicle = req[r].setVehicle
              \/ /\ req[r].pc = "readVehicle" /\ req'[r].pc = "commit"
                 /\ req'[r].setVehicle =
                       VehicleWrite(req[r].target, vehicleStatus[VehicleOf(r)])
<1>1. req[r] \in Request /\ req \in [Requests -> Request]
  BY DEF TypeOK
<1>2. ASSUME NEW pc, req' = [req EXCEPT ![r].pc = pc]
      PROVE  /\ req'[r].pc = pc /\ req'[r].restore = req[r].restore
             /\ req'[r].setVehicle = req[r].setVehicle
  BY <1>1, <1>2 DEF Request
<1>3. CASE TxUpdate(r)
  BY <1>2, <1>3 DEF TxUpdate
<1>4. CASE TxIndex(r) /\ ~IndexViolated(r)
  BY <1>2, <1>4 DEF TxIndex, IndexViolated, Alone
<1>5. CASE TxCount(r)
  BY <1>2, <1>5 DEF TxCount, Alone
<1>6. CASE TxReadVehicle(r)
  <2> DEFINE w == VehicleWrite(req[r].target, vehicleStatus[VehicleOf(r)])
  <2>1. req[r].pc = "readVehicle"
        /\ req'[r] = [req[r] EXCEPT !.pc = "commit", !.setVehicle = w]
    BY <1>1, <1>6 DEF TxReadVehicle
  <2> HIDE DEF w
  <2>2. req'[r].pc = "commit" /\ req'[r].setVehicle = w /\ req'[r].restore = req[r].restore
    BY <1>1, <2>1 DEF Request
  <2>3. QED
    BY <2>1, <2>2 DEF w
<1>7. QED
  BY <1>3, <1>4, <1>5, <1>6 DEF InsideTx

(* The records in progress of a vehicle, before and after. *)
LEMMA InProgressKept ==
    ASSUME records' = records
    PROVE  /\ \A v : InProgressOf(v)' = InProgressOf(v)
           /\ Existing' = Existing
BY DEF InProgressOf, Existing

(* A scheduled record is not in progress. *)
LEMMA ScheduleKeepsInProgress ==
    ASSUME WellFormed, NEW r \in Requests, NEW m \in Records, NEW v \in Vehicles,
           ScheduleMaintenance(r, m, v)
    PROVE  /\ \A w : InProgressOf(w)' = InProgressOf(w)
           /\ \A n \in Existing : records'[n] = records[n]
<1>1. /\ m \notin Existing /\ records'[m].status = "SCHEDULED"
      /\ \A n \in Records \ {m} : records'[n] = records[n]
      /\ Existing' = Existing \cup {m}
  BY ScheduleEffect DEF WellFormed
<1>2. QED
  BY <1>1 DEF InProgressOf, Existing

(* A commit puts its record in progress, or takes it out. *)
LEMMA CommitInProgress ==
    ASSUME WellFormed, NEW r \in Requests, TxCommit(r)
    PROVE  \A w : InProgressOf(w)' =
                    IF w = VehicleOf(r)
                    THEN IF req[r].target = "IN_PROGRESS"
                         THEN InProgressOf(w) \cup {req[r].record}
                         ELSE InProgressOf(w) \ {req[r].record}
                    ELSE InProgressOf(w)
<1> DEFINE m == req[r].record
<1>1. /\ m \in Existing
      /\ records'[m].vehicleId = records[m].vehicleId
      /\ records'[m].status = req[r].target
      /\ \A n \in Records \ {m} : records'[n] = records[n]
      /\ Existing' = Existing
  BY CommitEffect
<1>2. Existing \subseteq Records
  BY DEF Existing
<1> HIDE DEF m
<1>3. ASSUME NEW w, w = records[m].vehicleId, req[r].target = "IN_PROGRESS"
      PROVE  InProgressOf(w)' = InProgressOf(w) \cup {m}
  BY <1>1, <1>2, <1>3 DEF InProgressOf
<1>4. ASSUME NEW w, w = records[m].vehicleId, req[r].target # "IN_PROGRESS"
      PROVE  InProgressOf(w)' = InProgressOf(w) \ {m}
  BY <1>1, <1>2, <1>4 DEF InProgressOf
<1>5. ASSUME NEW w, w # records[m].vehicleId
      PROVE  InProgressOf(w)' = InProgressOf(w)
  BY <1>1, <1>2, <1>5 DEF InProgressOf
<1>6. QED
  BY <1>3, <1>4, <1>5 DEF VehicleOf, m

(* In turn, every transition stays checked until it is committed. *)
LEMMA StaysChecked ==
    ASSUME WellFormed, InTurn, AllChecked, [Next]_vars
    PROVE  AllChecked'
<1>1. TypeOK
  BY DEF WellFormed
<1>2. ASSUME NEW q \in Requests, Checked(q), req'[q] = req[q],
             req[q].pc # "idle" => records'[req[q].record] = records[req[q].record]
      PROVE  Checked(q)'
  BY <1>2 DEF Checked, TxSteps, UpdatedSteps
<1>3. ASSUME NEW r \in Requests, NEW m \in Records, NEW v \in Vehicles,
             ScheduleMaintenance(r, m, v)
      PROVE  AllChecked'
  <2>1. req' = req /\ \A n \in Existing : records'[n] = records[n]
    BY <1>1, <1>3, ScheduleEffect, ScheduleKeepsInProgress
  <2>2. \A q \in Requests : req[q].pc # "idle" => req[q].record \in Existing
    BY DEF WellFormed, RequestOK
  <2>3. QED
    BY <1>2, <2>1, <2>2 DEF AllChecked
<1>4. ASSUME NEW r \in Requests, NEW m \in Records, NEW target \in MaintenanceStatus,
             ReadRecord(r, m, target)
      PROVE  AllChecked'
  <2>1. /\ req'[r].record = m /\ req'[r].target = target /\ records' = records
        /\ \A q \in Requests \ {r} : req'[q] = req[q]
        /\ <<records[m].status, target>> \in AllowedMaintenanceTransitions
    BY <1>1, <1>4, ReadEffect
  <2>2. req'[r].restore = ShouldRestoreVehicle(target, records[m].status)
    BY <1>1, <1>4 DEF ReadRecord, TypeOK
  <2>3. Checked(r)'
    BY <2>1, <2>2 DEF Checked, isAllowedMaintenanceTransition
  <2>4. QED
    BY <1>2, <2>1, <2>3 DEF AllChecked
<1>5. ASSUME NEW r \in Requests, InsideTx(r)
      PROVE  AllChecked'
  <2>1. /\ req[r].pc # "idle" /\ records' = records
        /\ req'[r].record = req[r].record /\ req'[r].target = req[r].target
        /\ \A q \in Requests \ {r} : req'[q] = req[q]
    BY <1>1, <1>5, InsideTxEffect
  <2>2. req'[r].restore = req[r].restore
        /\ req[r].pc \in {"update", "index", "count", "readVehicle"}
    BY <1>1, <1>5, TxMoves
  <2>3. Checked(r)'
    BY <2>1, <2>2 DEF AllChecked, Checked, TxSteps, UpdatedSteps
  <2>4. QED
    BY <1>2, <2>1, <2>3 DEF AllChecked
<1>6. ASSUME NEW r \in Requests, TxCommit(r)
      PROVE  AllChecked'
  <2>1. /\ req[r].pc # "idle" /\ req'[r].pc \in {"idle", "announce"}
        /\ \A q \in Requests \ {r} : req'[q] = req[q]
    BY <1>6, CommitMoves DEF TxCommit
  <2>2. \A q \in Requests \ {r} : req'[q].pc = "idle"
    BY <2>1 DEF InTurn
  <2>3. QED
    BY <2>1, <2>2 DEF AllChecked, Checked, TxSteps, UpdatedSteps
<1>7. ASSUME NEW r \in Requests, Announce(r) \/ Answer(r)
      PROVE  AllChecked'
  <2>1. records' = records /\ req'[r].pc = "idle" /\ \A q \in Requests \ {r} : req'[q] = req[q]
    BY <1>1, <1>7, RespondEffect DEF Announce, Answer
  <2>2. Checked(r)'
    BY <2>1 DEF Checked, TxSteps, UpdatedSteps
  <2>3. QED
    BY <1>2, <2>1, <2>2 DEF AllChecked
<1>8. CASE ByHand
  BY <1>2, <1>8 DEF ByHand, AllChecked
<1>9. QED
  BY <1>3, <1>4, <1>5, <1>6, <1>7, <1>8, StepKinds

(* A request that does not move lends what it did. *)
LEMMA LendsKept ==
    ASSUME NEW q \in Requests, Lends(q), req'[q] = req[q],
           req[q].pc # "idle" =>
              /\ Alone(q)' <=> Alone(q)
              /\ vehicleStatus'[VehicleOf(q)'] = "IN_MAINTENANCE" =>
                    vehicleStatus[VehicleOf(q)] = "IN_MAINTENANCE"
    PROVE  Lends(q)'
BY DEF Lends

(* A request that is not in a transaction lends nothing. *)
LEMMA LendsNothing ==
    ASSUME NEW q \in Requests, req'[q].pc \in {"idle", "announce"}
    PROVE  Lends(q)'
BY DEF Lends

(* In turn, the vehicle is read and written as the records require. *)
LEMMA InsideTxLends ==
    ASSUME WellFormed, AllChecked, AllLend, NEW r \in Requests, InsideTx(r)
    PROVE  AllLend'
<1>1. TypeOK
  BY DEF WellFormed
<1>2. /\ req[r].pc # "idle" /\ records' = records /\ vehicleStatus' = vehicleStatus
      /\ req'[r].record = req[r].record /\ req'[r].target = req[r].target
      /\ req'[r].restore = req[r].restore
      /\ \A q \in Requests \ {r} : req'[q] = req[q]
  BY <1>1, InsideTxEffect, TxMoves
<1>3. \A v : InProgressOf(v)' = InProgressOf(v)
  BY <1>2, InProgressKept
<1>4. VehicleOf(r)' = VehicleOf(r) /\ (Alone(r)' <=> Alone(r))
  BY <1>2, <1>3 DEF VehicleOf, Alone
<1>5. ASSUME NEW q \in Requests \ {r} PROVE Lends(q)'
  <2>1. req'[q] = req[q] /\ VehicleOf(q)' = VehicleOf(q) /\ (Alone(q)' <=> Alone(q))
    BY <1>2, <1>3 DEF VehicleOf, Alone
  <2>2. QED
    BY <1>2, <2>1, LendsKept DEF AllLend
<1>6. NoStrandedVehicle'
  BY <1>2, <1>3 DEF AllLend, NoStrandedVehicle
<1> DEFINE m == req[r].record
           v == VehicleOf(r)
<1>7. /\ m \in Existing /\ records[m] \in Row /\ records[m].vehicleId = v
      /\ v \in Vehicles /\ vehicleStatus[v] \in VehicleStatus
      /\ req[r].target \in MaintenanceStatus
  <2>1. m \in Existing /\ req[r].target \in MaintenanceStatus
    BY <1>2 DEF WellFormed, RequestOK
  <2>2. records[m] \in Row
    BY <1>1, <2>1 DEF TypeOK, Existing
  <2>3. QED
    BY <1>1, <2>1, <2>2 DEF TypeOK, Row, VehicleOf
<1>8. req[r].pc \in {"update", "index", "count", "readVehicle"} =>
         /\ isAllowedMaintenanceTransition(records[m].status, req[r].target)
         /\ req[r].restore = ShouldRestoreVehicle(req[r].target, records[m].status)
  BY DEF AllChecked, Checked, TxSteps, UpdatedSteps
<1>9. Lends(r)
  BY DEF AllLend
<1>10. ASSUME req[r].pc \in {"update", "index", "count"} PROVE Lends(r)'
  <2>1. /\ req'[r].setVehicle = None
        /\ req'[r].pc \in {"index", "count", "readVehicle", "commit"}
    BY <1>1, <1>9, <1>10, TxMoves DEF Lends
  <2>2. req[r].target = "IN_PROGRESS" => ~req[r].restore
    BY <1>8, <1>10 DEF ShouldRestoreVehicle
  <2>3. req'[r].pc = "index" => req[r].target = "IN_PROGRESS"
    BY <1>1, <1>10, TxMoves
  <2>4. req'[r].pc = "count" => req[r].restore
    BY <1>1, <1>10, TxMoves
  <2>5. req'[r].pc = "readVehicle" =>
           Alone(r) /\ (req[r].target = "IN_PROGRESS" \/ req[r].restore)
    BY <1>1, <1>9, <1>10, TxMoves DEF Lends
  <2>6. req'[r].pc = "commit" => req[r].target # "IN_PROGRESS" /\ ~(req[r].restore /\ Alone(r))
    BY <1>1, <1>9, <1>10, <2>2, TxMoves DEF Lends
  <2>7. None # "ACTIVE"
    BY MaintenanceAssumption DEF VehicleStatus
  <2>8. QED
    BY <1>2, <1>4, <2>1, <2>3, <2>4, <2>5, <2>6, <2>7 DEF Lends
<1>11. ASSUME req[r].pc = "readVehicle" PROVE Lends(r)'
  <2>1. /\ req'[r].pc = "commit"
        /\ req'[r].setVehicle = VehicleWrite(req[r].target, vehicleStatus[v])
    BY <1>1, <1>11, TxMoves
  <2>2. Alone(r) /\ (req[r].target = "IN_PROGRESS" \/ req[r].restore)
    BY <1>9, <1>11 DEF Lends
  <2>3. ASSUME req[r].target = "IN_PROGRESS" PROVE vehicleStatus[v] # "IN_MAINTENANCE"
    <3>1. m \notin InProgressOf(v)
      BY <1>8, <1>11, <2>3
         DEF InProgressOf, isAllowedMaintenanceTransition, AllowedMaintenanceTransitions
    <3>2. InProgressOf(v) = {}
      BY <2>2, <3>1 DEF Alone
    <3>3. QED
      BY <1>7, <3>2 DEF AllLend, NoStrandedVehicle
  <2>4. IF req[r].target = "IN_PROGRESS"
        THEN req'[r].setVehicle = "IN_MAINTENANCE"
        ELSE /\ req'[r].setVehicle \in {None, "ACTIVE"}
             /\ vehicleStatus[v] = "IN_MAINTENANCE" => req'[r].setVehicle = "ACTIVE"
    BY <2>1, <2>3 DEF VehicleWrite
  <2>5. QED
    BY <1>2, <1>4, <2>1, <2>2, <2>4 DEF Lends
<1>12. Lends(r)'
  BY <1>1, <1>10, <1>11, TxMoves
<1>13. QED
  BY <1>5, <1>6, <1>12 DEF AllLend

(* In turn, a commit strands no vehicle: it leaves work behind or takes the  *)
(* vehicle out of maintenance.                                               *)
LEMMA CommitLends ==
    ASSUME WellFormed, InTurn, AllChecked, AllLend, NEW r \in Requests, TxCommit(r)
    PROVE  AllLend'
<1> DEFINE m == req[r].record
           v == VehicleOf(r)
<1>1. /\ req[r].pc = "commit" /\ req'[r].pc \in {"idle", "announce"}
      /\ \A q \in Requests \ {r} : req'[q] = req[q]
  BY CommitMoves DEF TxCommit
<1>2. \A q \in Requests : Lends(q)'
  <2>1. \A q \in Requests \ {r} : req'[q].pc = "idle"
    BY <1>1 DEF InTurn
  <2>2. QED
    BY <1>1, <2>1, LendsNothing
<1>3. \A w : InProgressOf(w)' =
               IF w = v
               THEN IF req[r].target = "IN_PROGRESS"
                    THEN InProgressOf(w) \cup {m} ELSE InProgressOf(w) \ {m}
               ELSE InProgressOf(w)
  BY CommitInProgress
<1>4. vehicleStatus' = IF req[r].setVehicle = None THEN vehicleStatus
                       ELSE [vehicleStatus EXCEPT ![v] = req[r].setVehicle]
  BY DEF TxCommit
<1>5. /\ isAllowedMaintenanceTransition(records[m].status, req[r].target)
      /\ req[r].restore = ShouldRestoreVehicle(req[r].target, records[m].status)
      /\ Lends(r)
  BY <1>1 DEF AllChecked, Checked, AllLend, TxSteps, UpdatedSteps
<1>6. m \in Existing /\ records[m].vehicleId = v
  BY <1>1 DEF WellFormed, RequestOK, VehicleOf
<1>7. ASSUME NEW w \in Vehicles, vehicleStatus'[w] = "IN_MAINTENANCE"
      PROVE  InProgressOf(w)' # {}
  <2>1. CASE w # v
    BY <1>3, <1>4, <1>7, <2>1 DEF AllLend, NoStrandedVehicle, WellFormed, TypeOK
  <2>2. CASE w = v /\ req[r].target = "IN_PROGRESS"
    BY <1>3, <2>2
  <2>3. CASE w = v /\ req[r].target # "IN_PROGRESS"
    <3>1. req[r].setVehicle \in {None, "ACTIVE"}
      BY <1>1, <1>5, <2>3 DEF Lends
    <3>2. req[r].setVehicle = None /\ vehicleStatus[v] = "IN_MAINTENANCE"
      BY <1>4, <1>7, <2>3, <3>1 DEF WellFormed, TypeOK
    <3>3. ~(req[r].restore /\ Alone(r))
      <4>1. None # "ACTIVE"
        BY MaintenanceAssumption DEF VehicleStatus
      <4>2. QED
        BY <1>1, <1>5, <2>3, <3>2, <4>1 DEF Lends
    <3>4. CASE ~Alone(r)
      BY <1>3, <2>3, <3>4 DEF Alone
    <3>5. CASE ~req[r].restore
      <4>1. m \notin InProgressOf(v)
        BY <1>5, <2>3, <3>5
           DEF ShouldRestoreVehicle, InProgressOf, isAllowedMaintenanceTransition,
               AllowedMaintenanceTransitions
      <4>2. InProgressOf(v) # {}
        BY <2>3, <3>2 DEF AllLend, NoStrandedVehicle
      <4>3. QED
        BY <1>3, <2>3, <4>1, <4>2
    <3>6. QED
      BY <3>3, <3>4, <3>5
  <2>4. QED
    BY <2>1, <2>2, <2>3
<1>8. NoStrandedVehicle'
  BY <1>7 DEF NoStrandedVehicle
<1>9. QED
  BY <1>2, <1>8 DEF AllLend

(* In turn, no step strands a vehicle. *)
LEMMA StaysLent ==
    ASSUME WellFormed, InTurn, AllChecked, AllLend, [Next]_vars,
           "IN_MAINTENANCE" \notin VehicleInputs
    PROVE  AllLend'
<1>1. TypeOK
  BY DEF WellFormed
<1>2. \A q \in Requests : req[q].pc # "idle" => req[q].record \in Existing
  BY DEF WellFormed, RequestOK
<1>3. ASSUME \A n \in Existing : records'[n] = records[n],
             \A v : InProgressOf(v)' = InProgressOf(v),
             \A v \in Vehicles : vehicleStatus'[v] = "IN_MAINTENANCE" =>
                                    vehicleStatus[v] = "IN_MAINTENANCE",
             \A q \in Requests : req'[q] = req[q] \/ Lends(q)'
      PROVE  AllLend'
  <2>1. NoStrandedVehicle'
    BY <1>3 DEF AllLend, NoStrandedVehicle
  <2>2. ASSUME NEW q \in Requests, req'[q] = req[q] PROVE Lends(q)'
    <3>1. ASSUME req[q].pc # "idle"
          PROVE  /\ VehicleOf(q)' = VehicleOf(q) /\ VehicleOf(q) \in Vehicles
                 /\ Alone(q)' <=> Alone(q)
      <4>1. req[q].record \in Existing
        BY <1>2, <3>1
      <4>2. records[req[q].record] \in Row
        BY <1>1, <4>1 DEF TypeOK, Existing
      <4>3. VehicleOf(q)' = VehicleOf(q) /\ VehicleOf(q) \in Vehicles
        BY <1>3, <2>2, <4>1, <4>2 DEF VehicleOf, Row
      <4>4. QED
        BY <1>3, <2>2, <4>3 DEF Alone
    <3>2. QED
      BY <1>3, <2>2, <3>1, LendsKept DEF AllLend
  <2>3. QED
    BY <1>3, <2>1, <2>2 DEF AllLend
<1>4. ASSUME NEW r \in Requests, NEW m \in Records, NEW v \in Vehicles,
             ScheduleMaintenance(r, m, v)
      PROVE  AllLend'
  <2>1. req' = req /\ vehicleStatus' = vehicleStatus
        /\ (\A n \in Existing : records'[n] = records[n])
        /\ (\A w : InProgressOf(w)' = InProgressOf(w))
    BY <1>1, <1>4, ScheduleEffect, ScheduleKeepsInProgress
  <2>2. QED
    BY <1>3, <2>1
<1>5. ASSUME NEW r \in Requests, NEW m \in Records, NEW target \in MaintenanceStatus,
             ReadRecord(r, m, target)
      PROVE  AllLend'
  <2>1. /\ req'[r].pc = "update" /\ req'[r].setVehicle = None
        /\ UNCHANGED tables /\ \A q \in Requests \ {r} : req'[q] = req[q]
    BY <1>1, <1>5, ReadEffect DEF ReadRecord, TypeOK
  <2>2. Lends(r)'
    BY <2>1 DEF Lends
  <2>3. QED
    BY <1>3, <2>1, <2>2, InProgressKept
<1>6. ASSUME NEW r \in Requests, Announce(r) \/ Answer(r)
      PROVE  AllLend'
  <2>1. /\ records' = records /\ vehicleStatus' = vehicleStatus /\ req'[r].pc = "idle"
        /\ \A q \in Requests \ {r} : req'[q] = req[q]
    BY <1>1, <1>6, RespondEffect DEF Announce, Answer
  <2>2. Lends(r)'
    BY <2>1, LendsNothing
  <2>3. QED
    BY <1>3, <2>1, <2>2, InProgressKept
<1>7. CASE ByHand
  <2>1. \A v \in Vehicles : vehicleStatus'[v] = "IN_MAINTENANCE" =>
                               vehicleStatus[v] = "IN_MAINTENANCE"
    BY <1>1, <1>7 DEF ByHand, TypeOK
  <2>2. records' = records /\ req' = req
    BY <1>7 DEF ByHand
  <2>3. QED
    BY <1>3, <2>1, <2>2, InProgressKept
<1>8. QED
  BY <1>4, <1>5, <1>6, <1>7, InsideTxLends, CommitLends, StepKinds

(* What a transition moves, it moves along the lifecycle. *)
LEMMA CommitLifecycle ==
    ASSUME WellFormed, AllChecked, [Next]_vars PROVE LifecycleStep
<1> SUFFICES ASSUME NEW m \in Records, records[m] # None, events'[m] # events[m]
             PROVE  <<records[m].status, records'[m].status>> \in AllowedMaintenanceTransitions
  BY DEF LifecycleStep
<1>1. PICK r \in Requests : TxCommit(r)
  <2>1. ASSUME NEW r \in Requests, NEW n \in Records, NEW v \in Vehicles,
               ScheduleMaintenance(r, n, v)
        PROVE  FALSE
    BY <2>1, ScheduleEffect DEF WellFormed, Existing
  <2>2. \A r \in Requests : InsideTx(r) \/ Announce(r) \/ Answer(r) => events' = events
    BY InsideTxEffect DEF WellFormed, Announce, Answer
  <2>3. QED
    BY <2>1, <2>2, StepKinds DEF ReadRecord, ByHand
<1>2. /\ m = req[r].record /\ records'[m].status = req[r].target /\ req[r].pc = "commit"
  BY <1>1, CommitEffect
<1>3. QED
  BY <1>2 DEF AllChecked, Checked, TxSteps, UpdatedSteps, isAllowedMaintenanceTransition

(* What a transition leaves in progress, its vehicle is in maintenance for. *)
LEMMA CommitWorkedOn ==
    ASSUME WellFormed, AllLend, [Next]_vars PROVE WorkedOnStep
<1> SUFFICES ASSUME NEW v \in Vehicles, events' # events, InProgressOf(v)' # {}
             PROVE  \/ vehicleStatus'[v] = "IN_MAINTENANCE"
                    \/ InProgressOf(v) # {} /\ vehicleStatus[v] # "IN_MAINTENANCE"
  BY DEF WorkedOnStep
<1>1. TypeOK
  BY DEF WellFormed
<1>2. ASSUME vehicleStatus'[v] = vehicleStatus[v], InProgressOf(v) # {}
      PROVE  \/ vehicleStatus'[v] = "IN_MAINTENANCE"
             \/ InProgressOf(v) # {} /\ vehicleStatus[v] # "IN_MAINTENANCE"
  BY <1>2
<1>3. ASSUME NEW r \in Requests, NEW m \in Records, NEW w \in Vehicles,
             ScheduleMaintenance(r, m, w)
      PROVE  vehicleStatus'[v] = vehicleStatus[v] /\ InProgressOf(v) # {}
  BY <1>1, <1>3, ScheduleEffect, ScheduleKeepsInProgress
<1>4. ASSUME NEW r \in Requests, TxCommit(r)
      PROVE  \/ vehicleStatus'[v] = "IN_MAINTENANCE"
             \/ vehicleStatus'[v] = vehicleStatus[v] /\ InProgressOf(v) # {}
  <2>1. /\ InProgressOf(v)' =
             IF v = VehicleOf(r)
             THEN IF req[r].target = "IN_PROGRESS"
                  THEN InProgressOf(v) \cup {req[r].record}
                  ELSE InProgressOf(v) \ {req[r].record}
             ELSE InProgressOf(v)
        /\ vehicleStatus' = IF req[r].setVehicle = None THEN vehicleStatus
                            ELSE [vehicleStatus EXCEPT ![VehicleOf(r)] = req[r].setVehicle]
        /\ req[r].pc = "commit" /\ Lends(r)
    BY <1>4, CommitInProgress DEF TxCommit, AllLend
  <2>2. CASE v # VehicleOf(r)
    BY <1>1, <2>1, <2>2 DEF TypeOK
  <2>3. CASE v = VehicleOf(r) /\ req[r].target = "IN_PROGRESS"
    <3>1. req[r].setVehicle = "IN_MAINTENANCE" /\ None # "IN_MAINTENANCE"
      BY <2>1, <2>3, MaintenanceAssumption DEF Lends, VehicleStatus
    <3>2. QED
      BY <1>1, <2>1, <2>3, <3>1 DEF TypeOK
  <2>4. CASE v = VehicleOf(r) /\ req[r].target # "IN_PROGRESS"
    <3>1. ~Alone(r) /\ InProgressOf(v) # {}
      BY <2>1, <2>4 DEF Alone
    <3>2. req[r].setVehicle = None
      BY <2>1, <2>4, <3>1 DEF Lends
    <3>3. QED
      BY <2>1, <3>1, <3>2
  <2>5. QED
    BY <2>2, <2>3, <2>4
<1>5. \/ \E r \in Requests, m \in Records, w \in Vehicles : ScheduleMaintenance(r, m, w)
      \/ \E r \in Requests : TxCommit(r)
  <2>1. \A r \in Requests : InsideTx(r) \/ Announce(r) \/ Answer(r) => events' = events
    BY <1>1, InsideTxEffect DEF Announce, Answer
  <2>2. QED
    BY <2>1, StepKinds DEF ReadRecord, ByHand
<1>6. QED
  BY <1>2, <1>3, <1>4, <1>5

(* The invariant of the instance: in turn, every request still sees what it checked. *)
TurnInv == WellFormed /\ (serial => InTurn /\ AllChecked)

(* A behaviour in turn starts checked. *)
LEMMA InitTurn == MCInit => TurnInv
<1> SUFFICES ASSUME MCInit PROVE TurnInv
  OBVIOUS
<1>1. \A r \in Requests : req[r].pc = "idle"
  BY IdleType DEF MCInit, Init
<1>2. InTurn /\ AllChecked
  BY <1>1 DEF InTurn, AllChecked, Checked, TxSteps, UpdatedSteps
<1>3. QED
  BY <1>2, InitWellFormed DEF TurnInv, MCInit

(* A step of a behaviour in turn is a step of Maintenance and stays in turn. *)
LEMMA NextTurn ==
    TurnInv /\ [MCNext]_<<vars, serial>> => TurnInv' /\ [Next]_vars /\ serial' = serial
<1> SUFFICES ASSUME TurnInv, [MCNext]_<<vars, serial>>
             PROVE  TurnInv' /\ [Next]_vars /\ serial' = serial
  OBVIOUS
<1>1. [Next]_vars /\ serial' = serial
  BY DEF MCNext
<1>2. WellFormed'
  BY <1>1, NextWellFormed DEF TurnInv
<1>3. ASSUME serial PROVE InTurn'
  <2>1. CASE MCNext
    BY <1>3, <2>1 DEF MCNext
  <2>2. CASE UNCHANGED <<vars, serial>>
    BY <1>3, <2>2 DEF TurnInv, InTurn, vars
  <2>3. QED
    BY <2>1, <2>2
<1>4. ASSUME serial PROVE AllChecked'
  BY <1>1, <1>4, StaysChecked DEF TurnInv
<1>5. QED
  BY <1>1, <1>2, <1>3, <1>4 DEF TurnInv

(* Every behaviour of the instance keeps both. *)
LEMMA AlwaysTurn == MCSpec => []TurnInv
BY InitTurn, NextTurn, PTL DEF MCSpec

(* While callers take turns, startMaintenance, completeMaintenance and       *)
(* cancelMaintenance move a record along the arrows of the lifecycle only,   *)
(* although the transaction overwrites the status without looking at it.     *)
THEOREM LifecycleHolds == MCSpec => LifecycleInTurn
<1>1. TurnInv /\ [MCNext]_<<vars, serial>> => [serial => LifecycleStep]_<<vars, serial>>
  BY NextTurn, CommitLifecycle DEF TurnInv
<1>2. QED
  BY <1>1, AlwaysTurn, PTL DEF MCSpec, LifecycleInTurn

(* What is lent in turn, where managers leave IN_MAINTENANCE to the code. *)
LentInv == TurnInv /\ (serial => AllLend)

(* Nothing is lent in the initial state. *)
LEMMA InitLent == MCInit => LentInv
<1> SUFFICES ASSUME MCInit PROVE LentInv
  OBVIOUS
<1>1. \A r \in Requests : req[r].pc = "idle"
  BY IdleType DEF MCInit, Init
<1>2. NoStrandedVehicle
  BY DEF NoStrandedVehicle, MCInit, Init
<1>3. AllLend
  BY <1>1, <1>2 DEF AllLend, Lends
<1>4. QED
  BY <1>3, InitTurn DEF LentInv

(* Whoever lends a vehicle in turn has the record in progress to show for it. *)
LEMMA AlwaysLent ==
    ASSUME "IN_MAINTENANCE" \notin VehicleInputs
    PROVE  MCSpec => []LentInv
<1>1. LentInv /\ [MCNext]_<<vars, serial>> => LentInv'
  BY NextTurn, StaysLent DEF LentInv, TurnInv
<1>2. QED
  BY <1>1, InitLent, PTL DEF MCSpec

(* While callers take turns, a vehicle is IN_MAINTENANCE only while one of   *)
(* its records is in progress: handleVehicleStatusSync gives back whatever   *)
(* it took.  A manager who sets IN_MAINTENANCE by hand takes a vehicle       *)
(* without a record, so the theorem is about the other statuses.             *)
THEOREM NobodyStranded ==
    ASSUME "IN_MAINTENANCE" \notin VehicleInputs
    PROVE  MCSpec => []NoStrandedInTurn
<1>1. LentInv => NoStrandedInTurn
  BY DEF LentInv, AllLend, NoStrandedInTurn
<1>2. QED
  BY <1>1, AlwaysLent, PTL

(* While callers take turns, no transition takes a vehicle out of            *)
(* IN_MAINTENANCE while one of its records is in progress.                   *)
THEOREM KeptWhileWorkedOn ==
    ASSUME "IN_MAINTENANCE" \notin VehicleInputs
    PROVE  MCSpec => WorkedOnInTurn
<1>1. LentInv /\ [MCNext]_<<vars, serial>> => [serial => WorkedOnStep]_<<vars, serial>>
  BY NextTurn, CommitWorkedOn DEF LentInv, TurnInv
<1>2. QED
  BY <1>1, AlwaysLent, PTL DEF MCSpec, WorkedOnInTurn
================================================================================
