---------------------------- MODULE Maintenance ----------------------------
(***************************************************************************)
(* MaintenanceService and MaintenanceRecordRepository: the lifecycle of    *)
(* maintenance records and the status of the vehicle it drives.            *)
(*                                                                         *)
(* A transition reads the record outside any transaction, checks the       *)
(* transition against that read, and then runs transitionWithEvent, an     *)
(* interactive transaction of several statements under READ COMMITTED:     *)
(* each statement sees what has been committed when it runs, the UPDATE of *)
(* the record takes its row lock until the transaction ends, and nothing   *)
(* re-checks the status inside it.  The writes of an open transaction live *)
(* in the request; they reach the tables in TxCommit.  The UPDATE of the   *)
(* vehicle is the last statement, is by id and depends on nothing read     *)
(* after it, so it is part of the commit.                                  *)
(***************************************************************************)
EXTENDS FleetConstants, FiniteSets

CONSTANTS
    Vehicles,
    Records,        \* bound: the maintenance records a behaviour may create
    Requests,       \* bound: the requests that can be in flight together
    VehicleInputs,  \* the statuses managers set by hand
    MaxEvents,      \* bound: the events one record may collect
    None

ASSUME MaintenanceAssumption ==
    /\ VehicleInputs \subseteq VehicleStatus
    /\ MaxEvents \in Nat \ {0}
    /\ None \notin Records \cup VehicleStatus \cup MaintenanceStatus

VARIABLES
    vehicleStatus,  \* vehicles.status, as committed
    records,        \* maintenance_records, as committed; None where no row is
    events,         \* maintenance_events of each record, in commit order
    announced,      \* event types handed to notifications and webhooks
    req             \* the handlers in flight and their open transactions

vars == <<vehicleStatus, records, events, announced, req>>
tables == <<vehicleStatus, records, events, announced>>

-----------------------------------------------------------------------------
(* A timestamp column is modelled by whether it is set. *)
Row == [vehicleId : Vehicles, status : MaintenanceStatus,
        startedAt : BOOLEAN, completedAt : BOOLEAN]

ASSUME NoneIsNoRow == None \notin Row

UpdatedSteps == {"count", "readVehicle", "commit"}
TxSteps == {"index"} \cup UpdatedSteps
Steps == {"idle", "update", "announce"} \cup TxSteps

(* The update computed from the read, and what the transaction will write  *)
(* to the vehicle ("None": nothing).                                       *)
Request ==
    [pc : Steps,
     record : Records \cup {None},
     target : MaintenanceStatus \cup {None},
     startedAt : BOOLEAN,
     completedAt : BOOLEAN,
     restore : BOOLEAN,
     setVehicle : VehicleStatus \cup {None}]

Idle == [pc |-> "idle", record |-> None, target |-> None,
         startedAt |-> FALSE, completedAt |-> FALSE, restore |-> FALSE,
         setVehicle |-> None]

Existing == {m \in Records : records[m] # None}
InProgressOf(v) ==
    {m \in Existing : records[m].vehicleId = v /\ records[m].status = "IN_PROGRESS"}

VehicleOf(r) == records[req[r].record].vehicleId

(* The request's transaction holds the row lock of its record; its UPDATE is *)
(* complete, index entry included.                                           *)
HoldsRow(r) == req[r].pc \in TxSteps
Updated(r) == req[r].pc \in UpdatedSteps

(* Bound: a transition is taken only while its event still fits. *)
EventLeft(m) ==
    Len(events[m]) + Cardinality({r \in Requests : req[r].record = m}) < MaxEvents

Respond(r) == req' = [req EXCEPT ![r] = Idle]

-----------------------------------------------------------------------------
Init ==
    /\ vehicleStatus \in [Vehicles -> {"ACTIVE"}]
    /\ records = [m \in Records |-> None]
    /\ events = [m \in Records |-> <<>>]
    /\ announced = [m \in Records |-> {}]
    /\ req = [r \in Requests |-> Idle]

(* Plausible fault: create, without the event, in place of createWithEvent. *)
ScheduleWithoutEvent(r, m, v) ==
    /\ req[r].pc = "idle"
    /\ records[m] = None
    /\ records' = [records EXCEPT ![m] =
                     [vehicleId |-> v, status |-> "SCHEDULED",
                      startedAt |-> FALSE, completedAt |-> FALSE]]
    /\ UNCHANGED <<vehicleStatus, events, announced, req>>

(* scheduleMaintenance: the record and its first event in one transaction. *)
ScheduleMaintenance(r, m, v) ==
    /\ req[r].pc = "idle"
    /\ records[m] = None
    /\ records' = [records EXCEPT ![m] =
                     [vehicleId |-> v, status |-> "SCHEDULED",
                      startedAt |-> FALSE, completedAt |-> FALSE]]
    /\ events' = [events EXCEPT ![m] = <<MaintenanceEventOf("SCHEDULED")>>]
    /\ UNCHANGED <<vehicleStatus, announced, req>>

(* Plausible fault: a cancellation never gives the vehicle back. *)
RestoreOnCompletionOnly(target, readStatus) == target = "COMPLETED"

(* A cancellation gives the vehicle back only if it was read IN_PROGRESS. *)
ShouldRestoreVehicle(target, readStatus) ==
    \/ target = "COMPLETED"
    \/ target = "CANCELLED" /\ readStatus = "IN_PROGRESS"

(* start, complete, cancel: the record is read and the transition checked. *)
ReadRecord(r, m, target) ==
    /\ req[r].pc = "idle"
    /\ m \in Existing
    /\ EventLeft(m)
    /\ isAllowedMaintenanceTransition(records[m].status, target)
    /\ req' = [req EXCEPT ![r] =
                 [pc |-> "update",
                  record |-> m,
                  target |-> target,
                  startedAt |-> target = "IN_PROGRESS" \/ records[m].startedAt,
                  completedAt |-> target = "COMPLETED" \/ records[m].completedAt,
                  restore |-> ShouldRestoreVehicle(target, records[m].status),
                  setVehicle |-> None]]
    /\ UNCHANGED tables

(* Plausible fault: a start also waits for starts that wait themselves. *)
IndexUndecidedByIntent(r) ==
    \E q \in Requests \ {r} :
        /\ HoldsRow(q)
        /\ VehicleOf(q) = VehicleOf(r)
        /\ req[q].target = "IN_PROGRESS"

(***************************************************************************)
(* The partial unique index on the IN_PROGRESS rows of a vehicle.  An      *)
(* entry that an open transaction adds or removes makes the UPDATE wait    *)
(* for that transaction; a committed one fails it with P2002.              *)
(***************************************************************************)
IndexUndecided(r) ==
    \E q \in Requests \ {r} :
        /\ Updated(q)
        /\ VehicleOf(q) = VehicleOf(r)
        /\ \/ req[q].target = "IN_PROGRESS"
           \/ records[req[q].record].status = "IN_PROGRESS"

(* Plausible fault: the index is missing. *)
IndexNeverViolated(r) == FALSE

IndexViolated(r) == InProgressOf(VehicleOf(r)) \ {req[r].record} # {}

RowLocked(r) ==
    \E q \in Requests \ {r} : HoldsRow(q) /\ req[q].record = req[r].record

(* BEGIN; the UPDATE of the record by id locks its row.  Only a start adds *)
(* an entry to the index; the INSERT of the event never waits.             *)
TxUpdate(r) ==
    /\ req[r].pc = "update"
    /\ ~RowLocked(r)
    /\ req' = [req EXCEPT ![r].pc =
                 IF req[r].target = "IN_PROGRESS" THEN "index"
                 ELSE IF req[r].restore THEN "count" ELSE "commit"]
    /\ UNCHANGED tables

(* The entry of a start: it waits, holding its row, or fails with a 409. *)
TxIndex(r) ==
    /\ req[r].pc = "index"
    /\ ~IndexUndecided(r)
    /\ IF IndexViolated(r)
       THEN Respond(r)
       ELSE req' = [req EXCEPT ![r].pc = "readVehicle"]
    /\ UNCHANGED tables

(* A restore counts the other IN_PROGRESS records of the vehicle first. *)
TxCount(r) ==
    /\ req[r].pc = "count"
    /\ req' = [req EXCEPT ![r].pc =
                 IF InProgressOf(VehicleOf(r)) \ {req[r].record} = {}
                 THEN "readVehicle" ELSE "commit"]
    /\ UNCHANGED tables

(* Plausible faults: the record's status is written to the vehicle; a start *)
(* only ever restores.                                                       *)
VehicleWriteRecordStatus(target, status) ==
    IF target = "IN_PROGRESS" THEN target ELSE "ACTIVE"
VehicleWriteRestoreOnly(target, status) ==
    IF status = "IN_MAINTENANCE" THEN "ACTIVE" ELSE None

(* The status to write for a vehicle read in "status", None for no write. *)
VehicleWrite(target, status) ==
    CASE target = "IN_PROGRESS" /\ status # "IN_MAINTENANCE" -> "IN_MAINTENANCE"
      [] target # "IN_PROGRESS" /\ status = "IN_MAINTENANCE" -> "ACTIVE"
      [] OTHER -> None

TxReadVehicle(r) ==
    /\ req[r].pc = "readVehicle"
    /\ req' = [req EXCEPT ![r].pc = "commit",
                          ![r].setVehicle =
                              VehicleWrite(req[r].target, vehicleStatus[VehicleOf(r)])]
    /\ UNCHANGED tables

(* The vehicle UPDATE and COMMIT: record, event and vehicle become visible. *)
TxCommit(r) ==
    LET m == req[r].record
        v == VehicleOf(r)
    IN  /\ req[r].pc = "commit"
        /\ records' = [records EXCEPT ![m] =
                         [vehicleId |-> v,
                          status |-> req[r].target,
                          startedAt |-> req[r].startedAt,
                          completedAt |-> req[r].completedAt]]
        /\ events' = [events EXCEPT ![m] =
                        Append(@, MaintenanceEventOf(req[r].target))]
        /\ vehicleStatus' = IF req[r].setVehicle = None THEN vehicleStatus
                            ELSE [vehicleStatus EXCEPT ![v] = req[r].setVehicle]
        /\ IF req[r].target = "CANCELLED"
           THEN Respond(r)
           ELSE req' = [req EXCEPT ![r].pc = "announce"]
        /\ UNCHANGED announced

(* Plausible fault: the side effects run inside the transaction. *)
AnnounceInTransaction(r) ==
    /\ req[r].pc \in {"commit", "announce"}
    /\ announced' = [announced EXCEPT ![req[r].record] =
                       @ \cup {MaintenanceEventOf(req[r].target)}]
    /\ Respond(r)
    /\ UNCHANGED <<vehicleStatus, records, events>>

(* After the commit: the notification and the webhook of a start or an end. *)
Announce(r) ==
    /\ req[r].pc = "announce"
    /\ announced' = [announced EXCEPT ![req[r].record] =
                       @ \cup {MaintenanceEventOf(req[r].target)}]
    /\ Respond(r)
    /\ UNCHANGED <<vehicleStatus, records, events>>

(* VehicleService.updateVehicleStatus: an UPDATE by id of a vehicle that    *)
(* was read in another status.                                              *)
UpdateVehicleStatus(r, v, status) ==
    /\ req[r].pc = "idle"
    /\ vehicleStatus[v] # status
    /\ vehicleStatus' = [vehicleStatus EXCEPT ![v] = status]
    /\ UNCHANGED <<records, events, announced, req>>

(***************************************************************************)
(* The process dies, the connection is lost, the transaction times out or  *)
(* the notification fails: an open transaction is rolled back, a committed *)
(* one stays.                                                              *)
(***************************************************************************)
Abort(r) ==
    /\ req[r].pc # "idle"
    /\ Respond(r)
    /\ UNCHANGED tables

Step(r) ==
    TxUpdate(r) \/ TxIndex(r) \/ TxCount(r) \/ TxReadVehicle(r) \/ TxCommit(r) \/ Announce(r)

Arrival(r) ==
    \/ \E m \in Records, v \in Vehicles : ScheduleMaintenance(r, m, v)
    \/ \E m \in Records, target \in MaintenanceStatus : ReadRecord(r, m, target)
    \/ \E v \in Vehicles, s \in VehicleInputs : UpdateVehicleStatus(r, v, s)

Next == \E r \in Requests : Arrival(r) \/ Step(r) \/ Abort(r)

Spec == Init /\ [][Next]_vars

(***************************************************************************)
(* A statement that is not blocked runs.  PostgreSQL queues the waiters of *)
(* a row lock and wakes those of a transaction when it ends, so an UPDATE  *)
(* that could run again and again does.                                    *)
(***************************************************************************)
Fairness ==
    \A r \in Requests :
        /\ SF_vars(TxUpdate(r))
        /\ SF_vars(TxIndex(r))
        /\ WF_vars(TxCount(r) \/ TxReadVehicle(r) \/ TxCommit(r) \/ Announce(r))

FairSpec == Spec /\ Fairness

-----------------------------------------------------------------------------
(***************************************************************************)
(* Properties of any interleaving.                                         *)
(***************************************************************************)

(* Every table and request local has its type. *)
TypeOK ==
    /\ vehicleStatus \in [Vehicles -> VehicleStatus]
    /\ records \in [Records -> Row \cup {None}]
    /\ events \in [Records -> Seq(MaintenanceEventType)]
    /\ announced \in [Records -> SUBSET MaintenanceEventType]
    /\ req \in [Requests -> Request]

(* Concurrent starts leave one IN_PROGRESS record per vehicle at most. *)
OneInProgressPerVehicle ==
    \A v \in Vehicles : \A m, n \in InProgressOf(v) : m = n

(* Although timestamps are written back from a stale read, work in progress *)
(* or completed has its start time and completed work its end time.         *)
TimestampsMatchStatus ==
    \A m \in Existing :
        /\ records[m].status \in {"IN_PROGRESS", "COMPLETED"} => records[m].startedAt
        /\ records[m].status = "COMPLETED" => records[m].completedAt

LogIsOfRecord ==
    \A m \in Records :
        IF records[m] = None
        THEN events[m] = <<>>
        ELSE /\ events[m] # <<>>
             /\ events[m][Len(events[m])] = MaintenanceEventOf(records[m].status)

NoPhantomAnnouncement ==
    \A m \in Records : \A e \in announced[m] : \E i \in DOMAIN events[m] : events[m][i] = e

(* The record and its log are written together: a record has a log exactly  *)
(* when it exists, and its last event is the one of its status;             *)
(* notifications and webhooks tell of committed events only.                *)
LogMatchesStatus == LogIsOfRecord /\ NoPhantomAnnouncement

(* However stale the read behind it, a transition is one that was allowed   *)
(* from a status the record has had: no completion without a start.         *)
TransitionsJustified ==
    \A m \in Records :
        JustifiedLog(events[m], MaintenanceEventOf, AllowedMaintenanceTransitions)

(* Requests waiting for rows and index entries of each other all end. *)
RequestsEnd == \A r \in Requests : req[r].pc # "idle" ~> req[r].pc = "idle"

-----------------------------------------------------------------------------
(***************************************************************************)
(* Rules that hold while requests run one at a time.                       *)
(***************************************************************************)

(* The lifecycle of the docs: a status only moves along its arrows. *)
LifecycleStep ==
    \A m \in Records :
        records[m] # None /\ events'[m] # events[m] =>
            <<records[m].status, records'[m].status>>
                \in AllowedMaintenanceTransitions

(* A vehicle is IN_MAINTENANCE only while a record of it is in progress     *)
(* (managers do not set that status by hand here).                          *)
NoStrandedVehicle ==
    \A v \in Vehicles :
        vehicleStatus[v] = "IN_MAINTENANCE" => InProgressOf(v) # {}

(* A start puts its vehicle IN_MAINTENANCE and no transition takes a vehicle *)
(* out of it while a record of the vehicle is in progress: if one is after   *)
(* the step, only a status set by hand before it explains another status.    *)
WorkedOnStep ==
    \A v \in Vehicles :
        events' # events /\ InProgressOf(v)' # {} =>
            \/ vehicleStatus'[v] = "IN_MAINTENANCE"
            \/ InProgressOf(v) # {} /\ vehicleStatus[v] # "IN_MAINTENANCE"
=============================================================================
