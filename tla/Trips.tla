------------------------------- MODULE Trips -------------------------------
(***************************************************************************)
(* TripService and TripRepository, for the trips of one organization:      *)
(* createTrip validates in separate database calls and inserts the trip    *)
(* with its first event; dispatch, start, complete and cancel read the     *)
(* trip, check the transition against that read and then write status,     *)
(* times and event in one transaction that does not look at the status     *)
(* again.  That transaction touches a single trip row and is one step.     *)
(*                                                                         *)
(* The vehicles, the drivers and their assignments are the environment:    *)
(* vehicles.status changes at any time and the assignment book changes as  *)
(* AssignmentBook, which VehicleAssignments implements, lets it.           *)
(***************************************************************************)
EXTENDS FleetConstants, FiniteSets

CONSTANTS
    Vehicles,
    Drivers,
    TripNumbers,    \* bound: the trips a behaviour may create, by their number
    Schedules,      \* the <<start, end>> schedules callers ask for
    Requests,       \* bound: the requests that can be in flight together
    VehicleInputs,  \* the statuses vehicles are moved to
    MaxEvents,      \* bound: the events one trip may collect
    None

ASSUME TripsAssumption ==
    /\ Schedules \subseteq Nat \X Nat
    /\ VehicleInputs \subseteq VehicleStatus
    /\ MaxEvents \in Nat \ {0}
    /\ None \notin Nat \cup Vehicles \cup Drivers \cup TripNumbers
                       \cup Schedules \cup TripStatus

VARIABLES
    vehicleStatus,  \* vehicles.status
    active,         \* the active assignments, <<vehicle, driver>>
    trips,          \* the trips table by trip number, None where no row exists
    events,         \* trip_events of each trip, in commit order
    announced,      \* event types handed to notifications and webhooks
    req             \* the handlers in flight: program counter and locals

vars == <<vehicleStatus, active, trips, events, announced, req>>
environment == <<vehicleStatus, active>>
tables == <<trips, events, announced>>

Book == INSTANCE AssignmentBook

-----------------------------------------------------------------------------
(* Plausible fault: an empty schedule is taken. *)
NonNegativeSchedule(schedule) == schedule[2] >= schedule[1]

(* assertValidSchedule: the end is after the start. *)
ValidSchedule(schedule) == schedule[2] > schedule[1]

Row == [vehicleId : Vehicles, driverId : Drivers,
        schedule : {s \in Schedules : s[1] < s[2]},
        status : TripStatus, actualStartAt : BOOLEAN, actualEndAt : BOOLEAN]

(* The empty place in the table is no row. *)
ASSUME NoneIsNoRow == None \notin Row

Steps == {"idle", "assignment", "vehicleOverlap", "driverOverlap", "insert",
          "read", "commit", "announce"}

Request ==
    [pc : Steps,
     trip : TripNumbers \cup {None},
     target : TripStatus \cup {None},
     vehicleId : Vehicles \cup {None},
     driverId : Drivers \cup {None},
     schedule : Schedules \cup {None},
     actualStartAt : BOOLEAN,
     actualEndAt : BOOLEAN]

Idle == [pc |-> "idle", trip |-> None, target |-> None, vehicleId |-> None,
         driverId |-> None, schedule |-> None,
         actualStartAt |-> FALSE, actualEndAt |-> FALSE]

Existing == {n \in TripNumbers : trips[n] # None}
ActiveTrips == {n \in Existing : trips[n].status \in ActiveTripStatuses}

intervalsOverlap(a, b) == a[1] < b[2] /\ b[1] < a[2]

(* Plausible fault: only trips on the road count for a driver. *)
OnTheRoadForDriver(d, schedule) ==
    {n \in Existing : trips[n].driverId = d /\ trips[n].status = "IN_PROGRESS"
                         /\ intervalsOverlap(trips[n].schedule, schedule)}

(* findOverlappingForVehicle and findOverlappingForDriver. *)
OverlappingForVehicle(v, schedule) ==
    {n \in ActiveTrips : trips[n].vehicleId = v
                            /\ intervalsOverlap(trips[n].schedule, schedule)}
OverlappingForDriver(d, schedule) ==
    {n \in ActiveTrips : trips[n].driverId = d
                            /\ intervalsOverlap(trips[n].schedule, schedule)}

(* Bound: a transition is taken only while its event still fits. *)
EventLeft(n) ==
    Len(events[n]) + Cardinality({r \in Requests : req[r].trip = n}) < MaxEvents

Respond(r) == req' = [req EXCEPT ![r] = Idle]

(* The next database call of a handler, or the 4xx answer that ends it. *)
ProceedIf(check, r, pc) ==
    req' = [req EXCEPT ![r] = IF check THEN [@ EXCEPT !.pc = pc] ELSE Idle]

-----------------------------------------------------------------------------
Init ==
    /\ vehicleStatus \in [Vehicles -> {"ACTIVE"}]
    /\ Book!Init
    /\ trips = [n \in TripNumbers |-> None]
    /\ events = [n \in TripNumbers |-> <<>>]
    /\ announced = [n \in TripNumbers |-> {}]
    /\ req = [r \in Requests |-> Idle]

(* createTrip: the vehicle is read, only IN_MAINTENANCE is refused. *)
CreateReadVehicle(r, n, v, d, schedule) ==
    /\ req[r].pc = "idle"
    /\ vehicleStatus[v] # "IN_MAINTENANCE"
    /\ req' = [req EXCEPT ![r] =
                 [Idle EXCEPT !.pc = "assignment", !.trip = n,
                              !.target = "PLANNED", !.vehicleId = v,
                              !.driverId = d, !.schedule = schedule]]
    /\ UNCHANGED <<environment, tables>>

(* Plausible fault: an active assignment of the vehicle is enough. *)
SomeAssignment(v, d) == \E other \in Drivers : <<v, other>> \in active

(* assertActiveAssignmentMatches: the active assignment names the driver. *)
ActiveAssignmentMatches(v, d) == <<v, d>> \in active

CreateMatchAssignment(r) ==
    /\ req[r].pc = "assignment"
    /\ ProceedIf(/\ ActiveAssignmentMatches(req[r].vehicleId, req[r].driverId)
                 /\ ValidSchedule(req[r].schedule),
                 r, "vehicleOverlap")
    /\ UNCHANGED <<environment, tables>>

CreateCheckVehicle(r) ==
    /\ req[r].pc = "vehicleOverlap"
    /\ ProceedIf(OverlappingForVehicle(req[r].vehicleId, req[r].schedule) = {},
                 r, "driverOverlap")
    /\ UNCHANGED <<environment, tables>>

CreateCheckDriver(r) ==
    /\ req[r].pc = "driverOverlap"
    /\ ProceedIf(OverlappingForDriver(req[r].driverId, req[r].schedule) = {},
                 r, "insert")
    /\ UNCHANGED <<environment, tables>>

(* Plausible fault: the unique index on the trip number is missing. *)
AnyTripNumber(n) == TRUE

TripNumberFree(n) == trips[n] = None

(* createWithEvent: the trip number is unique, otherwise 409. *)
CreateInsert(r) ==
    LET n == req[r].trip
    IN  /\ req[r].pc = "insert"
        /\ \/ /\ TripNumberFree(n)
              /\ trips' = [trips EXCEPT ![n] =
                    [vehicleId |-> req[r].vehicleId, driverId |-> req[r].driverId,
                     schedule |-> req[r].schedule, status |-> "PLANNED",
                     actualStartAt |-> FALSE, actualEndAt |-> FALSE]]
              /\ events' = [events EXCEPT ![n] = Append(@, TripEventOf("PLANNED"))]
              /\ req' = [req EXCEPT ![r].pc = "announce"]
           \/ /\ ~TripNumberFree(n)
              /\ Respond(r)
              /\ UNCHANGED <<trips, events>>
        /\ UNCHANGED <<environment, announced>>

(***************************************************************************)
(* dispatch, start, complete, cancel.  A start and a completion bring a    *)
(* time, new Date(); a time is modelled by whether it is set.              *)
(***************************************************************************)
TransitionArrive(r, n, target) ==
    /\ req[r].pc = "idle"
    /\ n \in Existing
    /\ EventLeft(n)
    /\ target # "PLANNED"
    /\ req' = [req EXCEPT ![r] =
         [Idle EXCEPT !.pc = "read", !.trip = n, !.target = target,
            !.actualStartAt = target = "IN_PROGRESS",
            !.actualEndAt = target = "COMPLETED"]]
    /\ UNCHANGED <<environment, tables>>

(* Plausible fault: a time that is not given is written as null. *)
GivenOnly(given, read) == given

(* timestamps.x ?? trip.x: the time given, else the one read from the row. *)
Coalesce(given, read) == given \/ read

TransitionRead(r) ==
    LET q == req[r]
        trip == trips[q.trip]
    IN  /\ q.pc = "read"
        /\ req' = [req EXCEPT ![r] =
             IF isAllowedTripTransition(trip.status, q.target)
             THEN [q EXCEPT !.pc = "commit",
                     !.actualStartAt = Coalesce(q.actualStartAt, trip.actualStartAt),
                     !.actualEndAt = Coalesce(q.actualEndAt, trip.actualEndAt)]
             ELSE Idle]
        /\ UNCHANGED <<environment, tables>>

(* transitionWithEvent: the row is only looked up, then updated by id. *)
TransitionCommit(r) ==
    LET n == req[r].trip
    IN  /\ req[r].pc = "commit"
        /\ trips' = [trips EXCEPT ![n] =
             [@ EXCEPT !.status = req[r].target,
                       !.actualStartAt = req[r].actualStartAt,
                       !.actualEndAt = req[r].actualEndAt]]
        /\ events' = [events EXCEPT ![n] = Append(@, TripEventOf(req[r].target))]
        /\ IF req[r].target \in {"IN_PROGRESS", "COMPLETED"}
           THEN req' = [req EXCEPT ![r].pc = "announce"]
           ELSE Respond(r)
        /\ UNCHANGED <<environment, announced>>

(* After the commit: webhook on creation, notification and webhook on start *)
(* and completion.                                                          *)
Announce(r) ==
    /\ req[r].pc = "announce"
    /\ announced' = [announced EXCEPT ![req[r].trip] =
                       @ \cup {TripEventOf(req[r].target)}]
    /\ Respond(r)
    /\ UNCHANGED <<environment, trips, events>>

(* The process dies, the connection is lost or the announcement fails. *)
Abort(r) ==
    /\ req[r].pc # "idle"
    /\ Respond(r)
    /\ UNCHANGED <<environment, tables>>

(* The environment is served by requests too: one at a time if only one is. *)
UpdateVehicleStatus(r, v, status) ==
    /\ req[r].pc = "idle"
    /\ vehicleStatus[v] # status
    /\ vehicleStatus' = [vehicleStatus EXCEPT ![v] = status]
    /\ UNCHANGED <<active, tables, req>>

UpdateAssignments(r) ==
    /\ req[r].pc = "idle"
    /\ Book!Next
    /\ UNCHANGED <<vehicleStatus, tables, req>>

Step(r) ==
    \/ CreateMatchAssignment(r)
    \/ CreateCheckVehicle(r)
    \/ CreateCheckDriver(r)
    \/ CreateInsert(r)
    \/ TransitionRead(r)
    \/ TransitionCommit(r)
    \/ Announce(r)

Arrival(r) ==
    \/ \E n \in TripNumbers, v \in Vehicles, d \in Drivers, s \in Schedules :
          CreateReadVehicle(r, n, v, d, s)
    \/ \E n \in TripNumbers, target \in TripStatus : TransitionArrive(r, n, target)
    \/ \E v \in Vehicles, s \in VehicleInputs : UpdateVehicleStatus(r, v, s)
    \/ UpdateAssignments(r)

Next == \E r \in Requests : Arrival(r) \/ Step(r) \/ Abort(r)

Spec == Init /\ [][Next]_vars

-----------------------------------------------------------------------------
(***************************************************************************)
(* Properties of any interleaving.                                         *)
(***************************************************************************)

(* Every table and request local has its type. *)
TypeOK ==
    /\ vehicleStatus \in [Vehicles -> VehicleStatus]
    /\ active \subseteq Vehicles \X Drivers
    /\ trips \in [TripNumbers -> Row \cup {None}]
    /\ events \in [TripNumbers -> Seq(TripEventType)]
    /\ announced \in [TripNumbers -> SUBSET TripEventType]
    /\ req \in [Requests -> Request]

(* Although times are written back from a stale read, a trip in progress or *)
(* completed has its actual start and a completed trip its actual end.      *)
TimesMatchStatus ==
    \A n \in Existing :
        /\ trips[n].status \in {"IN_PROGRESS", "COMPLETED"} => trips[n].actualStartAt
        /\ trips[n].status = "COMPLETED" => trips[n].actualEndAt

(* Status and event are atomic: a trip exists exactly when it has events,   *)
(* the first is its only creation and the last is the one of its status;    *)
(* notifications and webhooks tell of committed events only.                *)
LogMatchesStatus ==
    \A n \in TripNumbers :
        IF trips[n] = None
        THEN events[n] = <<>> /\ announced[n] = {}
        ELSE /\ events[n] # <<>>
             /\ \A i \in DOMAIN events[n] : events[n][i] = "TRIP_CREATED" <=> i = 1
             /\ events[n][Len(events[n])] = TripEventOf(trips[n].status)
             /\ \A e \in announced[n] : \E i \in DOMAIN events[n] : events[n][i] = e

(* However stale the read behind it, a transition is one that was allowed   *)
(* from a status the trip has had: no start without a dispatch, no          *)
(* completion without a start.                                              *)
TransitionsJustified ==
    \A n \in TripNumbers :
        JustifiedLog(events[n], TripEventOf, AllowedTripTransitions)

-----------------------------------------------------------------------------
(***************************************************************************)
(* Rules that hold while requests run one at a time.                       *)
(***************************************************************************)

DisjointSchedules(a, b) == a[2] <= b[1] \/ b[2] <= a[1]

(* Schedule overlap validation: no two active trips of a vehicle, and none  *)
(* of a driver, overlap.                                                    *)
NoOverlap ==
    \A m, n \in ActiveTrips :
        /\ m # n
        /\ \/ trips[m].vehicleId = trips[n].vehicleId
           \/ trips[m].driverId = trips[n].driverId
        => DisjointSchedules(trips[m].schedule, trips[n].schedule)

(* The lifecycle of the docs: a status only moves along its arrows. *)
LifecycleStep ==
    \A n \in TripNumbers :
        trips[n] # None /\ events'[n] # events[n] =>
            <<trips[n].status, trips'[n].status>> \in AllowedTripTransitions

(* The docs' rule: a vehicle cannot start a trip while IN_MAINTENANCE. *)
NoStartInMaintenance ==
    [][\A n \in Existing :
          trips[n].status # "IN_PROGRESS" /\ trips'[n].status = "IN_PROGRESS" =>
              vehicleStatus[trips[n].vehicleId] # "IN_MAINTENANCE"]_vars
=============================================================================
