----------------------------- MODULE FuelRecords -----------------------------
(***************************************************************************)
(* FuelRecordService and InspectionService with what they set off: the     *)
(* notification of their author and the webhook event of the organization. *)
(* Nothing spans these steps but the request itself.                       *)
(***************************************************************************)
EXTENDS Notifications, Integers

CONSTANTS
    Vehicles,
    Trips,
    VehicleOf,      \* vehicle of each trip of the organization
    Readings,       \* the odometer readings a body may carry
    Endpoints       \* webhook endpoints of the organization

ASSUME FuelAssumption ==
    /\ VehicleOf \in [Trips -> Vehicles]
    /\ Readings \subseteq Int
    /\ \A input \in PreferenceInputs :
          DOMAIN input \subseteq PreferenceFields /\ \A f \in DOMAIN input : input[f] \in BOOLEAN

VARIABLES
    fuelRecords,    \* the fuel_records table in the order of the inserts
    inspections,    \* the calls that inserted an inspection
    listening,      \* webhook_endpoints.is_active
    events,         \* the calls that inserted a webhook event
    deliveries      \* the deliveries enqueued: <<call, endpoint>>

webhookVars == <<listening, events, deliveries>>
tables == <<fuelRecords, inspections>>
vars == <<notificationVars, tables, webhookVars>>

-----------------------------------------------------------------------------
(* "seen" is history: the records committed when the request arrived.      *)
FuelRow == [vehicleId : Vehicles, odometerReading : Nat, tripId : Trips \cup {None},
            by : Calls, seen : Nat]

Kinds == {"fuel", "inspection", "update", "read", "markAsRead", "markAllAsRead"}

Steps == {"idle", "author", "odometer", "insertFuel", "insertInspection", "recipient",
          "ensure", "createDefaults", "insertNotification", "update",
          "findNotification", "markAsRead", "markAllAsRead", "publish", "findEndpoints",
          "deliver", "done", "failed"}

(* "found" holds the endpoints to deliver to.                              *)
(* "on", "off", "seen" and "reach" are history: whether the author had the *)
(* type enabled, and disabled, at some moment since the request arrived;   *)
(* the records there were then; the endpoints active ever since.           *)
Request == [pc : Steps, kind : Kinds \cup {None}, user : Users \cup {None},
            vehicle : Vehicles \cup {None}, trip : Trips \cup {None},
            reading : Int, passed : BOOLEAN, type : NotificationType \cup {None}, id : Nat,
            then : Steps, on : BOOLEAN, off : BOOLEAN, seen : Nat,
            found : SUBSET Endpoints, reach : SUBSET Endpoints]

Idle == [pc |-> "idle", kind |-> None, user |-> None, vehicle |-> None, trip |-> None,
         reading |-> 0, passed |-> FALSE, type |-> None, id |-> 0, then |-> "done",
         on |-> FALSE, off |-> FALSE, seen |-> 0, found |-> {}, reach |-> {}]

Init ==
    /\ active = [u \in Users |-> TRUE]
    /\ preferences = [u \in Users |-> None]
    /\ notifications = <<>>
    /\ call = [c \in Calls |-> Idle]
    /\ fuelRecords = <<>>
    /\ inspections = {}
    /\ listening = [e \in Endpoints |-> TRUE]
    /\ events = {}
    /\ deliveries = {}

(* A request arrives with what its author announces.                       *)
Announcing(kind, u, type) ==
    [Idle EXCEPT !.kind = kind, !.pc = "author", !.user = u, !.type = type, !.then = "publish",
                 !.on = Wants(u, type), !.off = ~Wants(u, type),
                 !.seen = Len(fuelRecords), !.reach = {e \in Endpoints : listening[e]}]

PostFuelRecord(c, u, v, reading, trip) ==
    /\ call[c].pc = "idle"
    /\ call' = [call EXCEPT ![c] =
                  [Announcing("fuel", u, "FUEL_RECORD_CREATED")
                     EXCEPT !.vehicle = v, !.reading = reading, !.trip = trip]]
    /\ UNCHANGED <<active, preferences, notifications, tables, webhookVars>>

PostInspection(c, u, v, passed) ==
    /\ call[c].pc = "idle"
    /\ call' = [call EXCEPT ![c] =
                  [Announcing("inspection", u, "INSPECTION_FAILED")
                     EXCEPT !.vehicle = v, !.passed = passed]]
    /\ UNCHANGED <<active, preferences, notifications, tables, webhookVars>>

(* The requests of NotificationsController.                                *)
EntryOf(kind) ==
    IF kind = "markAsRead" THEN "findNotification" ELSE "recipient"

UseNotifications(c, u, kind) ==
    /\ call[c].pc = "idle"
    /\ call' = [call EXCEPT ![c] =
                  [Idle EXCEPT !.pc = EntryOf(kind), !.kind = kind, !.user = u]]
    /\ UNCHANGED <<active, preferences, notifications, tables, webhookVars>>

(* The organization and the vehicle never go away: their checks commute.   *)
RequireAuthor(c) ==
    /\ call[c].pc = "author"
    /\ Goto(c, IF ~active[call[c].user] THEN "failed"
               ELSE IF call[c].kind = "fuel" THEN "odometer" ELSE "insertInspection")
    /\ UNCHANGED <<active, preferences, notifications, tables, webhookVars>>

(* findMaxOdometerByVehicle and assertOdometerNotDecreasing.               *)
OdometerAccepted(v, reading) ==
    /\ reading >= 0
    /\ \A i \in DOMAIN fuelRecords :
          fuelRecords[i].vehicleId = v => fuelRecords[i].odometerReading <= reading

(* assertTripBelongsToVehicleAndOrganization; trips never change vehicle.  *)
TripAccepted(v, trip) == trip # None => VehicleOf[trip] = v

(* Plausible fault: a record of a trip is validated against the trip alone. *)
ValidateTripOrOdometer(c) ==
    /\ call[c].pc = "odometer"
    /\ Goto(c, IF \/ /\ call[c].trip = None
                     /\ OdometerAccepted(call[c].vehicle, call[c].reading)
                  \/ /\ call[c].trip # None
                     /\ call[c].reading >= 0
                     /\ TripAccepted(call[c].vehicle, call[c].trip)
               THEN "insertFuel" ELSE "failed")
    /\ UNCHANGED <<active, preferences, notifications, tables, webhookVars>>

ValidateFuelRecord(c) ==
    /\ call[c].pc = "odometer"
    /\ Goto(c, IF /\ OdometerAccepted(call[c].vehicle, call[c].reading)
                  /\ TripAccepted(call[c].vehicle, call[c].trip)
               THEN "insertFuel" ELSE "failed")
    /\ UNCHANGED <<active, preferences, notifications, tables, webhookVars>>

InsertFuelRecord(c) ==
    /\ call[c].pc = "insertFuel"
    /\ fuelRecords' = Append(fuelRecords,
         [vehicleId |-> call[c].vehicle, odometerReading |-> call[c].reading,
          tripId |-> call[c].trip, by |-> c, seen |-> call[c].seen])
    /\ Goto(c, "recipient")
    /\ UNCHANGED <<active, preferences, notifications, inspections, webhookVars>>

(* Only a failed inspection is announced.                                  *)
InsertInspection(c) ==
    /\ call[c].pc = "insertInspection"
    /\ inspections' = inspections \cup {c}
    /\ Goto(c, IF call[c].passed THEN "done" ELSE "recipient")
    /\ UNCHANGED <<active, preferences, notifications, fuelRecords, webhookVars>>

Notify(c) == NotificationStep(c) /\ UNCHANGED <<tables, webhookVars>>

(* Plausible fault: the deliveries are enqueued for an event not inserted. *)
PublishUnrecorded(c) ==
    /\ call[c].pc = "publish"
    /\ Goto(c, "findEndpoints")
    /\ UNCHANGED <<active, preferences, notifications, tables, webhookVars>>

(* WebhookPublisherService.publish: the event, the endpoints that are      *)
(* active, a delivery for each of them.                                    *)
Publish(c) ==
    /\ call[c].pc = "publish"
    /\ events' = events \cup {c}
    /\ Goto(c, "findEndpoints")
    /\ UNCHANGED <<active, preferences, notifications, tables, listening, deliveries>>

FindEndpoints(c) ==
    /\ call[c].pc = "findEndpoints"
    /\ call' = [call EXCEPT ![c].pc = "deliver",
                           ![c].found = {e \in Endpoints : listening[e]}]
    /\ UNCHANGED <<active, preferences, notifications, tables, webhookVars>>

Deliver(c) ==
    /\ call[c].pc = "deliver"
    /\ deliveries' = deliveries \cup ({c} \X call[c].found)
    /\ Goto(c, "done")
    /\ UNCHANGED <<active, preferences, notifications, tables, listening, events>>

(* Promise.all of the enqueues: when one of them throws, the others have   *)
(* been enqueued or not.                                                   *)
DeliverSome(c, reached) ==
    /\ call[c].pc = "deliver"
    /\ call[c].found # {} /\ reached \subseteq call[c].found
    /\ deliveries' = deliveries \cup ({c} \X reached)
    /\ Goto(c, "failed")
    /\ UNCHANGED <<active, preferences, notifications, tables, listening, events>>

(* The database call of a step throws, or the process dies.                *)
Throw(c) ==
    /\ call[c].pc \notin {"idle", "done", "failed"}
    /\ Goto(c, "failed")
    /\ UNCHANGED <<active, preferences, notifications, tables, webhookVars>>

(* UserService.deactivateUser and updateWebhookEndpoint.                   *)
DeactivateUser(u) ==
    /\ active[u]
    /\ active' = [active EXCEPT ![u] = FALSE]
    /\ UNCHANGED <<preferences, notifications, call, tables, webhookVars>>

UpdateEndpoint(e) ==
    /\ listening' = [listening EXCEPT ![e] = ~@]
    /\ call' = [c \in Calls |-> [call[c] EXCEPT !.reach = @ \ {e}]]
    /\ UNCHANGED <<active, preferences, notifications, tables, events, deliveries>>

Next ==
    \/ \E c \in Calls, u \in Users :
          \/ \E v \in Vehicles, reading \in Readings, trip \in Trips \cup {None} :
                PostFuelRecord(c, u, v, reading, trip)
          \/ \E v \in Vehicles, passed \in BOOLEAN : PostInspection(c, u, v, passed)
          \/ \E kind \in Kinds \ {"fuel", "inspection"} : UseNotifications(c, u, kind)
    \/ \E c \in Calls :
          \/ RequireAuthor(c)
          \/ ValidateFuelRecord(c)
          \/ InsertFuelRecord(c)
          \/ InsertInspection(c)
          \/ Notify(c)
          \/ Publish(c)
          \/ FindEndpoints(c)
          \/ Deliver(c)
          \/ \E reached \in SUBSET Endpoints : DeliverSome(c, reached)
          \/ Throw(c)
    \/ \E u \in Users : DeactivateUser(u)
    \/ \E e \in Endpoints : UpdateEndpoint(e)

Spec == Init /\ [][Next]_vars

-----------------------------------------------------------------------------
(* The tables hold rows of their models and reference existing rows.       *)
TypeOK ==
    /\ active \in [Users -> BOOLEAN]
    /\ preferences \in [Users -> PreferenceRow \cup {None}]
    /\ notifications \in Seq(NotificationRow)
    /\ call \in [Calls -> Request]
    /\ fuelRecords \in Seq(FuelRow)
    /\ inspections \subseteq Calls
    /\ listening \in [Endpoints -> BOOLEAN]
    /\ events \subseteq Calls
    /\ deliveries \subseteq events \X Endpoints

(* A fuel record never reads less than a record of its vehicle that was    *)
(* committed when its request arrived: two requests in flight together may *)
(* end up out of order, one after the other they may not.                  *)
OdometerFollowsRealTime ==
    \A j \in DOMAIN fuelRecords, i \in DOMAIN fuelRecords :
        /\ i <= fuelRecords[j].seen
        /\ fuelRecords[i].vehicleId = fuelRecords[j].vehicleId
        => fuelRecords[i].odometerReading <= fuelRecords[j].odometerReading

(* A request that was answered with success did everything it stands for,  *)
(* once: the row, the notification of its author unless the type was off   *)
(* at some moment, the webhook event, and a delivery for every endpoint    *)
(* that was active all the time.  A passed inspection announces nothing.   *)
SuccessIsComplete ==
    \A c \in Calls :
        LET rows == {i \in DOMAIN fuelRecords : fuelRecords[i].by = c}
            notes == {n \in DOMAIN notifications : notifications[n].by = c}
            silent == call[c].kind = "inspection" /\ call[c].passed
        IN  call[c].pc = "done" /\ call[c].kind \in {"fuel", "inspection"} =>
            /\ IF call[c].kind = "fuel" THEN Cardinality(rows) = 1 ELSE c \in inspections
            /\ silent <=> c \notin events
            /\ silent => notes = {}
            /\ ~silent => /\ Cardinality(notes) = 1 \/ (notes = {} /\ call[c].off)
                          /\ {c} \X call[c].reach \subseteq deliveries
=============================================================================
