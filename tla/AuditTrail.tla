----------------------------- MODULE AuditTrail ------------------------------
(***************************************************************************)
(* FleetAuditService, AuditEventStore and AuditExportService: what the     *)
(* services report goes to a bounded buffer in the memory of the process,  *)
(* which GET /audit/export returns as JSON or as a table.                  *)
(***************************************************************************)
EXTENDS Integers, Sequences, FiniteSets

CONSTANTS
    LoggedEvents,   \* bound: the events of a behaviour
    BufferSizes,    \* what AUDIT_BUFFER_SIZE may be
    Limits,         \* what an export may be limited to, 0 for no limit
    MaxLogged       \* bound: events of one life of the process

ASSUME AuditAssumption == BufferSizes \subseteq Nat /\ Limits \subseteq Int

VARIABLES
    events,         \* AuditEventStore.events
    maxSize,        \* AuditEventStore.maxSize
    logged,         \* history: every event since the process started
    exported        \* the answer to an export, until more is reported

auditVars == <<events, maxSize, logged, exported>>

-----------------------------------------------------------------------------
(* The payload of each event beside its organizationId.                    *)
FleetEvents ==
    [vehicle_status_changed |-> {"vehicleId", "previousStatus", "newStatus", "changedByUserId"},
     driver_status_changed |-> {"driverId", "previousStatus", "newStatus", "changedByUserId"},
     vehicle_assigned |-> {"assignmentId", "vehicleId", "driverId", "assignedByUserId"},
     vehicle_assignment_ended |-> {"assignmentId", "vehicleId", "driverId", "endedByUserId"}]

TripEvents ==
    [trip_created |-> {"tripId", "tripNumber", "vehicleId", "driverId", "createdByUserId"},
     trip_dispatched |-> {"tripId", "tripNumber", "dispatchedByUserId"},
     trip_started |-> {"tripId", "tripNumber", "startedByUserId"},
     trip_completed |-> {"tripId", "tripNumber", "completedByUserId"},
     trip_cancelled |-> {"tripId", "tripNumber", "cancelledByUserId"}]

MaintenanceEvents ==
    [maintenance_scheduled |-> {"maintenanceId", "vehicleId", "createdByUserId"},
     maintenance_started |-> {"maintenanceId", "vehicleId", "startedByUserId"},
     maintenance_completed |-> {"maintenanceId", "vehicleId", "completedByUserId"},
     maintenance_cancelled |-> {"maintenanceId", "vehicleId", "cancelledByUserId"},
     inspection_created |-> {"inspectionId", "vehicleId", "passed", "createdByUserId"}]

FuelAndNotificationEvents ==
    [fuel_record_created |-> {"fuelRecordId", "vehicleId", "tripId", "totalCost", "createdByUserId"},
     fuel_station_created |-> {"fuelStationId", "name"},
     notification_created |-> {"notificationId", "userId", "type"},
     notification_read |-> {"notificationId", "userId"},
     preferences_updated |-> {"userId"},
     report_generated |-> {"reportType", "requestedByUserId"}]

IntegrationEvents ==
    LET delivery == {"webhookEndpointId", "webhookEventId", "deliveryId", "attemptNumber"}
    IN  [api_key_created |-> {"apiKeyId", "name", "createdByUserId"},
         api_key_revoked |-> {"apiKeyId", "revokedByUserId"},
         webhook_created |-> {"webhookEndpointId", "name", "createdByUserId"},
         webhook_updated |-> {"webhookEndpointId", "updatedByUserId"},
         webhook_delivery_success |-> delivery,
         webhook_delivery_failed |-> delivery]

JobEvents ==
    [job_created |-> {"jobId", "jobType", "queueName"},
     job_completed |-> {"jobId", "jobType", "attemptCount"},
     job_failed |-> {"jobId", "jobType", "attemptCount", "failureReason"}]

(* AuthorizationAuditService.logAuthorizationCheck; the reason is there    *)
(* when a request is denied or an admin let through.                       *)
AuthorizationEvents ==
    [authorization_check |-> {"userId", "requiredPermission", "result", "reason"}]

PayloadOf(event) ==
    {"organizationId"} \cup
    UNION {group[event] : group \in
             {g \in {FleetEvents, TripEvents, MaintenanceEvents, FuelAndNotificationEvents,
                     IntegrationEvents, JobEvents, AuthorizationEvents} : event \in DOMAIN g}}

-----------------------------------------------------------------------------
(* A record carries the number of its event in the life of the process:    *)
(* what an occurredAt and the values of a payload tell apart; "inRequest"  *)
(* says whether the request context had a requestId.                       *)
Record(event, inRequest) ==
    [event |-> event, number |-> Len(logged) + 1, inRequest |-> inRequest]

AuditInit ==
    /\ events = <<>>
    /\ maxSize \in BufferSizes
    /\ logged = <<>>
    /\ exported = [format |-> "none"]

Last(seq, n) == SubSeq(seq, Len(seq) - n + 1, Len(seq))

(* Plausible fault: a full buffer drops what comes, not what it holds.     *)
AppendWhileRoom(event, inRequest) ==
    /\ Len(logged) < MaxLogged
    /\ logged' = Append(logged, Record(event, inRequest))
    /\ events' = IF Len(events) < maxSize THEN Append(events, Record(event, inRequest)) ELSE events
    /\ exported' = [format |-> "none"]
    /\ UNCHANGED maxSize

(* FleetAuditService.log and AuditEventStore.append.                       *)
Log(event, inRequest) ==
    /\ Len(logged) < MaxLogged
    /\ logged' = Append(logged, Record(event, inRequest))
    /\ LET all == Append(events, Record(event, inRequest))
       IN  events' = IF Len(all) > maxSize THEN Last(all, maxSize) ELSE all
    /\ exported' = [format |-> "none"]
    /\ UNCHANGED maxSize

(* AuditEventStore.list: no limit, or the end of the buffer; a negative    *)
(* limit starts past the end.                                              *)
Listed(limit) ==
    IF limit = 0 \/ limit >= Len(events) THEN events
    ELSE IF limit < 0 THEN <<>> ELSE Last(events, limit)

ExportJson(limit) ==
    /\ exported' = [format |-> "json", limit |-> limit, events |-> Listed(limit)]
    /\ UNCHANGED <<events, maxSize, logged>>

RequestIdOf(r) == IF r.inRequest THEN <<r.number>> ELSE <<>>

(* exportCsvReady: a header for every field some record has, and in each   *)
(* row the value of the record, or nothing, for every header.              *)
ExportCsv(limit) ==
    LET records == Listed(limit)
        headers == {"event", "requestId", "occurredAt"} \cup
                   UNION {PayloadOf(records[i].event) : i \in DOMAIN records}
        Cell(r, header) ==
            CASE header = "event"              -> <<r.event>>
              [] header = "requestId"          -> RequestIdOf(r)
              [] header = "occurredAt"         -> <<r.number>>
              [] header \in PayloadOf(r.event) -> <<r.number>>
              [] OTHER                         -> <<>>
    IN  /\ exported' = [format |-> "csv", limit |-> limit,
                        rows |-> [i \in DOMAIN records |->
                                    [header \in headers |-> Cell(records[i], header)]]]
        /\ UNCHANGED <<events, maxSize, logged>>

(* The buffer is lost with the process.                                    *)
RestartProcess ==
    /\ events' = <<>>
    /\ logged' = <<>>
    /\ exported' = [format |-> "none"]
    /\ UNCHANGED maxSize

AuditNext ==
    \/ \E event \in LoggedEvents, inRequest \in BOOLEAN : Log(event, inRequest)
    \/ \E limit \in Limits : ExportJson(limit) \/ ExportCsv(limit)
    \/ RestartProcess

-----------------------------------------------------------------------------
(* An export is the latest part of what the process reported, in order:    *)
(* as much of it as fits the buffer and the limit; and a table loses no    *)
(* field of an event for being reported beside events that have others,    *)
(* and has a requestId for the events that were reported in a request.     *)
ExportIsLatest ==
    LET Numbers(rows, number(_)) == [i \in DOMAIN rows |-> number(rows[i])]
        wanted == IF exported.limit = 0 THEN maxSize
                  ELSE IF exported.limit < 0 THEN 0
                  ELSE IF exported.limit < maxSize THEN exported.limit ELSE maxSize
        count == IF wanted < Len(logged) THEN wanted ELSE Len(logged)
        latest == [i \in 1..count |-> Len(logged) - count + i]
    IN  /\ exported.format = "json" =>
              Numbers(exported.events, LAMBDA r : r.number) = latest
        /\ exported.format = "csv" =>
              /\ Numbers(exported.rows, LAMBDA r : r.occurredAt[1]) = latest
              /\ \A i \in DOMAIN exported.rows :
                 /\ exported.rows[i].requestId # <<>> <=> logged[latest[i]].inRequest
                 /\ \A field \in PayloadOf(logged[latest[i]].event) :
                        /\ field \in DOMAIN exported.rows[i]
                        /\ exported.rows[i][field] = <<latest[i]>>
=============================================================================
