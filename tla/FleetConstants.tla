--------------------------- MODULE FleetConstants ---------------------------
(***************************************************************************)
(* The status enums of the Prisma schema and the tables the services       *)
(* consult: which statuses are assignable, which transitions a lifecycle   *)
(* allows and which event each of them records.                            *)
(***************************************************************************)
EXTENDS Naturals, Sequences

VehicleStatus == {"ACTIVE", "IN_MAINTENANCE", "OUT_OF_SERVICE", "RETIRED"}
DriverStatus == {"ACTIVE", "INACTIVE", "SUSPENDED"}

isVehicleAssignable(status) == status = "ACTIVE"
isDriverAssignable(status) == status = "ACTIVE"

-----------------------------------------------------------------------------
(* Maintenance records. *)

MaintenanceStatus == {"SCHEDULED", "IN_PROGRESS", "COMPLETED", "CANCELLED"}

MaintenanceEventType ==
    {"MAINTENANCE_SCHEDULED", "MAINTENANCE_STARTED",
     "MAINTENANCE_COMPLETED", "MAINTENANCE_CANCELLED"}

AllowedMaintenanceTransitions ==
    {<<"SCHEDULED", "IN_PROGRESS">>, <<"SCHEDULED", "CANCELLED">>,
     <<"IN_PROGRESS", "COMPLETED">>, <<"IN_PROGRESS", "CANCELLED">>}

(* Plausible fault: only the terminal statuses are checked. *)
isOpenMaintenanceTransition(from, to) == from \notin {"COMPLETED", "CANCELLED"}

isAllowedMaintenanceTransition(from, to) ==
    <<from, to>> \in AllowedMaintenanceTransitions

MaintenanceEventOf(status) ==
    CASE status = "SCHEDULED"   -> "MAINTENANCE_SCHEDULED"
      [] status = "IN_PROGRESS" -> "MAINTENANCE_STARTED"
      [] status = "COMPLETED"   -> "MAINTENANCE_COMPLETED"
      [] status = "CANCELLED"   -> "MAINTENANCE_CANCELLED"

-----------------------------------------------------------------------------
(* Trips. *)

TripStatus ==
    {"PLANNED", "DISPATCHED", "IN_PROGRESS", "COMPLETED", "CANCELLED"}

TripEventType ==
    {"TRIP_CREATED", "TRIP_DISPATCHED", "TRIP_STARTED",
     "TRIP_COMPLETED", "TRIP_CANCELLED"}

ActiveTripStatuses == {"PLANNED", "DISPATCHED", "IN_PROGRESS"}

AllowedTripTransitions ==
    {<<"PLANNED", "DISPATCHED">>, <<"PLANNED", "CANCELLED">>,
     <<"DISPATCHED", "IN_PROGRESS">>, <<"DISPATCHED", "CANCELLED">>,
     <<"IN_PROGRESS", "COMPLETED">>}

(* Plausible fault: any move out of an active status. *)
isOpenTripTransition(from, to) == from \in ActiveTripStatuses

isAllowedTripTransition(from, to) == <<from, to>> \in AllowedTripTransitions

TripEventOf(status) ==
    CASE status = "PLANNED"     -> "TRIP_CREATED"
      [] status = "DISPATCHED"  -> "TRIP_DISPATCHED"
      [] status = "IN_PROGRESS" -> "TRIP_STARTED"
      [] status = "COMPLETED"   -> "TRIP_COMPLETED"
      [] status = "CANCELLED"   -> "TRIP_CANCELLED"

-----------------------------------------------------------------------------
(***************************************************************************)
(* A lifecycle log read back: every event after the first one records a    *)
(* transition that the table allows from the status some EARLIER event of  *)
(* the log recorded.  This is what a check made on a possibly stale read   *)
(* still guarantees; a strict lifecycle would say "the event before it".   *)
(***************************************************************************)
JustifiedLog(log, EventOf(_), allowed) ==
    \A i \in 2..Len(log) :
        \E j \in 1..(i - 1), step \in allowed :
            log[j] = EventOf(step[1]) /\ log[i] = EventOf(step[2])
=============================================================================
