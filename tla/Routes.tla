------------------------------- MODULE Routes --------------------------------
(***************************************************************************)
(* The controllers' route tables: the handler of each route, what guards   *)
(* it and the permissions (resource and action) it asks for.  A handler    *)
(* passes the caller's own organization and id to the service it is named  *)
(* after.  The catalogue of permissions is that of the seed.               *)
(***************************************************************************)
EXTENDS FiniteSets

Permission(resource, action) == <<resource, action>>

Public == [guard |-> "public", needs |-> {}]
Authenticated == [guard |-> "jwt", needs |-> {}]
WithApiKey == [guard |-> "apiKey", needs |-> {}]
RequireAllPermissions(permissions) == [guard |-> "jwt", needs |-> permissions]
RequirePermission(resource, action) == RequireAllPermissions({Permission(resource, action)})
Reads(resource) == RequirePermission(resource, "read")
Writes(resource) == RequirePermission(resource, "write")

(* RequireOrganizationScope: the route names an organization.              *)
Scoped(route) == [route EXCEPT !.guard = "scoped"]

-----------------------------------------------------------------------------
HealthController == [getHealth |-> Public]

AuthController ==
    [register |-> Public, login |-> Public, refresh |-> Public, logout |-> Public,
     me |-> Authenticated]

VehiclesController ==
    [createVehicle |-> Writes("vehicles"), listVehicles |-> Reads("vehicles"),
     getVehicle |-> Reads("vehicles"), updateVehicleStatus |-> Writes("vehicles")]

DriversController ==
    [createDriver |-> Writes("drivers"), listDrivers |-> Reads("drivers"),
     getDriver |-> Reads("drivers"), updateDriverStatus |-> Writes("drivers")]

OfVehiclesAndDrivers(action) == {Permission("vehicles", action), Permission("drivers", action)}

VehicleAssignmentsController ==
    [assignVehicle |-> RequireAllPermissions(OfVehiclesAndDrivers("write")),
     endAssignment |-> RequireAllPermissions(OfVehiclesAndDrivers("write")),
     getActiveAssignment |-> RequireAllPermissions(OfVehiclesAndDrivers("read"))]

TripsController ==
    [createTrip |-> Writes("trips"), listTrips |-> Reads("trips"),
     getActiveTrips |-> Reads("trips"), dispatchTrip |-> Writes("trips"),
     startTrip |-> Writes("trips"), completeTrip |-> Writes("trips"),
     cancelTrip |-> Writes("trips")]

MaintenanceController ==
    [scheduleMaintenance |-> Writes("maintenance"), listMaintenance |-> Reads("maintenance"),
     startMaintenance |-> Writes("maintenance"), completeMaintenance |-> Writes("maintenance"),
     cancelMaintenance |-> Writes("maintenance")]

InspectionsController ==
    [createInspection |-> Writes("maintenance"), listInspections |-> Reads("maintenance")]

FuelController ==
    [createFuelRecord |-> Writes("fuel"), listFuelRecords |-> Reads("fuel"),
     createFuelStation |-> Writes("fuel"), getVehicleFuelSummary |-> Reads("fuel")]

NotificationsController ==
    [listNotifications |-> Reads("notifications"),
     listUnreadNotifications |-> Reads("notifications"),
     markAsRead |-> Writes("notifications"), markAllAsRead |-> Writes("notifications"),
     getPreferences |-> Reads("notifications"), updatePreferences |-> Writes("notifications")]

ReportsController ==
    [getDashboardReport |-> Reads("reports"), getFleetReport |-> Reads("reports"),
     getFuelReport |-> Reads("reports"), getMaintenanceReport |-> Reads("reports"),
     getTripReport |-> Reads("reports")]

IntegrationsController ==
    [createApiKey |-> Writes("integrations"), listApiKeys |-> Reads("integrations"),
     revokeApiKey |-> Writes("integrations"), createWebhook |-> Writes("integrations"),
     listWebhooks |-> Reads("integrations"), updateWebhook |-> Writes("integrations"),
     listWebhookDeliveries |-> Reads("integrations"), getApiKeyContext |-> WithApiKey]

JobsController ==
    [listJobs |-> Reads("jobs"), getJob |-> Reads("jobs"),
     enqueueReportJob |-> Writes("jobs"), getQueueHealth |-> Reads("jobs")]

AuditController == [exportAudit |-> Reads("audit")]

MetricsController == [getMetrics |-> Reads("metrics")]

TestProtectedController ==
    [getUsers |-> Reads("users"), getVehicles |-> Reads("vehicles"),
     getOrganizationUsers |-> Scoped(Reads("users"))]

Controllers ==
    {HealthController, AuthController, VehiclesController, DriversController,
     VehicleAssignmentsController, TripsController, MaintenanceController,
     InspectionsController, FuelController, NotificationsController, ReportsController,
     IntegrationsController, JobsController, AuditController, MetricsController,
     TestProtectedController}

Routes == UNION {{c[handler] : handler \in DOMAIN c} : c \in Controllers}

-----------------------------------------------------------------------------
DEFAULT_PERMISSIONS ==
    <<Permission("users", "read"), Permission("users", "write"),
      Permission("vehicles", "read"), Permission("vehicles", "write"),
      Permission("drivers", "read"), Permission("drivers", "write"),
      Permission("trips", "read"), Permission("trips", "write"),
      Permission("maintenance", "read"), Permission("maintenance", "write"),
      Permission("fuel", "read"), Permission("fuel", "write"),
      Permission("notifications", "read"), Permission("notifications", "write"),
      Permission("reports", "read"), Permission("integrations", "read"),
      Permission("integrations", "write"), Permission("jobs", "read"),
      Permission("jobs", "write"), Permission("audit", "read"),
      Permission("metrics", "read")>>
=============================================================================
