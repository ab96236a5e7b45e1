----------------------------- MODULE MCPlatform ------------------------------
(***************************************************************************)
(* Five parts of the platform that share no state with one another: the    *)
(* daily reminders, the guards, the reports, the audit trail and the       *)
(* database's deployment.  A behaviour is one of one part; the others stay *)
(* at rest, so that the states are the sum of the parts' and not the       *)
(* product.                                                                *)
(***************************************************************************)
EXTENDS Reminders, Access, Reports, AuditTrail, Deployment

CONSTANTS l1, m1, v1, v2

VARIABLE part       \* the part this behaviour is of

Parts == {"reminders", "access", "reports", "audit", "deployment"}

DaysDef == [i \in Items |-> IF i = l1 THEN 2 ELSE 1]

(* One route of each kind of guard.                                        *)
AskedDef ==
    {HealthController.getHealth, VehicleAssignmentsController.assignVehicle,
     TestProtectedController.getOrganizationUsers, IntegrationsController.getApiKeyContext}

TripRowsDef ==
    {[status |-> "COMPLETED", at |-> 0, duration |-> <<3>>],
     [status |-> "CANCELLED", at |-> 1, duration |-> <<>>],
     [status |-> "DISPATCHED", at |-> 1, duration |-> <<>>]}
FuelRowsDef ==
    {[vehicleId |-> v1, at |-> 0, liters |-> 1, cost |-> 2],
     [vehicleId |-> v2, at |-> 1, liters |-> 2, cost |-> 3]}
MaintenanceRowsDef ==
    {[maintenanceType |-> "EMERGENCY", at |-> 0, actualCost |-> <<1>>]}
BoundsDef == {0, 1, NoDate}

LimitsDef == {-1, 0, 1, 2, 3}

allVars ==
    <<part, remindersVars, accessVars, reportsVars, auditVars, deploymentVars>>

(* A part at rest has one initial state.                                   *)
AtRest ==
    /\ part # "access" => userRole = {}
    /\ part # "reports" => table.trips = <<>> /\ table.fuel[1].vehicleId = v1
    /\ part # "audit" => maxSize = 1

Init ==
    /\ part \in Parts
    /\ RemindersInit /\ AccessInit /\ ReportsInit /\ AuditInit /\ DeploymentInit
    /\ AtRest

Next ==
    /\ UNCHANGED part
    /\ \/ /\ part = "reminders" /\ RemindersNext
          /\ UNCHANGED <<accessVars, reportsVars, auditVars, deploymentVars>>
       \/ /\ part = "access" /\ AccessNext
          /\ UNCHANGED <<remindersVars, reportsVars, auditVars, deploymentVars>>
       \/ /\ part = "reports" /\ ReportsNext
          /\ UNCHANGED <<remindersVars, accessVars, auditVars, deploymentVars>>
       \/ /\ part = "audit" /\ AuditNext
          /\ UNCHANGED <<remindersVars, accessVars, reportsVars, deploymentVars>>
       \/ /\ part = "deployment" /\ DeploymentNext
          /\ UNCHANGED <<remindersVars, accessVars, reportsVars, auditVars>>

Spec == Init /\ [][Next]_allVars
=============================================================================
