----------------------------- MODULE Deployment ------------------------------
(***************************************************************************)
(* How a database comes to be: `prisma migrate deploy` applies the         *)
(* migrations one after the other, and `prisma db seed` runs the seeders   *)
(* in their order, every upsert committed on its own, from the start each  *)
(* time it is run.  A table is its foreign keys, by what they do on        *)
(* delete, and its unique keys; a row is its table and its key.            *)
(***************************************************************************)
EXTENDS Routes, Integers, Sequences
LOCAL INSTANCE TLC

CONSTANTS
    MaxSeedRuns,    \* bound: how often the seed is started
    MaxReassigned   \* bound: how often the fleet reassigns a demo vehicle

VARIABLES
    tables,         \* the database's catalogue
    applied,        \* _prisma_migrations: how many migrations are in it
    deploy,         \* what migrate deploy says: "deploying", "migrated", "failed"
    rows,           \* the demo rows
    run,            \* the seed run: the seeder and the write it is at
    reassigned      \* history: reassignments, for the bound

deploymentVars == <<tables, applied, deploy, rows, run, reassigned>>

-----------------------------------------------------------------------------
Table(restrict, cascade, unique) ==
    [restrict |-> restrict, cascade |-> cascade, unique |-> unique, partial |-> {},
     added |-> {}]

WithPartial(t, columns) == [t EXCEPT !.partial = columns]
WithAdded(t, columns) == [t EXCEPT !.added = columns]

Creates(new) == [create |-> new, alter |-> <<>>]
Alters(old) == [create |-> <<>>, alter |-> old]

(* The migrations, in the order of their directories.                      *)
init_identity_foundation == Creates(
    [organizations    |-> Table({}, {}, {{"name"}, {"slug"}}),
     users            |-> Table({"organizations"}, {}, {{"organization_id", "email"}}),
     roles            |-> Table({}, {"organizations"}, {{"organization_id", "name"}}),
     permissions      |-> Table({}, {}, {{"resource", "action"}}),
     user_roles       |-> Table({}, {"users", "roles"}, {{"user_id", "role_id"}}),
     role_permissions |-> Table({}, {"roles", "permissions"}, {{"role_id", "permission_id"}}),
     refresh_tokens   |-> Table({}, {"users"}, {})])

add_fleet_domain == Creates(
    [vehicles |-> Table({"organizations"}, {}, {{"vin"}, {"organization_id", "plate_number"}}),
     drivers  |-> Table({"organizations"}, {}, {{"organization_id", "employee_id"},
                                               {"organization_id", "license_number"}}),
     vehicle_assignments |->
        WithPartial(Table({"organizations", "vehicles", "drivers", "users"}, {}, {}),
                    {"vehicle_id", "driver_id"})])

add_trips_domain == Creates(
    [trips       |-> Table({"organizations", "vehicles", "drivers", "users"}, {},
                           {{"organization_id", "trip_number"}}),
     trip_events |-> Table({"users"}, {"trips"}, {})])

add_maintenance_domain == Creates(
    [maintenance_records |->
        WithPartial(Table({"organizations", "vehicles", "users"}, {}, {}), {"vehicle_id"}),
     maintenance_events  |-> Table({"users"}, {"maintenance_records"}, {}),
     inspections         |-> Table({"organizations", "vehicles", "users"}, {}, {})])

add_fuel_domain == Creates(
    [fuel_stations |-> Table({"organizations"}, {}, {{"organization_id", "name"}}),
     fuel_records  |-> Table({"organizations", "vehicles", "trips", "fuel_stations", "users"},
                             {}, {})])

add_notifications_domain == Creates(
    [notifications            |-> Table({"organizations", "users"}, {}, {}),
     notification_preferences |-> Table({}, {"users"}, {{"user_id"}})])

add_integrations_domain == Creates(
    [api_keys           |-> Table({"users"}, {"organizations"},
                                  {{"hashed_key"}, {"organization_id", "name"}}),
     webhook_endpoints  |-> Table({}, {"organizations"}, {{"organization_id", "name"}}),
     webhook_events     |-> Table({}, {"organizations"}, {}),
     webhook_deliveries |-> Table({}, {"webhook_endpoints", "webhook_events"}, {})])

add_jobs_domain == Creates([jobs |-> Table({}, {"organizations"}, {})])

add_account_lockout_fields ==
    Alters([users |-> {"failed_login_attempts", "locked_until", "locked_until_idx"}])

add_refresh_token_hash_index == Alters([refresh_tokens |-> {"token_hash_idx"}])

(* Plausible fault: a domain's migration dated before the one it refers to.*)
MisdatedMigrations ==
    <<init_identity_foundation, add_trips_domain, add_fleet_domain, add_maintenance_domain,
      add_fuel_domain, add_notifications_domain, add_integrations_domain, add_jobs_domain,
      add_account_lockout_fields, add_refresh_token_hash_index>>

Migrations ==
    <<init_identity_foundation, add_fleet_domain, add_trips_domain, add_maintenance_domain,
      add_fuel_domain, add_notifications_domain, add_integrations_domain, add_jobs_domain,
      add_account_lockout_fields, add_refresh_token_hash_index>>

-----------------------------------------------------------------------------
(* The models of schema.prisma, which cannot state a partial index.        *)
IdentityModels ==
    [organizations |-> Table({}, {}, {{"name"}, {"slug"}}),
     users |-> WithAdded(Table({"organizations"}, {}, {{"organization_id", "email"}}),
                         {"failed_login_attempts", "locked_until", "locked_until_idx"}),
     roles |-> Table({}, {"organizations"}, {{"organization_id", "name"}}),
     permissions |-> Table({}, {}, {{"resource", "action"}}),
     user_roles |-> Table({}, {"users", "roles"}, {{"user_id", "role_id"}}),
     role_permissions |-> Table({}, {"roles", "permissions"}, {{"role_id", "permission_id"}}),
     refresh_tokens |-> WithAdded(Table({}, {"users"}, {}), {"token_hash_idx"})]

FleetModels ==
    LET used == {"organizations", "vehicles", "drivers", "users"} IN
    [vehicles |-> Table({"organizations"}, {}, {{"vin"}, {"organization_id", "plate_number"}}),
     drivers |-> Table({"organizations"}, {}, {{"organization_id", "employee_id"},
                                              {"organization_id", "license_number"}}),
     vehicle_assignments |-> Table(used, {}, {}),
     trips |-> Table(used, {}, {{"organization_id", "trip_number"}}),
     trip_events |-> Table({"users"}, {"trips"}, {})]

MaintenanceModels ==
    LET used == {"organizations", "vehicles", "users"} IN
    [maintenance_records |-> Table(used, {}, {}),
     maintenance_events |-> Table({"users"}, {"maintenance_records"}, {}),
     inspections |-> Table(used, {}, {}),
     fuel_stations |-> Table({"organizations"}, {}, {{"organization_id", "name"}}),
     fuel_records |-> Table(used \cup {"trips", "fuel_stations"}, {}, {})]

IntegrationModels ==
    LET named == {"organization_id", "name"} IN
    [notifications |-> Table({"organizations", "users"}, {}, {}),
     notification_preferences |-> Table({}, {"users"}, {{"user_id"}}),
     api_keys |-> Table({"users"}, {"organizations"}, {{"hashed_key"}, named}),
     webhook_endpoints |-> Table({}, {"organizations"}, {named}),
     webhook_events |-> Table({}, {"organizations"}, {}),
     webhook_deliveries |-> Table({}, {"webhook_endpoints", "webhook_events"}, {}),
     jobs |-> Table({}, {"organizations"}, {})]

Models == IdentityModels @@ FleetModels @@ MaintenanceModels @@ IntegrationModels

-----------------------------------------------------------------------------
(* One write of a seeder: the row it upserts and the rows it looked up to  *)
(* do so; without them it goes without.  A generated key meets no row, so  *)
(* that its upsert always creates.                                         *)
Upsert(row, needs) == [row |-> row, needs |-> needs, generated |-> FALSE]
UpsertAll(name, keys) == [i \in 1..Len(keys) |-> Upsert(<<name, keys[i]>>, {})]

(* A seeder returns early without what it requires, or throws.             *)
Seeder(requires, upserts) == [requires |-> requires, throws |-> FALSE, writes |-> upserts]
Strict(seeder) == [seeder EXCEPT !.throws = TRUE]

DemoOrganization == <<"organizations", "fleetops-demo">>
AdminRole == <<"roles", "admin">>
Dispatcher == <<"users", "dispatcher">>
AdminUser == <<"users", "admin">>
DemoVehicle(n) == <<"vehicles", n>>
DemoDriver(n) == <<"drivers", n>>
DemoTrip(n) == <<"trips", n>>
Assigned(v, d) == <<"vehicle_assignments", v, d>>
OfDispatcher == {DemoOrganization, Dispatcher}

seedOrganizations == Seeder({}, <<Upsert(DemoOrganization, {})>>)

seedPermissions == Seeder({}, UpsertAll("permissions", DEFAULT_PERMISSIONS))

DEFAULT_ROLES == <<"admin", "fleet_manager", "dispatcher", "mechanic", "driver">>

seedRoles == Strict(Seeder({DemoOrganization}, UpsertAll("roles", DEFAULT_ROLES)))

(* The permissions there are: each write needs its own.                    *)
seedRolePermissions ==
    Strict(Seeder({DemoOrganization, AdminRole},
        [i \in 1..Len(DEFAULT_PERMISSIONS) |->
            Upsert(<<"role_permissions", DEFAULT_PERMISSIONS[i]>>,
                   {<<"permissions", DEFAULT_PERMISSIONS[i]>>})]))

seedVehicles == Seeder({DemoOrganization}, UpsertAll("vehicles", <<1, 2, 3, 4, 5>>))

seedDrivers == Seeder({DemoOrganization}, UpsertAll("drivers", <<1, 2, 3, 4, 5>>))

(* Without the first vehicle and driver it returns before the second pair. *)
seedDemoFleetSetup ==
    LET first == {DemoVehicle(1), DemoDriver(1)}
    IN  Seeder({DemoOrganization},
            <<Upsert(AdminUser, {}), Upsert(<<"user_roles", "admin">>, {AdminRole}),
              Upsert(Dispatcher, {}), Upsert(Assigned(1, 1), first),
              Upsert(Assigned(2, 2), first \cup {DemoVehicle(2), DemoDriver(2)})>>)

(* Trips 1 and 3 are of the first vehicle and driver; the events say how   *)
(* far each has come.                                                      *)
seedTrips ==
    LET trip(n, v) == Upsert(DemoTrip(n), {DemoVehicle(v), DemoDriver(v)})
        event(n, type) == Upsert(<<"trip_events", n, type>>, {DemoTrip(n)})
    IN  Seeder(OfDispatcher,
            <<trip(1, 1), event(1, "TRIP_CREATED"),
              trip(2, 2), event(2, "TRIP_CREATED"), event(2, "TRIP_DISPATCHED"),
              trip(3, 1), event(3, "TRIP_CREATED"), event(3, "TRIP_DISPATCHED"),
              event(3, "TRIP_STARTED")>>)

seedMaintenanceRecords ==
    Seeder(OfDispatcher \cup {DemoVehicle(3)},
           <<Upsert(<<"maintenance_records", "brakes">>, {}),
             Upsert(<<"maintenance_records", "oil">>, {DemoVehicle(1)})>>)

seedInspections ==
    Seeder(OfDispatcher \cup {DemoVehicle(1)},
           <<Upsert(<<"inspections", "passed">>, {}),
             Upsert(<<"inspections", "failed">>, {DemoVehicle(2)})>>)

(* The records of a vehicle, and of a trip, stand for one row.             *)
DEMO_FUEL_RECORDS ==
    LET record(v, trip) == Upsert(<<"fuel_records", v, trip>>, {DemoVehicle(v)})
    IN  <<record(1, 1), record(1, 3), record(1, 0), record(2, 2), record(2, 0),
          record(3, 0), record(4, 0)>>

seedFuel ==
    Seeder(OfDispatcher,
        UpsertAll("fuel_stations", <<"depot", "truck stop", "hub">>) \o DEMO_FUEL_RECORDS)

seedNotificationPreferences ==
    Seeder(OfDispatcher, <<Upsert(<<"notification_preferences", "dispatcher">>, {})>>)

seedNotifications ==
    Seeder(OfDispatcher, UpsertAll("notifications", <<"trip", "inspection", "fuel", "system">>))

seedIntegrations ==
    Seeder(OfDispatcher,
           <<[Upsert(<<"api_keys", "Demo integration key">>, {}) EXCEPT !.generated = TRUE],
             Upsert(<<"webhook_endpoints", "Demo webhook sink">>, {})>>)

seedReminderDemoData ==
    Seeder(OfDispatcher \cup {DemoVehicle(2)},
           <<Upsert(DemoDriver(6), {}), Upsert(<<"maintenance_records", "tires">>, {})>>)

(* Plausible fault: the trips come before the users they are created by.   *)
TripsFirst ==
    <<seedOrganizations, seedPermissions, seedRoles, seedRolePermissions, seedVehicles,
      seedDrivers, seedTrips, seedDemoFleetSetup, seedMaintenanceRecords, seedInspections,
      seedFuel, seedNotificationPreferences, seedNotifications, seedIntegrations,
      seedReminderDemoData>>

seeders ==
    <<seedOrganizations, seedPermissions, seedRoles, seedRolePermissions, seedVehicles,
      seedDrivers, seedDemoFleetSetup, seedTrips, seedMaintenanceRecords, seedInspections,
      seedFuel, seedNotificationPreferences, seedNotifications, seedIntegrations,
      seedReminderDemoData>>

-----------------------------------------------------------------------------
DeploymentInit ==
    /\ tables = <<>>
    /\ applied = 0
    /\ deploy = "deploying"
    /\ rows = {}
    /\ run = [at |-> 0, step |-> 1, started |-> 0, outcome |-> "none"]
    /\ reassigned = 0

(* A migration is one transaction.  A foreign key to a table that is not   *)
(* there fails it, and no later one is tried.                              *)
Migrate ==
    /\ deploy = "deploying"
    /\ LET migration == Migrations[applied + 1]
           created == migration.create @@ tables
           altered == DOMAIN migration.alter
           sound == /\ altered \subseteq DOMAIN tables
                    /\ \A t \in DOMAIN migration.create :
                          migration.create[t].restrict \cup migration.create[t].cascade
                             \subseteq DOMAIN created
       IN  IF sound
           THEN /\ tables' = [t \in DOMAIN created |->
                     IF t \in altered
                     THEN [created[t] EXCEPT !.added = @ \cup migration.alter[t]]
                     ELSE created[t]]
                /\ applied' = applied + 1
                /\ deploy' = IF applied' = Len(Migrations) THEN "migrated" ELSE deploy
           ELSE deploy' = "failed" /\ UNCHANGED <<tables, applied>>
    /\ UNCHANGED <<rows, run, reassigned>>

(* pnpm prisma:seed, whether or not the migrations are in.                 *)
StartSeed ==
    /\ run.at = 0 /\ run.started < MaxSeedRuns
    /\ run' = [at |-> 1, step |-> 1, started |-> run.started + 1,
               outcome |-> "running"]
    /\ UNCHANGED <<tables, applied, deploy, rows, reassigned>>

(* One active assignment per vehicle and driver.                           *)
Clash(a, b) ==
    a # b /\ a[1] = "vehicle_assignments" /\ b[1] = a[1] /\ (a[2] = b[2] \/ a[3] = b[3])

(* The database refuses a write: no such table, or a unique key is taken.  *)
Refuses(write) ==
    \/ write.row[1] \notin DOMAIN tables
    \/ write.generated /\ write.row \in rows
    \/ \E row \in rows : Clash(row, write.row)

Stop(outcome) == run' = [run EXCEPT !.at = 0, !.outcome = outcome]

NextSeeder ==
    IF run.at = Len(seeders) THEN Stop("completed")
    ELSE run' = [run EXCEPT !.at = @ + 1, !.step = 1]

NextWrite == run' = [run EXCEPT !.step = @ + 1]

(* runSeeders: a step of the seeder under way, or on to the next one.      *)
SeedStep ==
    /\ run.at \in DOMAIN seeders
    /\ LET seeder == seeders[run.at]
           write == seeder.writes[run.step]
       IN  IF ~(seeder.requires \subseteq rows)
           THEN (IF seeder.throws THEN Stop("threw") ELSE NextSeeder) /\ UNCHANGED rows
           ELSE IF run.step > Len(seeder.writes) THEN NextSeeder /\ UNCHANGED rows
           ELSE IF ~(write.needs \subseteq rows) THEN NextWrite /\ UNCHANGED rows
           ELSE IF Refuses(write) THEN Stop("threw") /\ UNCHANGED rows
           ELSE NextWrite /\ rows' = rows \cup {write.row}
    /\ UNCHANGED <<tables, applied, deploy, reassigned>>

(* The seed is interrupted between two statements.                         *)
InterruptSeed ==
    /\ run.at \in DOMAIN seeders
    /\ Stop("interrupted")
    /\ UNCHANGED <<tables, applied, deploy, rows, reassigned>>

(* The application ends a demo assignment and gives the vehicle to another *)
(* demo driver, which has none.                                            *)
Reassign(v, d, e) ==
    /\ reassigned < MaxReassigned
    /\ Assigned(v, d) \in rows /\ DemoDriver(e) \in rows
    /\ \A w \in 1..5 : Assigned(w, e) \notin rows
    /\ rows' = (rows \ {Assigned(v, d)}) \cup {Assigned(v, e)}
    /\ reassigned' = reassigned + 1
    /\ UNCHANGED <<tables, applied, deploy, run>>

DeploymentNext ==
    \/ Migrate
    \/ StartSeed
    \/ SeedStep
    \/ InterruptSeed
    \/ \E v \in 1..2, d, e \in 1..3 : Reassign(v, d, e)

-----------------------------------------------------------------------------
(* The migrations lead to the schema the client is generated from: none of *)
(* them refers to what a later one creates, and after the last the tables  *)
(* have the models' foreign keys, unique keys and later columns.           *)
MigratedIsSchema ==
    /\ deploy # "failed"
    /\ deploy = "migrated" =>
         [t \in DOMAIN tables |-> [tables[t] EXCEPT !.partial = {}]] = Models

(* A seeder that goes without what it does not find leaves nothing out:    *)
(* whatever interrupted the runs before, when a run is past a seeder all   *)
(* the rows of that seeder are there, or the application has put another   *)
(* assignment in their place.                                              *)
SeedLeavesNothingOut ==
    \A k \in DOMAIN seeders :
        run.at > k \/ run.outcome = "completed" =>
            \A i \in DOMAIN seeders[k].writes :
                LET row == seeders[k].writes[i].row
                IN  row \in rows \/ \E other \in rows : Clash(other, row)
=============================================================================
