\* One request, two reminded items, two trips, a buffer of up to three events,
\* two runs of the seed: each part on its own, in one state space.
SPECIFICATION Spec
CONSTANTS
    l1 = l1
    m1 = m1
    v1 = v1
    v2 = v2
    Licences = {l1}
    Maintenances = {m1}
    Days <- DaysDef
    LastHalfDay = 5
    Requests = {r1}
    Asked <- AskedDef
    GrantedRoles = {"manager"}
    FleetVehicles = {v1, v2}
    TripRows <- TripRowsDef
    FuelRows <- FuelRowsDef
    MaintenanceRows <- MaintenanceRowsDef
    Bounds <- BoundsDef
    NoDate = NoDate
    MaxWrites = 1
    LoggedEvents = {"trip_created", "job_failed", "authorization_check"}
    BufferSizes = {1, 2, 3}
    Limits <- LimitsDef
    MaxLogged = 4
    MaxSeedRuns = 2
    MaxReassigned = 1
INVARIANTS
    RemindedAhead
    AllowedWasEntitled
    DashboardAgrees
    ExportIsLatest
    MigratedIsSchema
    SeedLeavesNothingOut
\* Every part comes to its bound.
CHECK_DEADLOCK FALSE
