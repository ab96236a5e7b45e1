\* Two requests: assignments alone, and with maintenance and trips beside them.
SPECIFICATION MCSpec
CONSTANTS
    o1 = o1
    o2 = o2
    v1 = v1
    v2 = v2
    d1 = d1
    d2 = d2
    d3 = d3
    None = None
    Organizations = {o1, o2}
    Vehicles = {v1, v2}
    Drivers = {d1, d2, d3}
    OrgOf <- OrgOfDef
    AssignmentIds = {a1, a2, a3}
    Requests = {r1, r2}
    VehicleInputs = {"ACTIVE", "IN_MAINTENANCE"}
    DriverInputs = {"ACTIVE", "SUSPENDED"}
    Records = {m1}
    TripNumbers = {t1}
    Schedules <- OneScheduleDef
    MaxEvents = 2
SYMMETRY Symmetry
INVARIANTS
    TypeOK
    OneActivePerVehicleAndDriver
    TenantIsolation
    TripsFollowAssignments
PROPERTIES
    ImplementsBook
    ImplementsComponents
