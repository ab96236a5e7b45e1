\* Two requests, in turn or interleaved: two trips, vehicles that share a driver.
SPECIFICATION MCSpec
CONSTANTS
    Vehicles = {v1, v2}
    Drivers = {d1}
    TripNumbers = {t1, t2}
    Schedules <- SchedulesDef
    Requests = {r1, r2}
    VehicleInputs = {"ACTIVE", "IN_MAINTENANCE"}
    MaxEvents = 4
    None = None
    MaxInterleaved = 1
SYMMETRY Symmetry
INVARIANTS
    TypeOK
    TimesMatchStatus
    LogMatchesStatus
    TransitionsJustified
    NoOverlapInTurn
PROPERTIES
    LifecycleInTurn
