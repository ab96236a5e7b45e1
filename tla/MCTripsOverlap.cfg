\* Two requests in flight: both pass the overlap checks before either inserts.
SPECIFICATION MCSpec
CONSTANTS
    Vehicles = {v1}
    Drivers = {d1}
    TripNumbers = {t1, t2}
    Schedules <- OverlappingDef
    Requests = {r1, r2}
    VehicleInputs = {}
    MaxEvents = 5
    None = None
    MaxInterleaved = 2

INVARIANTS
    NoOverlap
