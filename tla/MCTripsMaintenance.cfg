\* One request at a time: the vehicle enters maintenance after the trip is planned.
SPECIFICATION MCSpec
CONSTANTS
    Vehicles = {v1}
    Drivers = {d1}
    TripNumbers = {t1}
    Schedules <- OneScheduleDef
    Requests = {r1}
    VehicleInputs = {"ACTIVE", "IN_MAINTENANCE"}
    MaxEvents = 5
    None = None
    MaxInterleaved = 1

PROPERTIES
    NoStartInMaintenance
