\* Two requests in flight: a cancel read before the start it overwrites.
SPECIFICATION MCSpec
CONSTANTS
    Vehicles = {v1}
    Records = {m1, m2}
    Requests = {r1, r2}
    VehicleInputs = {}
    MaxEvents = 4
    None = None

INVARIANTS
    NoStrandedVehicle
\* Every record has ended and no id is left: the system may stop.
CHECK_DEADLOCK FALSE
