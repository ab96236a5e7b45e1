\* Two requests waiting for rows and index entries of each other.
SPECIFICATION MCFairSpec
CONSTANTS
    Vehicles = {v1}
    Records = {m1, m2}
    Requests = {r1, r2}
    VehicleInputs = {}
    MaxEvents = 3
    None = None

PROPERTIES
    RequestsEnd
\* Every record has ended and no id is left: the system may stop.
CHECK_DEADLOCK FALSE
