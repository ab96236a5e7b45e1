\* Requests over two records of one vehicle, its status also set by hand: three
\* that interleave, or callers that take turns.
SPECIFICATION MCSpec
CONSTANTS
    Vehicles = {v1}
    Records = {m1, m2}
    Requests = {r1, r2, r3}
    VehicleInputs = {"ACTIVE", "RETIRED"}
    MaxEvents = 4
    None = None
SYMMETRY Symmetry
INVARIANTS
    OneInProgressPerVehicle
    TimestampsMatchStatus
    LogMatchesStatus
    TransitionsJustified
    NoStrandedInTurn
PROPERTIES
    LifecycleInTurn
    WorkedOnInTurn
