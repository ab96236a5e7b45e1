\* Requests of one author: records, inspections, preferences, webhooks.
SPECIFICATION Spec
CONSTANTS
    v1 = v1
    Users = {u1}
    Calls = {c1, c2}
    PreferenceInputs <- PreferenceInputsDef
    Vehicles = {v1, v2}
    Trips = {t1}
    VehicleOf <- VehicleOfDef
    Readings <- ReadingsDef
    Endpoints = {e1}
    None = None
SYMMETRY Symmetry
INVARIANTS
    TypeOK
    NoUnwantedNotification
    OdometerFollowsRealTime
    SuccessIsComplete
\* Every request of the behaviour has been answered.
CHECK_DEADLOCK FALSE
