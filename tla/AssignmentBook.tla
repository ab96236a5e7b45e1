--------------------------- MODULE AssignmentBook ---------------------------
(***************************************************************************)
(* What vehicle assignments promise: a book of active (vehicle, driver)    *)
(* pairs in which neither a vehicle nor a driver appears twice.  A pair is *)
(* entered in one atomic step, only while both are free, and leaves the    *)
(* book when it ends.  VehicleAssignments implements this specification    *)
(* with a request that reads and writes in separate database calls; Trips  *)
(* takes it as the environment its own checks read.                        *)
(***************************************************************************)
CONSTANTS Vehicles, Drivers

VARIABLE active     \* the active <<vehicle, driver>> pairs

FreeVehicle(v) == \A p \in active : p[1] # v
FreeDriver(d) == \A p \in active : p[2] # d

Init == active = {}

Assign(v, d) ==
    /\ FreeVehicle(v)
    /\ FreeDriver(d)
    /\ active' = active \cup {<<v, d>>}

End(p) ==
    /\ p \in active
    /\ active' = active \ {p}

Next ==
    \/ \E v \in Vehicles, d \in Drivers : Assign(v, d)
    \/ \E p \in active : End(p)

Spec == Init /\ [][Next]_active
=============================================================================
