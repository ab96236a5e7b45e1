---------------------------- MODULE MCFuelRecords ----------------------------
(* Small instances of FuelRecords for TLC. *)
EXTENDS FuelRecords, TLC

CONSTANTS v1

VehicleOfDef == [t \in Trips |-> v1]

(* The body that turns fuel notifications off or on, and an empty one. *)
PreferenceInputsDef == {[f \in {"fuel"} |-> b] : b \in BOOLEAN} \cup {<<>>}

(* Refused, low and high. *)
ReadingsDef == {-1, 1, 2}

Symmetry == Permutations(Calls)
=============================================================================
