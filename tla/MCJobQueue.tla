----------------------------- MODULE MCJobQueue -----------------------------
(* Small instances of JobQueue for TLC. *)
EXTENDS JobQueue, TLC

CONSTANTS j1, j2

(* Any job alone, and two reports that wait for one worker. *)
KindChoicesDef ==
    {[j \in Jobs |-> IF j = j1 THEN k ELSE None] : k \in Kinds}
        \cup {[j \in Jobs |-> "report-generation"]}
=============================================================================
