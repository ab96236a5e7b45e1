------------------------------ MODULE JobLedger ------------------------------
(***************************************************************************)
(* What the job queues promise to whoever looks at the jobs table: a job   *)
(* is entered in the ledger and then queued.  While it is queued it is     *)
(* tried; a try ends with a verdict in the ledger, is missed, or lapses    *)
(* with its worker.  The ledger says "done" only of a job that has been    *)
(* done and "failed" only in the last try; a job is settled when there is  *)
(* a verdict, or given up when its tries or the forgiven lapses are used   *)
(* up.  From then on the ledger keeps what it says, until a job that is    *)
(* done is forgotten.  JobQueue implements this specification with two     *)
(* stores and a worker that may fail between any two calls.                *)
(***************************************************************************)
EXTENDS Naturals

CONSTANTS
    Jobs,
    MaxTries,
    MaxLapses       \* the lapses a job is forgiven

VARIABLES
    place,      \* "absent", "queued", "settled" or "given up"
    told,       \* what the ledger says: "nothing", "open", "done", "failed", "gone"
    done,       \* the job has been done
    sent,       \* how often the world has noticed
    tries,      \* the tries that were missed
    lapses      \* the tries that lapsed

jobVars == <<place, told, done, sent, tries, lapses>>

Init ==
    /\ place = [j \in Jobs |-> "absent"]
    /\ told = [j \in Jobs |-> "nothing"]
    /\ done = [j \in Jobs |-> FALSE]
    /\ sent = [j \in Jobs |-> 0]
    /\ tries = [j \in Jobs |-> 0]
    /\ lapses = [j \in Jobs |-> 0]

Enter(j) ==
    /\ place[j] = "absent"
    /\ told[j] = "nothing"
    /\ told' = [told EXCEPT ![j] = "open"]
    /\ UNCHANGED <<place, done, sent, tries, lapses>>

Queue(j) ==
    /\ place[j] = "absent"
    /\ told[j] = "open"
    /\ place' = [place EXCEPT ![j] = "queued"]
    /\ UNCHANGED <<told, done, sent, tries, lapses>>

(* A try reaches its goal or not, and the world notices once or not at all. *)
CarryOut(j) ==
    /\ place[j] = "queued"
    /\ sent[j] <= tries[j] + lapses[j]
    /\ done' \in {done, [done EXCEPT ![j] = TRUE]}
    /\ sent' \in {sent, [sent EXCEPT ![j] = @ + 1]}
    /\ UNCHANGED <<place, told, tries, lapses>>

(* A job that lapsed after its verdict is open again when it is tried again. *)
Tell(j, verdict) ==
    /\ place[j] = "queued"
    /\ told[j] \notin {"nothing", "gone"}
    /\ verdict = "done" => done[j]
    /\ verdict = "failed" => tries[j] + 1 = MaxTries
    /\ told' = [told EXCEPT ![j] = verdict]
    /\ UNCHANGED <<place, done, sent, tries, lapses>>

Settle(j) ==
    /\ place[j] = "queued"
    /\ told[j] \in {"done", "failed", "gone"}
    /\ place' = [place EXCEPT ![j] = "settled"]
    /\ UNCHANGED <<told, done, sent, tries, lapses>>

Miss(j) ==
    /\ place[j] = "queued"
    /\ tries' = [tries EXCEPT ![j] = @ + 1]
    /\ place' = [place EXCEPT ![j] = IF tries[j] + 1 < MaxTries THEN @ ELSE "given up"]
    /\ UNCHANGED <<told, done, sent, lapses>>

Lapse(j) ==
    /\ place[j] = "queued"
    /\ lapses' = [lapses EXCEPT ![j] = @ + 1]
    /\ place' = [place EXCEPT ![j] = IF lapses[j] < MaxLapses THEN @ ELSE "given up"]
    /\ UNCHANGED <<told, done, sent, tries>>

Forget(j) ==
    /\ told[j] = "done"
    /\ told' = [told EXCEPT ![j] = "gone"]
    /\ UNCHANGED <<place, done, sent, tries, lapses>>

Next ==
    \E j \in Jobs :
        \/ Enter(j) \/ Queue(j) \/ CarryOut(j) \/ Settle(j)
        \/ \E verdict \in {"open", "done", "failed"} : Tell(j, verdict)
        \/ Miss(j) \/ Lapse(j) \/ Forget(j)

Spec == Init /\ [][Next]_jobVars
=============================================================================
