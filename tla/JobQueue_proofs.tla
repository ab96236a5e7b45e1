--------------------------- MODULE JobQueue_proofs ---------------------------
(***************************************************************************)
(* Proofs about JobQueue, for any number of jobs, attempts and stalls.  A  *)
(* step writes the state of one job, so that the invariant is one about a  *)
(* single job and each action is looked at for the job it moves.           *)
(***************************************************************************)
EXTENDS JobQueue, TLAPS

(* The row of a job. *)
RowOK(j) ==
    Exists(j) =>
        /\ rows[j].status = "COMPLETED" =>
              /\ achieved[j]
              /\ kind[j] = "webhook-delivery" =>
                    \E n \in 1..MaxAttempts : <<n, "SUCCESS">> \in deliveries[j]
        /\ bull[j] = "completed" \/ pc[j] = "return" =>
              isTerminalJobStatus(rows[j].status)
        /\ rows[j].status = "FAILED" => rows[j].attemptCount = MaxAttempts

(* What the worker has established by the point it has reached. *)
WorkerOK(j) ==
    /\ pc[j] # "idle" <=> bull[j] = "active"
    /\ caller[j] \in {"create", "add"} => bull[j] = "absent"
    /\ pc[j] \in {"recordSuccess", "markCompleted"} => achieved[j]
    /\ pc[j] = "markCompleted" /\ kind[j] = "webhook-delivery" =>
          \E n \in 1..MaxAttempts : <<n, "SUCCESS">> \in deliveries[j]
    /\ pc[j] = "markFailed" => attemptNumber(j) >= MaxAttempts

(* An attempt has its effect once, and either counts as made or as stalled   *)
(* before the next one begins.                                               *)
Acted == {"recordSuccess", "recordFailure", "markCompleted", "catch", "markFailed",
          "return", "throw"}

CountsOK(j) ==
    /\ bull[j] # "failed" => made[j] < MaxAttempts /\ stalls[j] <= MaxStalls
    /\ effects[j] <= made[j] + stalls[j] +
          (IF pc[j] \in Acted \/ bull[j] = "completed" THEN 1 ELSE 0)

IInv ==
    /\ TypeOK
    /\ \A j \in Jobs : RowOK(j) /\ WorkerOK(j) /\ CountsOK(j)

-----------------------------------------------------------------------------
USE DEF outcome, queue
USE JobQueueAssumption

(* The types of one job's state. *)
LEMMA JobType ==
    ASSUME TypeOK, NEW j \in Jobs
    PROVE  /\ kind[j] \in Kinds \cup {None}
           /\ rows[j] \in Row \cup {None}
           /\ bull[j] \in BullStates
           /\ made[j] \in 0..MaxAttempts
           /\ stalls[j] \in 0..(MaxStalls + 1)
           /\ pc[j] \in Steps
           /\ caller[j] \in {"create", "add", "attach", "done"}
           /\ deliveries[j] \subseteq (1..MaxAttempts) \X DeliveryStatus
           /\ effects[j] \in Nat
           /\ achieved[j] \in BOOLEAN
BY DEF TypeOK

(* The jobs a step does not move keep their invariant. *)
LEMMA OtherJobs ==
    ASSUME IInv, NEW j \in Jobs, TypeOK',
           \A k \in Jobs \ {j} :
               /\ rows'[k] = rows[k] /\ bull'[k] = bull[k] /\ made'[k] = made[k]
               /\ stalls'[k] = stalls[k] /\ pc'[k] = pc[k] /\ caller'[k] = caller[k]
               /\ deliveries'[k] = deliveries[k] /\ effects'[k] = effects[k]
               /\ achieved'[k] = achieved[k],
           UNCHANGED kind,
           RowOK(j)', WorkerOK(j)', CountsOK(j)'
    PROVE  IInv'
<1>1. ASSUME NEW k \in Jobs \ {j}
      PROVE  RowOK(k)' /\ WorkerOK(k)' /\ CountsOK(k)'
  <2>1. RowOK(k) /\ WorkerOK(k) /\ CountsOK(k)
    BY DEF IInv
  <2>2. /\ rows'[k] = rows[k] /\ bull'[k] = bull[k] /\ made'[k] = made[k]
        /\ stalls'[k] = stalls[k] /\ pc'[k] = pc[k] /\ caller'[k] = caller[k]
        /\ deliveries'[k] = deliveries[k] /\ effects'[k] = effects[k]
        /\ achieved'[k] = achieved[k] /\ kind'[k] = kind[k]
    OBVIOUS
  <2>3. RowOK(k)'
    BY <2>1, <2>2 DEF RowOK, Exists
  <2>4. WorkerOK(k)'
    BY <2>1, <2>2 DEF WorkerOK, attemptNumber
  <2>5. CountsOK(k)'
    BY <2>1, <2>2 DEF CountsOK
  <2>6. QED
    BY <2>3, <2>4, <2>5
<1>2. QED
  BY <1>1 DEF IInv

(* Enqueuing, and what happens to the endpoint and to old rows. *)
LEMMA CallerSteps ==
    ASSUME IInv, NEW j \in Jobs,
           \/ CreateRow(j) \/ AddToQueue(j) \/ Attach(j)
           \/ CallerDies(j) \/ SwitchEndpoint(j) \/ Cleanup(j)
    PROVE  IInv'
<1>1. TypeOK /\ RowOK(j) /\ WorkerOK(j) /\ CountsOK(j)
  BY DEF IInv
<1>2. CASE CreateRow(j)
  <2>1. TypeOK'
    BY <1>1, <1>2 DEF CreateRow, TypeOK, Row, JobStatus
  <2>2. /\ rows'[j] = [status |-> "PENDING", attemptCount |-> 0, bullJobId |-> FALSE]
        /\ caller'[j] = "add"
        /\ bull[j] = "absent" /\ pc[j] = "idle"
    BY <1>1, <1>2 DEF CreateRow, TypeOK, WorkerOK
  <2>3. RowOK(j)'
    BY <1>1, <1>2, <2>2 DEF CreateRow, RowOK, Exists, isTerminalJobStatus
  <2>4. WorkerOK(j)'
    BY <1>1, <1>2, <2>2 DEF CreateRow, WorkerOK, attemptNumber
  <2>5. CountsOK(j)'
    BY <1>1, <1>2, <2>2, JobType DEF CreateRow, CountsOK, WorkerOK, Acted
  <2>6. QED
    BY <1>1, <1>2, <2>1, <2>3, <2>4, <2>5, OtherJobs DEF CreateRow, TypeOK, Goto
<1>3. CASE AddToQueue(j)
  <2>1. TypeOK'
    BY <1>1, <1>3 DEF AddToQueue, TypeOK, BullStates, WorkerOK
  <2>2. /\ bull'[j] = "waiting"
        /\ bull[j] = "absent"
        /\ caller'[j] = "attach"
    BY <1>1, <1>3 DEF AddToQueue, TypeOK, WorkerOK
  <2>3. RowOK(j)'
    BY <1>1, <1>3, <2>2 DEF AddToQueue, RowOK, Exists, isTerminalJobStatus
  <2>4. WorkerOK(j)'
    BY <1>1, <1>3, <2>2 DEF AddToQueue, WorkerOK, attemptNumber
  <2>5. CountsOK(j)'
    BY <1>1, <1>3, <2>2, JobType DEF AddToQueue, CountsOK, WorkerOK, Acted
  <2>6. QED
    BY <1>1, <1>3, <2>1, <2>3, <2>4, <2>5, OtherJobs DEF AddToQueue, TypeOK, Goto
<1>4. CASE Attach(j)
  <2>1. TypeOK'
    <3>1. CASE Exists(j)
      <4> DEFINE row == [rows[j] EXCEPT !.bullJobId = TRUE]
      <4>1. row \in Row
        BY <1>1, <3>1, JobType DEF Row, Exists
      <4>2. rows' = [rows EXCEPT ![j] = row]
        BY <1>4, <3>1 DEF Attach
      <4> HIDE DEF row
      <4>3. rows' \in [Jobs -> Row \cup {None}]
        BY <1>1, <4>1, <4>2 DEF TypeOK
      <4>4. caller' \in [Jobs -> {"create", "add", "attach", "done"}]
        BY <1>1, <1>4 DEF Attach, TypeOK
      <4>5. UNCHANGED <<kind, queue, pc, endpoint, outcome>>
        BY <1>4 DEF Attach
      <4>6. QED
        BY <1>1, <4>3, <4>4, <4>5 DEF TypeOK
    <3>2. CASE ~Exists(j)
      BY <1>1, <1>4, <3>2 DEF Attach, TypeOK
    <3>3. QED
      BY <3>1, <3>2
  <2>2. /\ Exists(j)' <=> Exists(j)
        /\ Exists(j) => /\ rows'[j].status = rows[j].status
                        /\ rows'[j].attemptCount = rows[j].attemptCount
        /\ caller'[j] = "done"
    <3>1. CASE Exists(j)
      <4>1. rows[j] \in Row /\ rows'[j] = [rows[j] EXCEPT !.bullJobId = TRUE]
        BY <1>1, <1>4, <3>1 DEF Attach, Exists, TypeOK
      <4>2. /\ rows'[j] \in Row
            /\ rows'[j].status = rows[j].status
            /\ rows'[j].attemptCount = rows[j].attemptCount
        BY <4>1 DEF Row
      <4>3. rows'[j] # None
        BY <4>2, NoneIsNoRow
      <4>4. caller'[j] = "done"
        BY <1>1, <1>4 DEF Attach, TypeOK
      <4>5. QED
        BY <3>1, <4>2, <4>3, <4>4 DEF Exists
    <3>2. CASE ~Exists(j)
      BY <1>1, <1>4, <3>2 DEF Attach, Exists, TypeOK
    <3>3. QED
      BY <3>1, <3>2
  <2>3. RowOK(j)'
    BY <1>1, <1>4, <2>2 DEF Attach, RowOK, Exists, isTerminalJobStatus
  <2>4. WorkerOK(j)'
    BY <1>1, <1>4, <2>2 DEF Attach, WorkerOK, attemptNumber
  <2>5. CountsOK(j)'
    BY <1>1, <1>4, <2>2, JobType DEF Attach, CountsOK, WorkerOK, Acted
  <2>6. QED
    BY <1>1, <1>4, <2>1, <2>3, <2>4, <2>5, OtherJobs DEF Attach, TypeOK, Goto
<1>5. CASE CallerDies(j)
  <2>1. TypeOK'
    BY <1>1, <1>5 DEF CallerDies, TypeOK, WorkerOK
  <2>2. /\ caller'[j] = "done"
    BY <1>1, <1>5 DEF CallerDies, TypeOK, WorkerOK
  <2>3. RowOK(j)'
    BY <1>1, <1>5, <2>2 DEF CallerDies, RowOK, Exists, isTerminalJobStatus
  <2>4. WorkerOK(j)'
    BY <1>1, <1>5, <2>2 DEF CallerDies, WorkerOK, attemptNumber
  <2>5. CountsOK(j)'
    BY <1>1, <1>5, <2>2, JobType DEF CallerDies, CountsOK, WorkerOK, Acted
  <2>6. QED
    BY <1>1, <1>5, <2>1, <2>3, <2>4, <2>5, OtherJobs DEF CallerDies, TypeOK, Goto
<1>6. CASE SwitchEndpoint(j)
  <2>1. TypeOK'
    BY <1>1, <1>6 DEF SwitchEndpoint, TypeOK, WorkerOK
  <2>3. RowOK(j)'
    BY <1>1, <1>6 DEF SwitchEndpoint, RowOK, Exists, isTerminalJobStatus
  <2>4. WorkerOK(j)'
    BY <1>1, <1>6 DEF SwitchEndpoint, WorkerOK, attemptNumber
  <2>5. CountsOK(j)'
    BY <1>1, <1>6, JobType DEF SwitchEndpoint, CountsOK, WorkerOK, Acted
  <2>6. QED
    BY <1>1, <1>6, <2>1, <2>3, <2>4, <2>5, OtherJobs
       DEF SwitchEndpoint, TypeOK, Goto
<1>7. CASE Cleanup(j)
  <2>1. TypeOK'
    BY <1>1, <1>7 DEF Cleanup, TypeOK, Exists
  <2>2. /\ rows'[j] = None
    BY <1>1, <1>7 DEF Cleanup, TypeOK, Exists
  <2>3. RowOK(j)'
    BY <1>1, <1>7, <2>2 DEF Cleanup, RowOK, Exists, isTerminalJobStatus
  <2>4. WorkerOK(j)'
    BY <1>1, <1>7, <2>2 DEF Cleanup, WorkerOK, attemptNumber
  <2>5. CountsOK(j)'
    BY <1>1, <1>7, <2>2, JobType DEF Cleanup, CountsOK, WorkerOK, Acted
  <2>6. QED
    BY <1>1, <1>7, <2>1, <2>3, <2>4, <2>5, OtherJobs DEF Cleanup, TypeOK, Goto
<1>8. QED
  BY <1>2, <1>3, <1>4, <1>5, <1>6, <1>7

(* What BullMQ does with a job. *)
LEMMA BullSteps ==
    ASSUME IInv, NEW j \in Jobs,
           Take(j) \/ Acknowledge(j) \/ Retry(j) \/ Crash(j)
    PROVE  IInv'
<1>1. TypeOK /\ RowOK(j) /\ WorkerOK(j) /\ CountsOK(j)
  BY DEF IInv
<1>2. CASE Take(j)
  <2>1. TypeOK'
    BY <1>1, <1>2 DEF Take, TypeOK, BullStates, Steps, Goto
  <2>2. /\ bull'[j] = "active"
        /\ bull[j] = "waiting"
        /\ pc'[j] = "markProcessing"
    BY <1>1, <1>2 DEF Take, TypeOK, Goto
  <2>3. RowOK(j)'
    BY <1>1, <1>2, <2>2 DEF Take, RowOK, Exists, isTerminalJobStatus
  <2>4. WorkerOK(j)'
    BY <1>1, <1>2, <2>2 DEF Take, WorkerOK, attemptNumber
  <2>5. CountsOK(j)'
    BY <1>1, <1>2, <2>2, JobType DEF Take, CountsOK, WorkerOK, Acted
  <2>6. QED
    BY <1>1, <1>2, <2>1, <2>3, <2>4, <2>5, OtherJobs DEF Take, TypeOK, Goto
<1>3. CASE Acknowledge(j)
  <2>1. TypeOK'
    BY <1>1, <1>3 DEF Acknowledge, TypeOK, BullStates, Steps, Goto, WorkerOK
  <2>2. /\ bull'[j] = "completed"
        /\ pc'[j] = "idle"
        /\ bull[j] = "active"
    BY <1>1, <1>3 DEF Acknowledge, TypeOK, Goto, WorkerOK
  <2>3. RowOK(j)'
    BY <1>1, <1>3, <2>2 DEF Acknowledge, RowOK, Exists, isTerminalJobStatus
  <2>4. WorkerOK(j)'
    BY <1>1, <1>3, <2>2 DEF Acknowledge, WorkerOK, attemptNumber
  <2>5. CountsOK(j)'
    BY <1>1, <1>3, <2>2, JobType DEF Acknowledge, CountsOK, WorkerOK, Acted
  <2>6. QED
    BY <1>1, <1>3, <2>1, <2>3, <2>4, <2>5, OtherJobs DEF Acknowledge, TypeOK, Goto
<1>4. CASE Retry(j)
  <2>1. TypeOK'
    BY <1>1, <1>4 DEF Retry, TypeOK, BullStates, Steps, Goto, WorkerOK, CountsOK
  <2>2. /\ pc'[j] = "idle"
        /\ bull[j] = "active"
        /\ made'[j] = made[j] + 1
        /\ bull'[j] = IF made[j] + 1 < MaxAttempts THEN "waiting" ELSE "failed"
    BY <1>1, <1>4 DEF Retry, TypeOK, Goto, WorkerOK
  <2>3. RowOK(j)'
    <3>1. UNCHANGED <<kind, rows, deliveries, achieved>>
      BY <1>4 DEF Retry
    <3>2. bull'[j] # "completed" /\ pc'[j] # "return"
      BY <2>2
    <3>3. QED
      BY <1>1, <3>1, <3>2 DEF RowOK, Exists
  <2>4. WorkerOK(j)'
    BY <1>1, <1>4, <2>2 DEF Retry, WorkerOK, attemptNumber
  <2>5. CountsOK(j)'
    BY <1>1, <1>4, <2>2, JobType DEF Retry, CountsOK, WorkerOK, Acted
  <2>6. QED
    BY <1>1, <1>4, <2>1, <2>3, <2>4, <2>5, OtherJobs DEF Retry, TypeOK, Goto
<1>5. CASE Crash(j)
  <2>1. TypeOK'
    BY <1>1, <1>5 DEF Crash, TypeOK, BullStates, Steps, Goto, WorkerOK, CountsOK
  <2>2. /\ pc'[j] = "idle"
        /\ stalls'[j] = stalls[j] + 1
        /\ bull'[j] = IF stalls[j] < MaxStalls THEN "waiting" ELSE "failed"
    BY <1>1, <1>5 DEF Crash, TypeOK, Goto, WorkerOK
  <2>3. RowOK(j)'
    BY <1>1, <1>5, <2>2 DEF Crash, RowOK, Exists, isTerminalJobStatus
  <2>4. WorkerOK(j)'
    BY <1>1, <1>5, <2>2 DEF Crash, WorkerOK, attemptNumber
  <2>5. CountsOK(j)'
    BY <1>1, <1>5, <2>2, JobType DEF Crash, CountsOK, WorkerOK, Acted
  <2>6. QED
    BY <1>1, <1>5, <2>1, <2>3, <2>4, <2>5, OtherJobs DEF Crash, TypeOK, Goto
<1>6. QED
  BY <1>2, <1>3, <1>4, <1>5

(* What a processor writes to the row of its job. *)
LEMMA RowSteps ==
    ASSUME IInv, NEW j \in Jobs,
           MarkProcessing(j) \/ MarkCompleted(j) \/ MarkFailed(j)
    PROVE  IInv'
<1>1. TypeOK /\ RowOK(j) /\ WorkerOK(j) /\ CountsOK(j)
  BY DEF IInv
<1>2. CASE MarkProcessing(j)
  <2>1. TypeOK'
    <3>1. attemptNumber(j) \in Nat
      BY <1>1, JobType DEF attemptNumber
    <3>2. rows' \in [Jobs -> Row \cup {None}]
      BY <1>1, <1>2, <3>1 DEF MarkProcessing, TypeOK, Row, JobStatus, Exists
    <3>3. pc' \in [Jobs -> Steps] /\ (pc'[j] # "idle" /\ bull[j] = "active")
      BY <1>1, <1>2 DEF MarkProcessing, TypeOK, Steps, Goto, Thrown, WorkerOK
    <3>4. QED
      BY <1>1, <1>2, <3>2, <3>3 DEF MarkProcessing, TypeOK, Goto
  <2>2. /\ pc[j] = "markProcessing"
        /\ \/ UNCHANGED rows /\ pc'[j] \in {"throw"}
           \/ /\ Exists(j)'
              /\ pc'[j] = "work"
              /\ rows'[j].status = "PROCESSING"
              /\ rows'[j].attemptCount = attemptNumber(j)
    <3>1. CASE UNCHANGED rows /\ (Goto(j, "throw") \/ Goto(j, Thrown(j)))
      BY <1>1, <1>2, <3>1 DEF MarkProcessing, TypeOK, Goto, Thrown, Guarded
    <3>2. CASE /\ Exists(j)
               /\ pc'[j] = "work"
               /\ rows' = [rows EXCEPT ![j] =
                       [rows[j] EXCEPT !.status = "PROCESSING", !.attemptCount = attemptNumber(j)]]
      <4>1. /\ rows[j] \in Row
            /\ rows'[j] =
                    [rows[j] EXCEPT !.status = "PROCESSING", !.attemptCount = attemptNumber(j)]
        BY <1>1, <3>2 DEF Exists, TypeOK
      <4>2. attemptNumber(j) \in Nat
        BY <1>1, JobType DEF attemptNumber
      <4>3. /\ rows'[j] \in Row
            /\ rows'[j].status = "PROCESSING"
            /\ rows'[j].attemptCount = attemptNumber(j)
        BY <4>1, <4>2 DEF Row, JobStatus
      <4>4. rows'[j] # None
        BY <4>3, NoneIsNoRow
      <4>5. QED
        BY <1>1, <1>2, <3>2, <4>3, <4>4 DEF MarkProcessing, Exists
    <3>3. QED
      BY <1>1, <1>2, <3>1, <3>2 DEF MarkProcessing, Goto, TypeOK
  <2>3. RowOK(j)'
    <3>1. bull'[j] = "active"
      BY <1>1, <1>2, <2>2 DEF MarkProcessing, WorkerOK
    <3>2. /\ UNCHANGED <<achieved, deliveries, kind>>
          /\ Thrown(j) # "return"
      BY <1>2 DEF MarkProcessing, Thrown
    <3>3. CASE UNCHANGED rows /\ pc'[j] # "return"
      BY <1>1, <3>1, <3>2, <3>3 DEF RowOK, Exists
    <3>4. CASE ~(UNCHANGED rows /\ pc'[j] # "return")
      BY <1>1, <2>2, <3>1, <3>2, <3>4
         DEF RowOK, WorkerOK, CountsOK, attemptNumber, isTerminalJobStatus, TypeOK
    <3>5. QED
      BY <3>3, <3>4
  <2>4. WorkerOK(j)'
    BY <1>1, <1>2, <2>2 DEF MarkProcessing, WorkerOK, attemptNumber
  <2>5. CountsOK(j)'
    BY <1>1, <1>2, <2>2, JobType DEF MarkProcessing, CountsOK, WorkerOK, Acted
  <2>6. QED
    BY <1>1, <1>2, <2>1, <2>3, <2>4, <2>5, OtherJobs
       DEF MarkProcessing, TypeOK, Goto
<1>3. CASE MarkCompleted(j)
  <2>1. TypeOK'
    <3>1. attemptNumber(j) \in Nat
      BY <1>1, JobType DEF attemptNumber
    <3>2. rows' \in [Jobs -> Row \cup {None}]
      BY <1>1, <1>3, <3>1 DEF MarkCompleted, TypeOK, Row, JobStatus, Exists
    <3>3. pc' \in [Jobs -> Steps] /\ (pc'[j] # "idle" /\ bull[j] = "active")
      BY <1>1, <1>3 DEF MarkCompleted, TypeOK, Steps, Goto, Thrown, WorkerOK
    <3>4. QED
      BY <1>1, <1>3, <3>2, <3>3 DEF MarkCompleted, TypeOK, Goto
  <2>2. /\ pc[j] = "markCompleted"
        /\ \/ UNCHANGED rows /\ pc'[j] \in {"catch", "throw"}
           \/ Exists(j)' /\ pc'[j] = "return" /\ rows'[j].status = "COMPLETED"
    <3>1. CASE UNCHANGED rows /\ (Goto(j, "throw") \/ Goto(j, Thrown(j)))
      BY <1>1, <1>3, <3>1 DEF MarkCompleted, TypeOK, Goto, Thrown, Guarded
    <3>2. CASE /\ Exists(j)
               /\ pc'[j] = "return"
               /\ rows' = [rows EXCEPT ![j] =
                       [rows[j] EXCEPT !.status = "COMPLETED"]]
      <4>1. rows[j] \in Row /\ rows'[j] = [rows[j] EXCEPT !.status = "COMPLETED"]
        BY <1>1, <3>2 DEF Exists, TypeOK
      <4>2. attemptNumber(j) \in Nat
        BY <1>1, JobType DEF attemptNumber
      <4>3. /\ rows'[j] \in Row
            /\ rows'[j].status = "COMPLETED"
        BY <4>1, <4>2 DEF Row, JobStatus
      <4>4. rows'[j] # None
        BY <4>3, NoneIsNoRow
      <4>5. QED
        BY <1>1, <1>3, <3>2, <4>3, <4>4 DEF MarkCompleted, Exists
    <3>3. QED
      BY <1>1, <1>3, <3>1, <3>2 DEF MarkCompleted, Goto, TypeOK
  <2>3. RowOK(j)'
    <3>1. bull'[j] = "active"
      BY <1>1, <1>3, <2>2 DEF MarkCompleted, WorkerOK
    <3>2. /\ UNCHANGED <<achieved, deliveries, kind>>
          /\ Thrown(j) # "return"
      BY <1>3 DEF MarkCompleted, Thrown
    <3>3. CASE UNCHANGED rows /\ pc'[j] # "return"
      BY <1>1, <3>1, <3>2, <3>3 DEF RowOK, Exists
    <3>4. CASE ~(UNCHANGED rows /\ pc'[j] # "return")
      BY <1>1, <2>2, <3>1, <3>2, <3>4
         DEF RowOK, WorkerOK, CountsOK, attemptNumber, isTerminalJobStatus, TypeOK
    <3>5. QED
      BY <3>3, <3>4
  <2>4. WorkerOK(j)'
    BY <1>1, <1>3, <2>2 DEF MarkCompleted, WorkerOK, attemptNumber
  <2>5. CountsOK(j)'
    BY <1>1, <1>3, <2>2, JobType DEF MarkCompleted, CountsOK, WorkerOK, Acted
  <2>6. QED
    BY <1>1, <1>3, <2>1, <2>3, <2>4, <2>5, OtherJobs DEF MarkCompleted, TypeOK, Goto
<1>4. CASE MarkFailed(j)
  <2>1. TypeOK'
    <3>1. attemptNumber(j) \in Nat
      BY <1>1, JobType DEF attemptNumber
    <3>2. rows' \in [Jobs -> Row \cup {None}]
      BY <1>1, <1>4, <3>1 DEF MarkFailed, TypeOK, Row, JobStatus, Exists
    <3>3. pc' \in [Jobs -> Steps] /\ (pc'[j] # "idle" /\ bull[j] = "active")
      BY <1>1, <1>4 DEF MarkFailed, TypeOK, Steps, Goto, Thrown, WorkerOK
    <3>4. QED
      BY <1>1, <1>4, <3>2, <3>3 DEF MarkFailed, TypeOK, Goto
  <2>2. /\ pc[j] = "markFailed"
        /\ \/ UNCHANGED rows /\ pc'[j] \in {"throw"}
           \/ /\ Exists(j)'
              /\ pc'[j] = "return"
              /\ rows'[j].status = "FAILED"
              /\ rows'[j].attemptCount = attemptNumber(j)
    <3>1. CASE UNCHANGED rows /\ (Goto(j, "throw") \/ Goto(j, Thrown(j)))
      BY <1>1, <1>4, <3>1 DEF MarkFailed, TypeOK, Goto, Thrown, Guarded
    <3>2. CASE /\ Exists(j)
               /\ pc'[j] = "return"
               /\ rows' = [rows EXCEPT ![j] =
                       [rows[j] EXCEPT !.status = "FAILED", !.attemptCount = attemptNumber(j)]]
      <4>1. /\ rows[j] \in Row
            /\ rows'[j] =
                    [rows[j] EXCEPT !.status = "FAILED", !.attemptCount = attemptNumber(j)]
        BY <1>1, <3>2 DEF Exists, TypeOK
      <4>2. attemptNumber(j) \in Nat
        BY <1>1, JobType DEF attemptNumber
      <4>3. /\ rows'[j] \in Row
            /\ rows'[j].status = "FAILED"
            /\ rows'[j].attemptCount = attemptNumber(j)
        BY <4>1, <4>2 DEF Row, JobStatus
      <4>4. rows'[j] # None
        BY <4>3, NoneIsNoRow
      <4>5. QED
        BY <1>1, <1>4, <3>2, <4>3, <4>4 DEF MarkFailed, Exists
    <3>3. QED
      BY <1>1, <1>4, <3>1, <3>2 DEF MarkFailed, Goto, TypeOK
  <2>3. RowOK(j)'
    <3>1. bull'[j] = "active"
      BY <1>1, <1>4, <2>2 DEF MarkFailed, WorkerOK
    <3>2. /\ UNCHANGED <<achieved, deliveries, kind>>
          /\ Thrown(j) # "return"
      BY <1>4 DEF MarkFailed, Thrown
    <3>3. CASE UNCHANGED rows /\ pc'[j] # "return"
      BY <1>1, <3>1, <3>2, <3>3 DEF RowOK, Exists
    <3>4. CASE ~(UNCHANGED rows /\ pc'[j] # "return")
      BY <1>1, <2>2, <3>1, <3>2, <3>4
         DEF RowOK, WorkerOK, CountsOK, attemptNumber, isTerminalJobStatus, TypeOK
    <3>5. QED
      BY <3>3, <3>4
  <2>4. WorkerOK(j)'
    BY <1>1, <1>4, <2>2 DEF MarkFailed, WorkerOK, attemptNumber
  <2>5. CountsOK(j)'
    BY <1>1, <1>4, <2>2, JobType DEF MarkFailed, CountsOK, WorkerOK, Acted
  <2>6. QED
    BY <1>1, <1>4, <2>1, <2>3, <2>4, <2>5, OtherJobs DEF MarkFailed, TypeOK, Goto
<1>5. QED
  BY <1>2, <1>3, <1>4

(* What a processor does for its job. *)
LEMMA WorkSteps ==
    ASSUME IInv, NEW j \in Jobs,
           \/ Notify(j) \/ Remind(j) \/ GenerateReport(j) \/ BeginDelivery(j)
           \/ Post(j) \/ RecordSuccess(j) \/ RecordFailure(j) \/ Judge(j)
    PROVE  IInv'
<1>1. TypeOK /\ RowOK(j) /\ WorkerOK(j) /\ CountsOK(j)
  BY DEF IInv
<1>2. CASE Notify(j)
  <2>1. TypeOK'
    <3>1. effects' \in [Jobs -> Nat]
      BY <1>1, <1>2 DEF Notify, TypeOK, CreateNotification
    <3>2. pc' \in [Jobs -> Steps] /\ (pc'[j] # "idle" /\ bull[j] = "active")
      BY <1>1, <1>2 DEF Notify, TypeOK, Steps, Goto, WorkerOK, CreateNotification
    <3>3. QED
      BY <1>1, <1>2, <3>1, <3>2 DEF Notify, TypeOK, Goto, CreateNotification
  <2>2. /\ pc[j] = "work" /\ pc'[j] \in {"markCompleted", "catch"}
        /\ pc'[j] = "markCompleted" => achieved'[j]
        /\ kind[j] = "notifications"
        /\ achieved[j] => achieved'[j]
        /\ effects'[j] \in {effects[j], effects[j] + 1}
    BY <1>1, <1>2 DEF Notify, TypeOK, CreateNotification, Goto
  <2>3. RowOK(j)'
    BY <1>1, <1>2, <2>2
       DEF Notify, RowOK, Exists, isTerminalJobStatus, CreateNotification
  <2>4. WorkerOK(j)'
    BY <1>1, <1>2, <2>2 DEF Notify, WorkerOK, attemptNumber, CreateNotification
  <2>5. CountsOK(j)'
    BY <1>1, <1>2, <2>2, JobType
       DEF Notify, CountsOK, WorkerOK, Acted, CreateNotification
  <2>6. QED
    BY <1>1, <1>2, <2>1, <2>3, <2>4, <2>5, OtherJobs
       DEF Notify, TypeOK, Goto, CreateNotification
<1>3. CASE Remind(j)
  <2>1. TypeOK'
    <3>1. effects' \in [Jobs -> Nat]
      BY <1>1, <1>3 DEF Remind, TypeOK, CreateNotification
    <3>2. pc' \in [Jobs -> Steps] /\ (pc'[j] # "idle" /\ bull[j] = "active")
      BY <1>1, <1>3 DEF Remind, TypeOK, Steps, Goto, WorkerOK, CreateNotification
    <3>3. QED
      BY <1>1, <1>3, <3>1, <3>2 DEF Remind, TypeOK, Goto, CreateNotification
  <2>2. /\ pc[j] = "work" /\ pc'[j] \in {"markCompleted", "catch"}
        /\ pc'[j] = "markCompleted" => achieved'[j]
        /\ kind[j] = "maintenance-reminders"
        /\ achieved[j] => achieved'[j]
        /\ effects'[j] \in {effects[j], effects[j] + 1}
    BY <1>1, <1>3 DEF Remind, TypeOK, CreateNotification, Goto
  <2>3. RowOK(j)'
    BY <1>1, <1>3, <2>2
       DEF Remind, RowOK, Exists, isTerminalJobStatus, CreateNotification
  <2>4. WorkerOK(j)'
    BY <1>1, <1>3, <2>2 DEF Remind, WorkerOK, attemptNumber, CreateNotification
  <2>5. CountsOK(j)'
    BY <1>1, <1>3, <2>2, JobType
       DEF Remind, CountsOK, WorkerOK, Acted, CreateNotification
  <2>6. QED
    BY <1>1, <1>3, <2>1, <2>3, <2>4, <2>5, OtherJobs
       DEF Remind, TypeOK, Goto, CreateNotification
<1>4. CASE GenerateReport(j)
  <2>1. TypeOK'
    BY <1>1, <1>4 DEF GenerateReport, TypeOK, Steps, Goto, WorkerOK
  <2>2. /\ pc[j] = "work" /\ pc'[j] \in {"markCompleted", "catch"}
        /\ pc'[j] = "markCompleted" => achieved'[j]
        /\ kind[j] = "report-generation"
        /\ achieved[j] => achieved'[j]
    BY <1>1, <1>4 DEF GenerateReport, TypeOK, Goto
  <2>3. RowOK(j)'
    BY <1>1, <1>4, <2>2 DEF GenerateReport, RowOK, Exists, isTerminalJobStatus
  <2>4. WorkerOK(j)'
    BY <1>1, <1>4, <2>2 DEF GenerateReport, WorkerOK, attemptNumber
  <2>5. CountsOK(j)'
    BY <1>1, <1>4, <2>2, JobType DEF GenerateReport, CountsOK, WorkerOK, Acted
  <2>6. QED
    BY <1>1, <1>4, <2>1, <2>3, <2>4, <2>5, OtherJobs
       DEF GenerateReport, TypeOK, Goto
<1>5. CASE BeginDelivery(j)
  <2>1. TypeOK'
    BY <1>1, <1>5
       DEF BeginDelivery, TypeOK, Steps, Goto, WorkerOK, CountsOK, attemptNumber,
           DeliveryStatus, WithDelivery
  <2>2. /\ pc[j] = "work" /\ pc'[j] \in {"post", "catch", "throw"}
        /\ deliveries[j] \subseteq deliveries'[j]
    BY <1>1, <1>5 DEF BeginDelivery, TypeOK, Goto, WithDelivery
  <2>3. RowOK(j)'
    BY <1>1, <1>5, <2>2
       DEF BeginDelivery, RowOK, Exists, isTerminalJobStatus, WithDelivery
  <2>4. WorkerOK(j)'
    BY <1>1, <1>5, <2>2 DEF BeginDelivery, WorkerOK, attemptNumber, WithDelivery
  <2>5. CountsOK(j)'
    BY <1>1, <1>5, <2>2, JobType
       DEF BeginDelivery, CountsOK, WorkerOK, Acted, WithDelivery
  <2>6. QED
    BY <1>1, <1>5, <2>1, <2>3, <2>4, <2>5, OtherJobs
       DEF BeginDelivery, TypeOK, Goto, WithDelivery
<1>6. CASE Post(j)
  <2>1. TypeOK'
    <3>1. effects' \in [Jobs -> Nat]
      BY <1>1, <1>6 DEF Post, TypeOK
    <3>2. pc' \in [Jobs -> Steps] /\ (pc'[j] # "idle" /\ bull[j] = "active")
      BY <1>1, <1>6 DEF Post, TypeOK, Steps, Goto, WorkerOK
    <3>3. QED
      BY <1>1, <1>6, <3>1, <3>2 DEF Post, TypeOK, Goto
  <2>2. /\ pc[j] = "post" /\ pc'[j] \in {"recordSuccess", "recordFailure"}
        /\ pc'[j] = "recordSuccess" => achieved'[j]
        /\ achieved[j] => achieved'[j]
        /\ effects'[j] = effects[j] + 1
    BY <1>1, <1>6 DEF Post, TypeOK, Goto
  <2>3. RowOK(j)'
    BY <1>1, <1>6, <2>2 DEF Post, RowOK, Exists, isTerminalJobStatus
  <2>4. WorkerOK(j)'
    BY <1>1, <1>6, <2>2 DEF Post, WorkerOK, attemptNumber
  <2>5. CountsOK(j)'
    BY <1>1, <1>6, <2>2, JobType DEF Post, CountsOK, WorkerOK, Acted
  <2>6. QED
    BY <1>1, <1>6, <2>1, <2>3, <2>4, <2>5, OtherJobs DEF Post, TypeOK, Goto
<1>7. CASE RecordSuccess(j)
  <2>1. TypeOK'
    BY <1>1, <1>7
       DEF RecordSuccess, TypeOK, Steps, Goto, WorkerOK, CountsOK, attemptNumber,
           DeliveryStatus, RecordedAs
  <2>2. /\ pc[j] = "recordSuccess" /\ pc'[j] \in {"markCompleted", "recordFailure"}
        /\ pc'[j] = "markCompleted" =>
              <<attemptNumber(j), "SUCCESS">> \in deliveries'[j]
        /\ attemptNumber(j) \in 1..MaxAttempts
        /\ \A n \in 1..MaxAttempts : <<n, "SUCCESS">> \in deliveries[j] =>
              <<n, "SUCCESS">> \in deliveries'[j]
    BY <1>1, <1>7
       DEF RecordSuccess, TypeOK, Goto, RecordedAs, attemptNumber, CountsOK,
           WorkerOK
  <2>3. RowOK(j)'
    BY <1>1, <1>7, <2>2
       DEF RecordSuccess, RowOK, Exists, isTerminalJobStatus, RecordedAs
  <2>4. WorkerOK(j)'
    BY <1>1, <1>7, <2>2 DEF RecordSuccess, WorkerOK, attemptNumber, RecordedAs
  <2>5. CountsOK(j)'
    BY <1>1, <1>7, <2>2, JobType
       DEF RecordSuccess, CountsOK, WorkerOK, Acted, RecordedAs
  <2>6. QED
    BY <1>1, <1>7, <2>1, <2>3, <2>4, <2>5, OtherJobs
       DEF RecordSuccess, TypeOK, Goto, RecordedAs
<1>8. CASE RecordFailure(j)
  <2>1. TypeOK'
    BY <1>1, <1>8
       DEF RecordFailure, TypeOK, Steps, Goto, WorkerOK, CountsOK, attemptNumber,
           DeliveryStatus, RecordedAs
  <2>2. /\ pc[j] = "recordFailure" /\ pc'[j] \in {"catch", "throw"}
        /\ \A n \in 1..MaxAttempts : <<n, "SUCCESS">> \in deliveries[j] =>
              <<n, "SUCCESS">> \in deliveries'[j]
    BY <1>1, <1>8 DEF RecordFailure, TypeOK, Goto, RecordedAs
  <2>3. RowOK(j)'
    BY <1>1, <1>8, <2>2
       DEF RecordFailure, RowOK, Exists, isTerminalJobStatus, RecordedAs
  <2>4. WorkerOK(j)'
    BY <1>1, <1>8, <2>2 DEF RecordFailure, WorkerOK, attemptNumber, RecordedAs
  <2>5. CountsOK(j)'
    BY <1>1, <1>8, <2>2, JobType
       DEF RecordFailure, CountsOK, WorkerOK, Acted, RecordedAs
  <2>6. QED
    BY <1>1, <1>8, <2>1, <2>3, <2>4, <2>5, OtherJobs
       DEF RecordFailure, TypeOK, Goto, RecordedAs
<1>9. CASE Judge(j)
  <2>1. TypeOK'
    BY <1>1, <1>9 DEF Judge, TypeOK, Steps, Goto, WorkerOK
  <2>2. /\ pc[j] = "catch" /\ pc'[j] \in {"markFailed", "throw"}
        /\ pc'[j] = "markFailed" => attemptNumber(j) >= MaxAttempts
    BY <1>1, <1>9 DEF Judge, TypeOK, Goto
  <2>3. RowOK(j)'
    BY <1>1, <1>9, <2>2 DEF Judge, RowOK, Exists, isTerminalJobStatus
  <2>4. WorkerOK(j)'
    BY <1>1, <1>9, <2>2 DEF Judge, WorkerOK, attemptNumber
  <2>5. CountsOK(j)'
    BY <1>1, <1>9, <2>2, JobType DEF Judge, CountsOK, WorkerOK, Acted
  <2>6. QED
    BY <1>1, <1>9, <2>1, <2>3, <2>4, <2>5, OtherJobs DEF Judge, TypeOK, Goto
<1>10. QED
  BY <1>2, <1>3, <1>4, <1>5, <1>6, <1>7, <1>8, <1>9

(* Initially no job is in any store. *)
LEMMA Initially == Init => IInv
<1> SUFFICES ASSUME Init PROVE IInv
  OBVIOUS
<1>1. TypeOK
  BY KindsAssumption DEF Init, TypeOK, BullStates, Steps
<1>2. ASSUME NEW j \in Jobs PROVE RowOK(j) /\ WorkerOK(j) /\ CountsOK(j)
  BY DEF Init, RowOK, WorkerOK, CountsOK, Exists, Acted
<1>3. QED
  BY <1>1, <1>2 DEF IInv

(* A stutter. *)
LEMMA StutterStep == IInv /\ UNCHANGED vars => IInv'
<1> SUFFICES ASSUME IInv, UNCHANGED vars PROVE IInv'
  OBVIOUS
<1>1. TypeOK'
  BY DEF IInv, TypeOK, vars
<1>2. ASSUME NEW j \in Jobs PROVE (RowOK(j) /\ WorkerOK(j) /\ CountsOK(j))'
  BY DEF IInv, vars, RowOK, WorkerOK, CountsOK, Exists, attemptNumber
<1>3. QED
  BY <1>1, <1>2 DEF IInv

(* Every action keeps the invariant. *)
LEMMA EveryStep == IInv /\ [Next]_vars => IInv'
<1> SUFFICES ASSUME IInv, [Next]_vars PROVE IInv'
  OBVIOUS
<1>1. CASE UNCHANGED vars
  BY <1>1, StutterStep
<1>2. CASE Next
  <2>1. PICK j \in Jobs :
           \/ EnqueueNotification(j) \/ EnqueueReminder(j)
           \/ EnqueueReport(j) \/ EnqueueDelivery(j)
           \/ CallerDies(j) \/ SwitchEndpoint(j)
           \/ Take(j) \/ Process(j) \/ Crash(j) \/ Cleanup(j)
    BY <1>2 DEF Next
  <2>2. CASE \/ EnqueueNotification(j) \/ EnqueueReminder(j)
             \/ EnqueueReport(j) \/ EnqueueDelivery(j)
             \/ CallerDies(j) \/ SwitchEndpoint(j) \/ Cleanup(j)
    BY <2>2, CallerSteps
       DEF EnqueueNotification, EnqueueReminder, EnqueueReport, EnqueueDelivery, Enqueue
  <2>3. CASE Take(j) \/ Crash(j)
    BY <2>3, BullSteps
  <2>4. CASE Process(j)
    BY <2>4, BullSteps, RowSteps, WorkSteps DEF Process
  <2>5. QED
    BY <2>1, <2>2, <2>3, <2>4
<1>3. QED
  BY <1>1, <1>2

-----------------------------------------------------------------------------
(***************************************************************************)
(* The theorems.                                                           *)
(***************************************************************************)

(* The invariants of rows, workers and counters are inductive together. *)
THEOREM Inductive == Spec => []IInv
BY Initially, EveryStep, PTL DEF Spec

(* Type correctness, and a worker is busy exactly with the active job.      *)
THEOREM TypeCorrect == Spec => []TypeOK
<1>1. IInv => TypeOK
  BY DEF IInv
<1>2. QED
  BY <1>1, Inductive, PTL

(* markCompleted is reached only by the attempt that did the job, whatever  *)
(* was retried or stalled before.                                           *)
THEOREM CompletedMeansDone == Spec => []CompletedIsDone
<1>1. IInv => CompletedIsDone
  BY DEF IInv, RowOK, CompletedIsDone
<1>2. QED
  BY <1>1, Inductive, PTL

(* The processors return to BullMQ only after the row tells the outcome, and *)
(* give up only on the last attempt.                                         *)
THEOREM ReturnSettles == Spec => []ProcessedIsSettled
<1>1. IInv => ProcessedIsSettled
  BY DEF IInv, RowOK, ProcessedIsSettled
<1>2. QED
  BY <1>1, Inductive, PTL

(* Retries and crashes repeat the effect of a job, at most once per attempt  *)
(* and per stall.                                                            *)
EffectsBounded ==
    \A j \in Jobs : effects[j] <= MaxAttempts + stalls[j]

(* Every attempt, and every stall, repeats the effect of a job at most once. *)
THEOREM EffectsAreBounded == Spec => []EffectsBounded
<1>1. ASSUME IInv PROVE EffectsBounded
  <2>1. ASSUME NEW j \in Jobs PROVE effects[j] <= MaxAttempts + stalls[j]
    <3>1. CountsOK(j) /\ WorkerOK(j) /\ TypeOK
      BY <1>1 DEF IInv
    <3>2. /\ made[j] \in 0..MaxAttempts /\ stalls[j] \in Nat /\ effects[j] \in Nat
          /\ pc[j] \in Acted \/ bull[j] = "completed" => made[j] < MaxAttempts
      BY <3>1, JobType DEF CountsOK, WorkerOK, Acted
    <3>3. QED
      BY <3>1, <3>2 DEF CountsOK
  <2>2. QED
    BY <2>1 DEF EffectsBounded
<1>2. QED
  BY <1>1, Inductive, PTL

-----------------------------------------------------------------------------
(***************************************************************************)
(* The ledger.  A row is there exactly between its creation and its        *)
(* deletion, and nothing is told of a job that is not in the queue yet.    *)
(***************************************************************************)
EnteredOK(j) ==
    /\ caller[j] = "create" => rows[j] = None
    /\ caller[j] = "add" => Exists(j) /\ rows[j].status = "PENDING"

Entered == \A j \in Jobs : EnteredOK(j)

(* What the ledger says of a job, and where the job is. *)
Says(j) == IF Exists(j) THEN Verdict[rows[j].status]
           ELSE IF caller[j] = "create" THEN "nothing" ELSE "gone"

Told == [j \in Jobs |-> Says(j)]
Place == [j \in Jobs |-> Standing[bull[j]]]

(* The row of the one job a step writes. *)
LEMMA OneTold ==
    ASSUME NEW j \in Jobs,
           \A k \in Jobs \ {j} : rows'[k] = rows[k] /\ caller'[k] = caller[k]
    PROVE  Told' = [Told EXCEPT ![j] = Says(j)']
<1>1. \A k \in Jobs \ {j} : Says(k)' = Says(k)
  BY DEF Says, Exists
<1>2. QED
  BY <1>1 DEF Told

(* The standing of the one job a step moves. *)
LEMMA OnePlaced ==
    ASSUME TypeOK, NEW j \in Jobs, NEW b \in BullStates, bull' = [bull EXCEPT ![j] = b]
    PROVE  Place' = [Place EXCEPT ![j] = Standing[b]]
BY DEF Place, TypeOK

(* A row says one of four things. *)
LEMMA SaysWhat ==
    ASSUME TypeOK, NEW j \in Jobs
    PROVE  /\ Told[j] = Says(j)
           /\ bull[j] = "absent" => Place[j] = "absent"
           /\ bull[j] \in {"waiting", "active"} => Place[j] = "queued"
           /\ Exists(j) => rows[j] \in Row /\ rows[j].status \in JobStatus
           /\ Exists(j) => /\ rows[j].status = "PENDING" => Says(j) = "open"
                           /\ rows[j].status = "PROCESSING" => Says(j) = "open"
                           /\ rows[j].status = "COMPLETED" => Says(j) = "done"
                           /\ rows[j].status = "FAILED" => Says(j) = "failed"
                           /\ Says(j) \notin {"nothing", "gone"}
<1>1. /\ Told[j] = Says(j)
      /\ bull[j] = "absent" => Place[j] = "absent"
      /\ bull[j] \in {"waiting", "active"} => Place[j] = "queued"
  <2>1. Told[j] = Says(j)
    BY DEF Told
  <2>2. Place[j] = Standing[bull[j]]
    BY DEF Place
  <2>3. /\ Standing["absent"] = "absent"
        /\ Standing["waiting"] = "queued" /\ Standing["active"] = "queued"
    BY DEF Standing
  <2>4. QED
    BY <2>1, <2>2, <2>3
<1>2. Exists(j) => rows[j] \in Row /\ rows[j].status \in JobStatus
  BY DEF TypeOK, Exists, Row
<1>3. Exists(j) => /\ rows[j].status = "PENDING" => Says(j) = "open"
                   /\ rows[j].status = "PROCESSING" => Says(j) = "open"
                   /\ rows[j].status = "COMPLETED" => Says(j) = "done"
                   /\ rows[j].status = "FAILED" => Says(j) = "failed"
  BY DEF Says, Verdict
<1>4. Exists(j) => Says(j) \notin {"nothing", "gone"}
  BY <1>2, <1>3 DEF JobStatus
<1>5. QED
  BY <1>1, <1>2, <1>3, <1>4

(* The jobs a step does not write. *)
OthersKept(j) ==
    \A k \in Jobs \ {j} : rows'[k] = rows[k] /\ caller'[k] = caller[k]

(* A step that tells nothing new of its job. *)
LEMMA NothingTold ==
    ASSUME NEW j \in Jobs, OthersKept(j), Says(j)' = Says(j)
    PROVE  Told' = Told
<1>1. \A k \in Jobs : Says(k)' = Says(k)
  BY DEF OthersKept, Says, Exists
<1>2. QED
  BY <1>1 DEF Told

(* A step of one job keeps what is known of the entries of the others. *)
LEMMA OthersEntered ==
    ASSUME Entered, NEW j \in Jobs, OthersKept(j), EnteredOK(j)'
    PROVE  Entered'
BY DEF Entered, EnteredOK, OthersKept, Exists

(* The ledger does not notice a step that neither tells nor moves anything. *)
LEMMA Unnoticed ==
    ASSUME Told' = Told, Place' = Place, UNCHANGED <<achieved, effects, made, stalls>>
    PROVE  UNCHANGED Ledger!jobVars
BY DEF Told, Says, Place, Ledger!jobVars

(* A step of the two stores as the ledger sees it. *)
Follows == Entered' /\ [Ledger!Next]_(Ledger!jobVars)

(* The calls of a worker that write neither row nor queue. *)
LEMMA QuietFollows ==
    ASSUME IInv, Entered, NEW j \in Jobs,
           UNCHANGED <<rows, caller, bull, achieved, effects, made, stalls>>
    PROVE  Follows
<1>1. Told' = Told /\ Place' = Place
  BY DEF Told, Says, Exists, Place
<1>2. Entered'
  BY DEF Entered, EnteredOK, Exists
<1>3. QED
  BY <1>1, <1>2, Unnoticed DEF Follows

(* Entering a job, queueing it, and what its caller does later. *)
LEMMA EnqueueFollows ==
    ASSUME IInv, Entered, NEW j \in Jobs, Enqueue(j) \/ CallerDies(j)
    PROVE  Follows
<1>1. TypeOK /\ WorkerOK(j) /\ EnteredOK(j)
  BY DEF IInv, Entered
<1>2. OthersKept(j)
  <2>1. \A k \in Jobs \ {j} : caller'[k] = caller[k]
    BY <1>1 DEF Enqueue, CreateRow, AddToQueue, Attach, CallerDies, TypeOK
  <2>2. \A k \in Jobs \ {j} : rows'[k] = rows[k]
    <3>1. CASE CreateRow(j) \/ Attach(j)
      BY <1>1, <3>1 DEF CreateRow, Attach, TypeOK
    <3>2. CASE AddToQueue(j) \/ CallerDies(j)
      BY <3>2 DEF AddToQueue, CallerDies
    <3>3. QED
      BY <3>1, <3>2 DEF Enqueue
  <2>3. QED
    BY <2>1, <2>2 DEF OthersKept
<1>3. CASE CreateRow(j)
  <2>1. /\ rows' = [rows EXCEPT ![j] = [status |-> "PENDING", attemptCount |-> 0,
                                        bullJobId |-> FALSE]]
        /\ caller' = [caller EXCEPT ![j] = "add"] /\ caller[j] = "create"
        /\ UNCHANGED <<kind, queue, pc, endpoint, outcome>>
    BY <1>3 DEF CreateRow
  <2>2. rows'[j] \in Row /\ rows'[j].status = "PENDING" /\ caller'[j] = "add"
    BY <1>1, <2>1 DEF TypeOK, Row, JobStatus
  <2>3. rows'[j] # None
    BY <2>2, NoneIsNoRow
  <2>4. Says(j)' = "open" /\ EnteredOK(j)'
    BY <2>2, <2>3 DEF Says, Exists, Verdict, EnteredOK
  <2>5. Told[j] = "nothing" /\ Place[j] = "absent"
    <3>1. rows[j] = None /\ bull[j] = "absent"
      BY <1>1, <2>1 DEF EnteredOK, WorkerOK
    <3>2. Says(j) = "nothing"
      BY <2>1, <3>1 DEF Says, Exists
    <3>3. QED
      BY <1>1, <3>1, <3>2, SaysWhat
  <2>6. Told' = [Told EXCEPT ![j] = "open"] /\ Place' = Place
    BY <1>2, <2>1, <2>4, OneTold DEF OthersKept, Place
  <2>7. Ledger!Enter(j)
    BY <2>1, <2>5, <2>6 DEF Ledger!Enter, Told, Says, Place
  <2>8. QED
    BY <1>2, <2>4, <2>7, OthersEntered DEF Follows, Ledger!Next
<1>4. CASE AddToQueue(j)
  <2>1. /\ bull' = [bull EXCEPT ![j] = "waiting"] /\ caller[j] = "add"
        /\ caller' = [caller EXCEPT ![j] = "attach"] /\ rows' = rows
        /\ UNCHANGED <<achieved, effects, made, stalls>>
    BY <1>4 DEF AddToQueue
  <2>2. caller'[j] = "attach" /\ Exists(j) /\ Says(j) = "open" /\ bull[j] = "absent"
    BY <1>1, <2>1, SaysWhat DEF TypeOK, EnteredOK, WorkerOK
  <2>3. Says(j)' = Says(j) /\ EnteredOK(j)'
    BY <2>1, <2>2 DEF Says, Exists, EnteredOK
  <2>4. Told' = Told /\ Told[j] = "open" /\ Place[j] = "absent"
    <3>1. Told' = Told
      BY <1>2, <2>3, NothingTold
    <3>2. QED
      BY <1>1, <2>2, <3>1, SaysWhat
  <2>5. Place' = [Place EXCEPT ![j] = "queued"]
    BY <1>1, <2>1, OnePlaced DEF BullStates, Standing
  <2>6. Ledger!Queue(j)
    BY <2>1, <2>4, <2>5 DEF Ledger!Queue, Told, Says, Place
  <2>7. QED
    BY <1>2, <2>3, <2>6, OthersEntered DEF Follows, Ledger!Next
<1>5. CASE Attach(j)
  <2>1. /\ caller[j] = "attach" /\ caller' = [caller EXCEPT ![j] = "done"]
        /\ rows' = IF Exists(j) THEN [rows EXCEPT ![j].bullJobId = TRUE] ELSE rows
        /\ UNCHANGED <<bull, achieved, effects, made, stalls>>
    BY <1>5 DEF Attach
  <2>2. caller'[j] = "done" /\ EnteredOK(j)'
    BY <1>1, <2>1 DEF TypeOK, EnteredOK
  <2>3. Says(j)' = Says(j)
    <3>1. CASE Exists(j)
      <4>1. rows[j] \in Row /\ rows'[j] = [rows[j] EXCEPT !.bullJobId = TRUE]
        BY <1>1, <2>1, <3>1 DEF TypeOK, Exists
      <4>2. rows'[j] \in Row /\ rows'[j].status = rows[j].status
        BY <4>1 DEF Row
      <4>3. rows'[j] # None
        BY <4>2, NoneIsNoRow
      <4>4. QED
        BY <3>1, <4>2, <4>3 DEF Says, Exists
    <3>2. CASE ~Exists(j)
      BY <2>1, <2>2, <3>2 DEF Says, Exists
    <3>3. QED
      BY <3>1, <3>2
  <2>4. Told' = Told /\ Place' = Place
    BY <1>2, <2>1, <2>3, NothingTold DEF Place
  <2>5. QED
    BY <1>2, <2>1, <2>2, <2>4, OthersEntered, Unnoticed DEF Follows
<1>6. CASE CallerDies(j)
  <2>1. /\ caller[j] \in {"add", "attach"} /\ caller' = [caller EXCEPT ![j] = "done"]
        /\ UNCHANGED <<rows, bull, achieved, effects, made, stalls>>
    BY <1>6 DEF CallerDies
  <2>2. caller'[j] = "done" /\ EnteredOK(j)'
    BY <1>1, <2>1 DEF TypeOK, EnteredOK
  <2>3. Says(j)' = Says(j)
    BY <2>1, <2>2 DEF Says, Exists
  <2>4. Told' = Told /\ Place' = Place
    BY <1>2, <2>1, <2>3, NothingTold DEF Place
  <2>5. QED
    BY <1>2, <2>1, <2>2, <2>4, OthersEntered, Unnoticed DEF Follows
<1>7. QED
  BY <1>3, <1>4, <1>5, <1>6 DEF Enqueue

(* A worker that writes the row of its job tells a verdict. *)
LEMMA VerdictFollows ==
    ASSUME IInv, Entered, NEW j \in Jobs, NEW row \in Row,
           bull[j] = "active", Exists(j), rows' = [rows EXCEPT ![j] = row],
           row.status = "COMPLETED" => achieved[j],
           row.status = "FAILED" => made[j] + 1 = MaxAttempts,
           UNCHANGED <<caller, bull, achieved, effects, made, stalls>>
    PROVE  Follows
<1>1. TypeOK /\ WorkerOK(j) /\ EnteredOK(j)
  BY DEF IInv, Entered
<1>2. rows'[j] = row /\ OthersKept(j) /\ row # None
  BY <1>1, NoneIsNoRow DEF TypeOK, OthersKept
<1>3. EnteredOK(j)'
  BY <1>1 DEF EnteredOK, WorkerOK
<1>4. Says(j)' = Verdict[row.status]
  BY <1>2 DEF Says, Exists
<1>5. /\ Verdict[row.status] \in {"open", "done", "failed"}
      /\ Verdict[row.status] = "done" => achieved[j]
      /\ Verdict[row.status] = "failed" => made[j] + 1 = MaxAttempts
  BY DEF Row, JobStatus, Verdict
<1>6. Told' = [Told EXCEPT ![j] = Verdict[row.status]] /\ Place' = Place
  BY <1>2, <1>4, OneTold DEF OthersKept, Place
<1>7. Place[j] = "queued" /\ Told[j] \notin {"nothing", "gone"}
  BY <1>1, SaysWhat
<1> DEFINE verdict == Verdict[row.status]
<1>8. /\ verdict \in {"open", "done", "failed"}
      /\ verdict = "done" => achieved[j]
      /\ verdict = "failed" => made[j] + 1 = MaxAttempts
      /\ Told' = [Told EXCEPT ![j] = verdict]
  BY <1>5, <1>6
<1> HIDE DEF verdict
<1>9. Ledger!Tell(j, verdict)
  BY <1>6, <1>7, <1>8 DEF Ledger!Tell, Told, Says, Place
<1>10. QED
  BY <1>2, <1>3, <1>8, <1>9, OthersEntered DEF Follows, Ledger!Next

(* markProcessing, markCompleted and markFailed. *)
LEMMA MarkFollows ==
    ASSUME IInv, Entered, NEW j \in Jobs,
           MarkProcessing(j) \/ MarkCompleted(j) \/ MarkFailed(j)
    PROVE  Follows
<1>1. TypeOK /\ WorkerOK(j) /\ CountsOK(j)
  BY DEF IInv
<1>2. /\ bull[j] = "active"
      /\ UNCHANGED <<caller, bull, achieved, effects, made, stalls>>
  BY <1>1 DEF MarkProcessing, MarkCompleted, MarkFailed, WorkerOK
<1>3. made[j] \in Nat /\ made[j] < MaxAttempts /\ attemptNumber(j) \in Nat
  BY <1>1, <1>2, JobType DEF CountsOK, attemptNumber
<1>4. CASE rows' = rows
  BY <1>2, <1>4, QuietFollows
<1>5. ASSUME MarkProcessing(j), rows' # rows PROVE Follows
  <2> DEFINE row == [rows[j] EXCEPT !.status = "PROCESSING",
                                    !.attemptCount = attemptNumber(j)]
  <2>1. Exists(j) /\ rows' = [rows EXCEPT ![j] = row]
    BY <1>5 DEF MarkProcessing
  <2>2. rows[j] \in Row
    BY <1>1, <2>1 DEF TypeOK, Exists
  <2>3. row \in Row /\ row.status = "PROCESSING"
    BY <1>3, <2>2 DEF Row, JobStatus
  <2> HIDE DEF row
  <2>4. QED
    BY <1>2, <2>1, <2>3, VerdictFollows
<1>6. ASSUME MarkCompleted(j), rows' # rows PROVE Follows
  <2> DEFINE row == [rows[j] EXCEPT !.status = "COMPLETED"]
  <2>1. Exists(j) /\ rows' = [rows EXCEPT ![j] = row] /\ achieved[j]
    BY <1>1, <1>6 DEF MarkCompleted, WorkerOK
  <2>2. rows[j] \in Row
    BY <1>1, <2>1 DEF TypeOK, Exists
  <2>3. row \in Row /\ row.status = "COMPLETED"
    BY <2>2 DEF Row, JobStatus
  <2> HIDE DEF row
  <2>4. QED
    BY <1>2, <2>1, <2>3, VerdictFollows
<1>7. ASSUME MarkFailed(j), rows' # rows PROVE Follows
  <2> DEFINE row == [rows[j] EXCEPT !.status = "FAILED",
                                    !.attemptCount = attemptNumber(j)]
  <2>1. Exists(j) /\ rows' = [rows EXCEPT ![j] = row]
    BY <1>7 DEF MarkFailed
  <2>2. rows[j] \in Row
    BY <1>1, <2>1 DEF TypeOK, Exists
  <2>3. row \in Row /\ row.status = "FAILED"
    BY <1>3, <2>2 DEF Row, JobStatus
  <2>4. made[j] + 1 = MaxAttempts
    BY <1>1, <1>3, <1>7 DEF MarkFailed, WorkerOK, attemptNumber
  <2> HIDE DEF row
  <2>5. QED
    BY <1>2, <2>1, <2>3, <2>4, VerdictFollows
<1>8. QED
  BY <1>4, <1>5, <1>6, <1>7

(* The calls that carry a job out. *)
LEMMA CarryOutFollows ==
    ASSUME IInv, Entered, NEW j \in Jobs,
           Notify(j) \/ Remind(j) \/ GenerateReport(j) \/ Post(j)
    PROVE  Follows
<1>1. TypeOK /\ WorkerOK(j) /\ CountsOK(j)
  BY DEF IInv
<1>2. /\ UNCHANGED <<rows, caller, bull, made, stalls>>
      /\ achieved' \in {achieved, [achieved EXCEPT ![j] = TRUE]}
      /\ effects' \in {effects, [effects EXCEPT ![j] = @ + 1]}
      /\ pc[j] \in {"work", "post"}
  BY DEF Notify, Remind, CreateNotification, GenerateReport, Post
<1>3. bull[j] = "active" /\ effects[j] <= made[j] + stalls[j]
  BY <1>1, <1>2, JobType DEF WorkerOK, CountsOK, Acted
<1>4. Told' = Told /\ Place' = Place /\ Place[j] = "queued"
  BY <1>1, <1>2, <1>3, SaysWhat DEF Told, Says, Exists, Place
<1>5. Ledger!CarryOut(j)
  BY <1>2, <1>3, <1>4 DEF Ledger!CarryOut, Told, Says, Place
<1>6. Entered'
  BY <1>2 DEF Entered, EnteredOK, Exists
<1>7. QED
  BY <1>5, <1>6 DEF Follows, Ledger!Next

(* What BullMQ does once process() returns, throws or dies, and the cleanup. *)
LEMMA EndFollows ==
    ASSUME IInv, Entered, NEW j \in Jobs,
           Acknowledge(j) \/ Retry(j) \/ Crash(j) \/ Cleanup(j)
    PROVE  Follows
<1>1. TypeOK /\ WorkerOK(j) /\ RowOK(j) /\ EnteredOK(j)
  BY DEF IInv, Entered
<1>2. CASE Acknowledge(j)
  <2>1. /\ pc[j] = "return" /\ bull' = [bull EXCEPT ![j] = "completed"]
        /\ UNCHANGED <<rows, caller, achieved, effects, made, stalls>>
    BY <1>2 DEF Acknowledge
  <2>2. bull[j] = "active" /\ caller[j] # "create"
    BY <1>1, <2>1 DEF WorkerOK
  <2>3. Place' = [Place EXCEPT ![j] = "settled"]
    BY <1>1, <2>1, OnePlaced DEF BullStates, Standing
  <2>4. Says(j) \in {"done", "failed", "gone"}
    <3>1. CASE Exists(j)
      BY <1>1, <2>1, <3>1, SaysWhat DEF RowOK, isTerminalJobStatus
    <3>2. CASE ~Exists(j)
      BY <2>2, <3>2 DEF Says
    <3>3. QED
      BY <3>1, <3>2
  <2>5. Told' = Told /\ Told[j] = Says(j) /\ Place[j] = "queued"
    BY <1>1, <2>1, <2>2, SaysWhat DEF Told, Says, Exists
  <2>6. Ledger!Settle(j)
    BY <2>1, <2>3, <2>4, <2>5 DEF Ledger!Settle, Told, Says, Place
  <2>7. Entered'
    BY <2>1 DEF Entered, EnteredOK, Exists
  <2>8. QED
    BY <2>6, <2>7 DEF Follows, Ledger!Next
<1>3. CASE Retry(j)
  <2> DEFINE next == IF made[j] + 1 < MaxAttempts THEN "waiting" ELSE "failed"
  <2>1. /\ pc[j] = "throw" /\ bull' = [bull EXCEPT ![j] = next]
        /\ made' = [made EXCEPT ![j] = @ + 1]
        /\ UNCHANGED <<rows, caller, achieved, effects, stalls>>
    BY <1>3 DEF Retry
  <2>2. bull[j] = "active" /\ next \in BullStates
    BY <1>1, <2>1 DEF WorkerOK, BullStates
  <2>3. Place' = [Place EXCEPT ![j] = Standing[next]] /\ Place[j] = "queued"
    BY <1>1, <2>1, <2>2, OnePlaced, SaysWhat
  <2>4. Standing[next] = IF made[j] + 1 < MaxAttempts THEN Place[j] ELSE "given up"
    BY <2>3 DEF Standing
  <2>5. Told' = Told
    BY <2>1 DEF Told, Says, Exists
  <2>6. Ledger!Miss(j)
    BY <2>1, <2>3, <2>4, <2>5 DEF Ledger!Miss, Told, Says, Place
  <2>7. Entered'
    BY <2>1 DEF Entered, EnteredOK, Exists
  <2>8. QED
    BY <2>6, <2>7 DEF Follows, Ledger!Next
<1>4. CASE Crash(j)
  <2> DEFINE next == IF stalls[j] < MaxStalls THEN "waiting" ELSE "failed"
  <2>1. /\ bull[j] = "active" /\ bull' = [bull EXCEPT ![j] = next]
        /\ stalls' = [stalls EXCEPT ![j] = @ + 1]
        /\ UNCHANGED <<rows, caller, achieved, effects, made>>
    BY <1>4 DEF Crash
  <2>2. next \in BullStates
    BY DEF BullStates
  <2>3. Place' = [Place EXCEPT ![j] = Standing[next]] /\ Place[j] = "queued"
    BY <1>1, <2>1, <2>2, OnePlaced, SaysWhat
  <2>4. Standing[next] = IF stalls[j] < MaxStalls THEN Place[j] ELSE "given up"
    BY <2>3 DEF Standing
  <2>5. Told' = Told
    BY <2>1 DEF Told, Says, Exists
  <2>6. Ledger!Lapse(j)
    BY <2>1, <2>3, <2>4, <2>5 DEF Ledger!Lapse, Told, Says, Place
  <2>7. Entered'
    BY <2>1 DEF Entered, EnteredOK, Exists
  <2>8. QED
    BY <2>6, <2>7 DEF Follows, Ledger!Next
<1>5. CASE Cleanup(j)
  <2>1. /\ Exists(j) /\ rows[j].status = "COMPLETED"
        /\ rows' = [rows EXCEPT ![j] = None]
        /\ UNCHANGED <<caller, bull, achieved, effects, made, stalls>>
    BY <1>5 DEF Cleanup
  <2>2. Says(j) = "done" /\ caller[j] \notin {"create", "add"}
    BY <1>1, <2>1, SaysWhat DEF EnteredOK, Exists
  <2>3. rows'[j] = None /\ OthersKept(j)
    BY <1>1, <2>1 DEF TypeOK, OthersKept
  <2>4. Says(j)' = "gone" /\ EnteredOK(j)'
    BY <2>1, <2>2, <2>3 DEF Says, Exists, EnteredOK
  <2>5. Told' = [Told EXCEPT ![j] = "gone"] /\ Told[j] = "done" /\ Place' = Place
    BY <1>1, <2>1, <2>2, <2>3, <2>4, OneTold, SaysWhat DEF OthersKept, Place
  <2>6. Ledger!Forget(j)
    BY <2>1, <2>5 DEF Ledger!Forget, Told, Says, Place
  <2>7. QED
    BY <2>3, <2>4, <2>6, OthersEntered DEF Follows, Ledger!Next
<1>6. QED
  BY <1>2, <1>3, <1>4, <1>5

(* Every step of the two stores is a step of the ledger. *)
LEMMA EveryStepFollows == IInv /\ Entered /\ [Next]_vars => Follows
<1> SUFFICES ASSUME IInv, Entered, [Next]_vars PROVE Follows
  OBVIOUS
<1>1. CASE UNCHANGED vars
  <2>1. Told' = Told /\ Place' = Place /\ UNCHANGED <<achieved, effects, made, stalls>>
    BY <1>1 DEF vars, Told, Says, Exists, Place
  <2>2. Entered'
    BY <1>1 DEF vars, Entered, EnteredOK, Exists
  <2>3. QED
    BY <2>1, <2>2, Unnoticed DEF Follows
<1>2. CASE Next
  <2>1. PICK j \in Jobs :
           \/ EnqueueNotification(j) \/ EnqueueReminder(j)
           \/ EnqueueReport(j) \/ EnqueueDelivery(j)
           \/ CallerDies(j) \/ SwitchEndpoint(j)
           \/ Take(j) \/ Process(j) \/ Crash(j) \/ Cleanup(j)
    BY <1>2 DEF Next
  <2>2. CASE \/ EnqueueNotification(j) \/ EnqueueReminder(j)
             \/ EnqueueReport(j) \/ EnqueueDelivery(j) \/ CallerDies(j)
    BY <2>2, EnqueueFollows
       DEF EnqueueNotification, EnqueueReminder, EnqueueReport, EnqueueDelivery
  <2>3. CASE Crash(j) \/ Cleanup(j)
    BY <2>3, EndFollows
  <2>4. CASE Take(j)
    <3>1. /\ bull[j] = "waiting" /\ bull' = [bull EXCEPT ![j] = "active"]
          /\ UNCHANGED <<rows, caller, achieved, effects, made, stalls>>
      BY <2>4 DEF Take
    <3>2. Place' = [Place EXCEPT ![j] = "queued"] /\ Place[j] = "queued"
      BY <3>1, OnePlaced, SaysWhat DEF IInv, BullStates, Standing
    <3>3. Place' = Place /\ Told' = Told
      BY <3>1, <3>2 DEF Place, Told, Says, Exists
    <3>4. Entered'
      BY <3>1 DEF Entered, EnteredOK, Exists
    <3>5. QED
      BY <3>1, <3>3, <3>4, Unnoticed DEF Follows
  <2>5. CASE \/ SwitchEndpoint(j) \/ BeginDelivery(j) \/ RecordSuccess(j)
             \/ RecordFailure(j) \/ Judge(j)
    <3>1. UNCHANGED <<rows, caller, bull, achieved, effects, made, stalls>>
      BY <2>5 DEF SwitchEndpoint, BeginDelivery, RecordSuccess, RecordFailure, Judge
    <3>2. QED
      BY <3>1, QuietFollows
  <2>6. CASE Process(j)
    BY <2>5, <2>6, CarryOutFollows, MarkFollows, EndFollows DEF Process
  <2>7. QED
    BY <2>1, <2>2, <2>3, <2>4, <2>5, <2>6
<1>3. QED
  BY <1>1, <1>2

(* At least once, and truthfully: rows, queue, callers and workers together  *)
(* implement one ledger, for any number of jobs, attempts and stalls.        *)
THEOREM LedgerRefinement == Spec => ImplementsLedger
<1>1. Init => Ledger!Init /\ Entered
  <2> SUFFICES ASSUME Init PROVE Ledger!Init /\ Entered
    OBVIOUS
  <2>1. \A j \in Jobs : /\ rows[j] = None /\ caller[j] = "create"
                        /\ bull[j] = "absent"
    BY DEF Init
  <2>2. /\ [j \in Jobs |-> Standing[bull[j]]] = [j \in Jobs |-> "absent"]
        /\ Told = [j \in Jobs |-> "nothing"]
    <3>1. Standing["absent"] = "absent"
      BY DEF Standing
    <3>2. \A j \in Jobs : Says(j) = "nothing"
      BY <2>1 DEF Says, Exists
    <3>3. QED
      BY <2>1, <3>1, <3>2 DEF Told
  <2>3. Ledger!Init
    BY <2>2 DEF Init, Ledger!Init, Told, Says
  <2>4. Entered
    BY <2>1 DEF Entered, EnteredOK
  <2>5. QED
    BY <2>3, <2>4
<1>2. IInv /\ Entered /\ [Next]_vars => Entered' /\ [Ledger!Next]_(Ledger!jobVars)
  BY EveryStepFollows DEF Follows
<1>3. QED
  BY <1>1, <1>2, Inductive, PTL DEF Spec, ImplementsLedger, Ledger!Spec
=============================================================================
