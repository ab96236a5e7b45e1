------------------------------ MODULE JobQueue ------------------------------
(***************************************************************************)
(* Background jobs: the queue services that enqueue, the jobs table, the   *)
(* four processors and the webhook delivery service.  A job lives in two   *)
(* stores that no transaction spans: its row in PostgreSQL and its BullMQ  *)
(* job in Redis.                                                           *)
(*                                                                         *)
(* Every database call of a processor is one step and may throw.  BullMQ   *)
(* is external and modelled as the processors use it: one worker per queue *)
(* takes a job at a time, returning completes it, throwing counts an       *)
(* attempt and retries it, and a job whose worker dies is found stalled    *)
(* and taken again without counting an attempt.                            *)
(***************************************************************************)
EXTENDS Naturals, FiniteSets

CONSTANTS
    Jobs,           \* bound: the jobs a behaviour may enqueue
    KindChoices,    \* bound: which queues they go to, None for a job left out
    MaxAttempts,    \* JOB_MAX_ATTEMPTS, the attempts of DEFAULT_QUEUE_JOB_OPTIONS
    MaxStalls,      \* the stalls BullMQ forgives a job (maxStalledCount)
    None

ASSUME JobQueueAssumption == MaxAttempts \in Nat \ {0} /\ MaxStalls \in Nat

VARIABLES
    kind,        \* the queue a job belongs to
    rows,        \* the jobs table, None where no row exists
    bull,        \* the state of the BullMQ job
    made,        \* job.attemptsMade
    stalls,      \* how often the job was found stalled
    pc,          \* what the worker of an active job does next
    caller,      \* what the enqueuing request does next
    endpoint,    \* webhook_endpoints.is_active of the endpoint a job delivers to
    deliveries,  \* webhook_deliveries of the job: <<attempt number, status>>
    effects,     \* history: POSTs sent, notifications created
    achieved     \* history: an attempt reached its goal

vars == <<kind, rows, bull, made, stalls, pc, caller, endpoint, deliveries,
          effects, achieved>>
outcome == <<deliveries, effects, achieved>>
queue == <<bull, made, stalls>>

-----------------------------------------------------------------------------
Kinds == {"webhook-delivery", "notifications", "maintenance-reminders",
          "report-generation"}

ASSUME KindsAssumption == KindChoices \subseteq [Jobs -> Kinds \cup {None}]

JobStatus == {"PENDING", "PROCESSING", "COMPLETED", "FAILED"}

isTerminalJobStatus(status) == status \in {"COMPLETED", "FAILED"}

DeliveryStatus == {"PENDING", "SUCCESS", "FAILED"}

Row == [status : JobStatus, attemptCount : Nat, bullJobId : BOOLEAN]

ASSUME NoneIsNoRow == None \notin Row \cup Kinds

BullStates == {"absent", "waiting", "active", "completed", "failed"}

Steps == {"idle", "markProcessing", "work", "post", "recordSuccess", "recordFailure",
          "markCompleted", "catch", "markFailed", "return", "throw"}

(* Plausible fault: job.attemptsStarted, which counts stalls, for attemptsMade. *)
attemptsStarted(j) == made[j] + stalls[j] + 1

attemptNumber(j) == made[j] + 1

Goto(j, step) == pc' = [pc EXCEPT ![j] = step]

Exists(j) == rows[j] # None

(* The processors of notifications, reminders and reports wrap the work in *)
(* a try; the webhook processor does not.                                  *)
Guarded(j) == kind[j] # "webhook-delivery"

(* Where an exception leads: the catch block, or out of the processor. *)
Thrown(j) == IF Guarded(j) THEN "catch" ELSE "throw"

-----------------------------------------------------------------------------
Init ==
    /\ kind \in KindChoices
    /\ rows = [j \in Jobs |-> None]
    /\ bull = [j \in Jobs |-> "absent"]
    /\ made = [j \in Jobs |-> 0]
    /\ stalls = [j \in Jobs |-> 0]
    /\ pc = [j \in Jobs |-> "idle"]
    /\ caller = [j \in Jobs |-> "create"]
    /\ endpoint = [j \in Jobs |-> TRUE]
    /\ deliveries = [j \in Jobs |-> {}]
    /\ effects = [j \in Jobs |-> 0]
    /\ achieved = [j \in Jobs |-> FALSE]

(* createJobRecord. *)
CreateRow(j) ==
    /\ caller[j] = "create"
    /\ rows' = [rows EXCEPT ![j] = [status |-> "PENDING", attemptCount |-> 0,
                                    bullJobId |-> FALSE]]
    /\ caller' = [caller EXCEPT ![j] = "add"]
    /\ UNCHANGED <<kind, queue, pc, endpoint, outcome>>

(* queue.add: from now on a worker may take the job. *)
AddToQueue(j) ==
    /\ caller[j] = "add"
    /\ bull' = [bull EXCEPT ![j] = "waiting"]
    /\ caller' = [caller EXCEPT ![j] = "attach"]
    /\ UNCHANGED <<kind, rows, made, stalls, pc, endpoint, outcome>>

(* attachBullJobId: one column, while the job may already be processed. *)
Attach(j) ==
    /\ caller[j] = "attach"
    /\ rows' = IF Exists(j) THEN [rows EXCEPT ![j].bullJobId = TRUE] ELSE rows
    /\ caller' = [caller EXCEPT ![j] = "done"]
    /\ UNCHANGED <<kind, queue, pc, endpoint, outcome>>

(* The queue services differ in queue, type and payload only. *)
Enqueue(j) == CreateRow(j) \/ AddToQueue(j) \/ Attach(j)

EnqueueNotification(j) == kind[j] = "notifications" /\ Enqueue(j)
EnqueueReminder(j) == kind[j] = "maintenance-reminders" /\ Enqueue(j)
EnqueueReport(j) == kind[j] = "report-generation" /\ Enqueue(j)

(* WebhookPublisherService.publish: a job for each endpoint read active. *)
EnqueueDelivery(j) ==
    /\ kind[j] = "webhook-delivery"
    /\ caller[j] = "create" => endpoint[j]
    /\ Enqueue(j)

(* The enqueuing request dies or one of its calls fails. *)
CallerDies(j) ==
    /\ caller[j] \in {"add", "attach"}
    /\ caller' = [caller EXCEPT ![j] = "done"]
    /\ UNCHANGED <<kind, rows, queue, pc, endpoint, outcome>>

(* WebhookEndpointService.updateEndpoint. *)
SwitchEndpoint(j) ==
    /\ kind[j] = "webhook-delivery"
    /\ endpoint' = [endpoint EXCEPT ![j] = ~@]
    /\ UNCHANGED <<kind, rows, queue, pc, caller, outcome>>

-----------------------------------------------------------------------------
(* BullMQ: the worker of a queue takes a waiting job. *)
Take(j) ==
    /\ bull[j] = "waiting"
    /\ \A k \in Jobs : kind[k] = kind[j] => bull[k] # "active"
    /\ bull' = [bull EXCEPT ![j] = "active"]
    /\ Goto(j, "markProcessing")
    /\ UNCHANGED <<kind, rows, made, stalls, caller, endpoint, outcome>>

(* markProcessing, outside any try; it throws if the row has been deleted. *)
MarkProcessing(j) ==
    /\ pc[j] = "markProcessing"
    /\ \/ /\ Exists(j)
          /\ rows' = [rows EXCEPT ![j].status = "PROCESSING",
                                  ![j].attemptCount = attemptNumber(j)]
          /\ Goto(j, "work")
       \/ /\ Goto(j, "throw")
          /\ UNCHANGED rows
    /\ UNCHANGED <<kind, queue, caller, endpoint, outcome>>

(* createNotification, with the preference of the recipient: it creates a  *)
(* notification, or none if they are switched off, or throws.              *)
CreateNotification(j) ==
    /\ \/ /\ Goto(j, "markCompleted")
          /\ achieved' = [achieved EXCEPT ![j] = TRUE]
          /\ effects' \in {effects, [effects EXCEPT ![j] = @ + 1]}
       \/ /\ Goto(j, "catch")
          /\ UNCHANGED <<achieved, effects>>
    /\ UNCHANGED <<kind, rows, queue, caller, endpoint, deliveries>>

Notify(j) ==
    pc[j] = "work" /\ kind[j] = "notifications" /\ CreateNotification(j)

(* The record is read again for its title and date; not for its status.    *)
Remind(j) ==
    pc[j] = "work" /\ kind[j] = "maintenance-reminders" /\ CreateNotification(j)

(* generateReport reads only. *)
GenerateReport(j) ==
    /\ pc[j] = "work"
    /\ kind[j] = "report-generation"
    /\ \/ /\ Goto(j, "markCompleted")
          /\ achieved' = [achieved EXCEPT ![j] = TRUE]
       \/ /\ Goto(j, "catch")
          /\ UNCHANGED achieved
    /\ UNCHANGED <<kind, rows, queue, caller, endpoint, deliveries, effects>>

(* A delivery row of this attempt; an earlier try of it may have left one. *)
WithDelivery(j, status) ==
    [deliveries EXCEPT ![j] = @ \cup {<<attemptNumber(j), status>>}]

(***************************************************************************)
(* deliverEvent reads endpoint and event and inserts the row of the        *)
(* attempt: FAILED at once for an inactive endpoint, and that is judged    *)
(* like any failed attempt.                                                *)
(***************************************************************************)
BeginDelivery(j) ==
    /\ pc[j] = "work"
    /\ kind[j] = "webhook-delivery"
    /\ \/ /\ deliveries' = WithDelivery(j, IF endpoint[j] THEN "PENDING" ELSE "FAILED")
          /\ Goto(j, IF endpoint[j] THEN "post" ELSE "catch")
       \/ /\ Goto(j, "throw")
          /\ UNCHANGED deliveries
    /\ UNCHANGED <<kind, rows, queue, caller, endpoint, effects, achieved>>

(* The POST: the endpoint answers 2xx, or something else, or the answer is  *)
(* lost.                                                                    *)
Post(j) ==
    /\ pc[j] = "post"
    /\ effects' = [effects EXCEPT ![j] = @ + 1]
    /\ \/ /\ Goto(j, "recordSuccess")
          /\ achieved' = [achieved EXCEPT ![j] = TRUE]
       \/ /\ Goto(j, "recordFailure")
          /\ UNCHANGED achieved
    /\ UNCHANGED <<kind, rows, queue, caller, endpoint, deliveries>>

RecordedAs(j, status) ==
    [deliveries EXCEPT ![j] = (@ \ {<<attemptNumber(j), "PENDING">>})
                                \cup {<<attemptNumber(j), status>>}]

(* Plausible fault: a result that cannot be recorded is ignored. *)
RecordIfPossible(j) ==
    /\ pc[j] = "recordSuccess"
    /\ Goto(j, "markCompleted")
    /\ deliveries' \in {deliveries, RecordedAs(j, "SUCCESS")}
    /\ UNCHANGED <<kind, rows, queue, caller, endpoint, effects, achieved>>

(* recordResult of a 2xx.  It is inside the try: when it throws, the catch  *)
(* block records the delivered event as FAILED.                             *)
RecordSuccess(j) ==
    /\ pc[j] = "recordSuccess"
    /\ \/ /\ deliveries' = RecordedAs(j, "SUCCESS")
          /\ Goto(j, "markCompleted")
       \/ /\ Goto(j, "recordFailure")
          /\ UNCHANGED deliveries
    /\ UNCHANGED <<kind, rows, queue, caller, endpoint, effects, achieved>>

(* Plausible fault: deliverWithRetries, which the service also offers. *)
RecordFailureAndRepeat(j) ==
    /\ pc[j] = "recordFailure"
    /\ deliveries' = RecordedAs(j, "FAILED")
    /\ \E step \in {"post", "catch"} : Goto(j, step)
    /\ UNCHANGED <<kind, rows, queue, caller, endpoint, effects, achieved>>

RecordFailure(j) ==
    /\ pc[j] = "recordFailure"
    /\ \/ /\ deliveries' = RecordedAs(j, "FAILED")
          /\ Goto(j, "catch")
       \/ /\ Goto(j, "throw")
          /\ UNCHANGED deliveries
    /\ UNCHANGED <<kind, rows, queue, caller, endpoint, effects, achieved>>

(* markCompleted of the job. *)
MarkCompleted(j) ==
    /\ pc[j] = "markCompleted"
    /\ \/ /\ Exists(j)
          /\ rows' = [rows EXCEPT ![j].status = "COMPLETED"]
          /\ Goto(j, "return")
       \/ /\ Goto(j, Thrown(j))
          /\ UNCHANGED rows
    /\ UNCHANGED <<kind, queue, caller, endpoint, outcome>>

(* Plausible fault: any failure is final for the row.                       *)
JudgeAlwaysFinal(j) ==
    /\ pc[j] = "catch"
    /\ Goto(j, "markFailed")
    /\ UNCHANGED <<kind, rows, queue, caller, endpoint, outcome>>

(* After a failure: the last attempt is marked and returns, any other is    *)
(* thrown for BullMQ to retry.                                              *)
Judge(j) ==
    /\ pc[j] = "catch"
    /\ Goto(j, IF attemptNumber(j) >= MaxAttempts THEN "markFailed" ELSE "throw")
    /\ UNCHANGED <<kind, rows, queue, caller, endpoint, outcome>>

MarkFailed(j) ==
    /\ pc[j] = "markFailed"
    /\ \/ /\ Exists(j)
          /\ rows' = [rows EXCEPT ![j].status = "FAILED",
                                  ![j].attemptCount = attemptNumber(j)]
          /\ Goto(j, "return")
       \/ /\ Goto(j, "throw")
          /\ UNCHANGED rows
    /\ UNCHANGED <<kind, queue, caller, endpoint, outcome>>

-----------------------------------------------------------------------------
(* BullMQ: process() returned. *)
Acknowledge(j) ==
    /\ pc[j] = "return"
    /\ bull' = [bull EXCEPT ![j] = "completed"]
    /\ Goto(j, "idle")
    /\ UNCHANGED <<kind, rows, made, stalls, caller, endpoint, outcome>>

(* Plausible fault: a job without a limit on its attempts. *)
RetryForever(j) ==
    /\ pc[j] = "throw"
    /\ bull' = [bull EXCEPT ![j] = "waiting"]
    /\ Goto(j, "idle")
    /\ UNCHANGED <<kind, rows, made, stalls, caller, endpoint, outcome>>

(* BullMQ: process() threw; the job waits out its backoff or has failed. *)
Retry(j) ==
    /\ pc[j] = "throw"
    /\ made' = [made EXCEPT ![j] = @ + 1]
    /\ bull' = [bull EXCEPT ![j] =
                  IF made[j] + 1 < MaxAttempts THEN "waiting" ELSE "failed"]
    /\ Goto(j, "idle")
    /\ UNCHANGED <<kind, rows, stalls, caller, endpoint, outcome>>

(* The worker dies anywhere in process(): BullMQ finds the job stalled.     *)
Crash(j) ==
    /\ bull[j] = "active"
    /\ stalls' = [stalls EXCEPT ![j] = @ + 1]
    /\ bull' = [bull EXCEPT ![j] =
                  IF stalls[j] < MaxStalls THEN "waiting" ELSE "failed"]
    /\ Goto(j, "idle")
    /\ UNCHANGED <<kind, rows, made, caller, endpoint, outcome>>

(* Plausible fault: rows are deleted by their age, whatever their status.   *)
DeleteBefore(j) ==
    /\ Exists(j)
    /\ rows' = [rows EXCEPT ![j] = None]
    /\ UNCHANGED <<kind, queue, pc, caller, endpoint, outcome>>

(* deleteCompletedBefore, some days after completion; a stalled job of a    *)
(* paused queue may still be waiting then.                                  *)
Cleanup(j) ==
    /\ Exists(j)
    /\ rows[j].status = "COMPLETED"
    /\ rows' = [rows EXCEPT ![j] = None]
    /\ UNCHANGED <<kind, queue, pc, caller, endpoint, outcome>>

Process(j) ==
    \/ MarkProcessing(j) \/ Notify(j) \/ Remind(j) \/ GenerateReport(j)
    \/ BeginDelivery(j) \/ Post(j) \/ RecordSuccess(j) \/ RecordFailure(j)
    \/ MarkCompleted(j) \/ Judge(j) \/ MarkFailed(j)
    \/ Acknowledge(j) \/ Retry(j)

Next ==
    \E j \in Jobs :
        \/ EnqueueNotification(j) \/ EnqueueReminder(j)
        \/ EnqueueReport(j) \/ EnqueueDelivery(j)
        \/ CallerDies(j) \/ SwitchEndpoint(j)
        \/ Take(j) \/ Process(j) \/ Crash(j) \/ Cleanup(j)

Spec == Init /\ [][Next]_vars

(***************************************************************************)
(* A started call returns or throws, and the worker of a queue goes on     *)
(* taking jobs: BullMQ serves them in order, so a job that waits while     *)
(* others are taken again and again is taken itself.                       *)
(***************************************************************************)
Fairness == \A j \in Jobs : SF_vars(Take(j)) /\ WF_vars(Process(j))

FairSpec == Spec /\ Fairness

-----------------------------------------------------------------------------
(***************************************************************************)
(* Properties of any interleaving.                                         *)
(***************************************************************************)

(* Every table has its type, and a worker is busy exactly with the active    *)
(* job of its queue.                                                         *)
TypeOK ==
    /\ kind \in [Jobs -> Kinds \cup {None}]
    /\ rows \in [Jobs -> Row \cup {None}]
    /\ bull \in [Jobs -> BullStates]
    /\ made \in [Jobs -> 0..MaxAttempts]
    /\ stalls \in [Jobs -> 0..(MaxStalls + 1)]
    /\ pc \in [Jobs -> Steps]
    /\ caller \in [Jobs -> {"create", "add", "attach", "done"}]
    /\ endpoint \in [Jobs -> BOOLEAN]
    /\ deliveries \in [Jobs -> SUBSET ((1..MaxAttempts) \X DeliveryStatus)]
    /\ effects \in [Jobs -> Nat]
    /\ achieved \in [Jobs -> BOOLEAN]
    /\ \A j \in Jobs : pc[j] # "idle" <=> bull[j] = "active"

(* A job whose row says COMPLETED has been done: the event was accepted by   *)
(* its endpoint and recorded so, the notification created or switched off.   *)
CompletedIsDone ==
    \A j \in Jobs :
        Exists(j) /\ rows[j].status = "COMPLETED" =>
            /\ achieved[j]
            /\ kind[j] = "webhook-delivery" =>
                  \E n \in 1..MaxAttempts : <<n, "SUCCESS">> \in deliveries[j]

(* Whatever throws, when BullMQ takes a job for processed its row tells the  *)
(* outcome (or was cleaned up), and FAILED is told only of a last attempt.   *)
ProcessedIsSettled ==
    \A j \in Jobs :
        Exists(j) =>
            /\ bull[j] = "completed" => isTerminalJobStatus(rows[j].status)
            /\ rows[j].status = "FAILED" => rows[j].attemptCount = MaxAttempts

(* The ledger that the two stores are: a row is there before its job, tells  *)
(* a verdict only of the attempt under way, keeps it once BullMQ is through  *)
(* with the job (a late attachBullJobId included), and is deleted only when  *)
(* COMPLETED.  An effect happens once per attempt and per stall at most.     *)
Standing == [absent |-> "absent", waiting |-> "queued", active |-> "queued",
             completed |-> "settled", failed |-> "given up"]

Verdict == [PENDING |-> "open", PROCESSING |-> "open", COMPLETED |-> "done",
            FAILED |-> "failed"]

Ledger == INSTANCE JobLedger WITH
    MaxTries <- MaxAttempts,
    MaxLapses <- MaxStalls,
    place <- [j \in Jobs |-> Standing[bull[j]]],
    told <- [j \in Jobs |-> IF Exists(j) THEN Verdict[rows[j].status]
                            ELSE IF caller[j] = "create" THEN "nothing" ELSE "gone"],
    done <- achieved,
    sent <- effects,
    tries <- made,
    lapses <- stalls

(* However calls fail and workers die, every step is a step of the ledger.   *)
ImplementsLedger == Ledger!Spec

(* However often it throws or its worker dies, a job in the queue ends.      *)
QueuedJobsEnd ==
    \A j \in Jobs : bull[j] = "waiting" ~> bull[j] \in {"completed", "failed"}
=============================================================================
