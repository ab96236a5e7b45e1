\* A job of each kind, or two for one worker: three attempts, one stall forgiven.
SPECIFICATION FairSpec
CONSTANTS
    j1 = j1
    j2 = j2
    Jobs = {j1, j2}
    KindChoices <- KindChoicesDef
    MaxAttempts = 3
    MaxStalls = 1
    None = None
INVARIANTS
    TypeOK
    CompletedIsDone
    ProcessedIsSettled
PROPERTIES
    ImplementsLedger
    QueuedJobsEnd
\* A job that ended is not enqueued again.
CHECK_DEADLOCK FALSE
