------------------------------ MODULE Reminders ------------------------------
(***************************************************************************)
(* DailyReminderScheduler and ReminderGenerationService: every morning one *)
(* scan enqueues a reminder for each licence that expires and each         *)
(* maintenance that is scheduled within a number of days.  Time counts in  *)
(* half days: 2d is day d before the hour of DAILY_REMINDER_CRON, 2d + 1   *)
(* the rest of it; the scan of day d runs at the beginning of 2d + 1.      *)
(***************************************************************************)
EXTENDS Integers, FiniteSets

CONSTANTS
    Licences, Maintenances,     \* drivers and maintenance records
    Days,                       \* LICENSE_ and MAINTENANCE_REMINDER_DAYS
    LastHalfDay                 \* bound: where a behaviour ends

Items == Licences \cup Maintenances

ASSUME RemindersAssumption ==
    /\ Days \in [Items -> Nat \ {0}]
    /\ LastHalfDay \in Nat

VARIABLES
    clock,
    item,           \* the rows the scans read
    admin,          \* an active admin of the organization exists
    scan,           \* the run of the scheduler, with its locals
    reminded,       \* history: the days a row was enqueued, as it stands,
    missed          \* and the days the scan did not get to it

remindersVars == <<clock, item, admin, scan, reminded, missed>>

-----------------------------------------------------------------------------
HalfDays == 0..LastHalfDay
Phases == {"idle", "licences", "recipients", "licence", "maintenance", "record"}

(* "since" is history: the moment from which the row is as it stands.      *)
Item == [open : BOOLEAN, due : HalfDays, since : HalfDays]

RemindersInit ==
    /\ clock = 0
    /\ item \in [Items -> [open : {FALSE}, due : {0}, since : {0}]]
    /\ admin = TRUE
    /\ scan = [phase |-> "idle", todo |-> {}, recipient |-> FALSE]
    /\ reminded = [i \in Items |-> {}]
    /\ missed = [i \in Items |-> {}]

Today == clock \div 2

(* A driver is created or becomes ACTIVE, a maintenance is scheduled.      *)
Open(i, due) ==
    /\ ~item[i].open
    /\ item' = [item EXCEPT ![i] = [open |-> TRUE, due |-> due, since |-> clock]]
    /\ UNCHANGED <<clock, admin, scan, reminded, missed>>

(* A driver stops being ACTIVE, a maintenance leaves SCHEDULED.            *)
Close(i) ==
    /\ item[i].open
    /\ item' = [item EXCEPT ![i] = [open |-> FALSE, due |-> 0, since |-> 0]]
    /\ reminded' = [reminded EXCEPT ![i] = {}]
    /\ missed' = [missed EXCEPT ![i] = {}]
    /\ UNCHANGED <<clock, admin, scan>>

(* The only admin is deactivated, or one is appointed.                     *)
ChangeAdmin ==
    /\ admin' = ~admin
    /\ UNCHANGED <<clock, item, scan, reminded, missed>>

Missing(items) ==
    [i \in Items |-> missed[i] \cup {d \in {Today} : i \in items /\ item[i].open}]

(* Time passes.  The cron fires if the process is up at its hour.          *)
Tick(up) ==
    /\ clock < LastHalfDay
    /\ scan.phase = "idle"
    /\ clock' = clock + 1
    /\ LET hour == clock % 2 = 0
       IN  /\ scan' = IF hour /\ up THEN [scan EXCEPT !.phase = "licences"] ELSE scan
           /\ missed' = IF hour /\ ~up THEN Missing(Items) ELSE missed
    /\ UNCHANGED <<item, admin, reminded>>

(* Plausible fault: both ends of the window are starts of a day.           *)
WithinDays(due, days) == due >= 2 * Today /\ due < 2 * (Today + days)

(* From the start of today to the scan's hour a number of days later.      *)
InWindow(due, days) == due >= 2 * Today /\ due <= 2 * (Today + days)

Found(rows) == {i \in rows : item[i].open /\ InWindow(item[i].due, Days[i])}

FindLicences ==
    /\ scan.phase = "licences"
    /\ scan' = [scan EXCEPT !.todo = Found(Licences),
                            !.phase = IF Found(Licences) = {} THEN "maintenance" ELSE "recipients"]
    /\ UNCHANGED <<clock, item, admin, reminded, missed>>

FindRecipients ==
    /\ scan.phase = "recipients"
    /\ scan' = [scan EXCEPT !.recipient = admin, !.phase = "licence"]
    /\ UNCHANGED <<clock, item, admin, reminded, missed>>

Remind(i) ==
    reminded' = [reminded EXCEPT ![i] = @ \cup {d \in {Today} : item[i].open}]

(* Without an admin the licence is skipped with a warning.                 *)
EnqueueLicence(i) ==
    /\ scan.phase = "licence" /\ i \in scan.todo
    /\ IF scan.recipient
       THEN Remind(i) /\ UNCHANGED missed
       ELSE missed' = Missing({i}) /\ UNCHANGED reminded
    /\ LET rest == scan.todo \ {i} IN
       scan' = [scan EXCEPT !.todo = rest, !.phase = IF rest = {} THEN "maintenance" ELSE @]
    /\ UNCHANGED <<clock, item, admin>>

FindMaintenances ==
    /\ scan.phase = "maintenance"
    /\ scan' = [scan EXCEPT !.todo = Found(Maintenances), !.recipient = FALSE,
                            !.phase = IF Found(Maintenances) = {} THEN "idle" ELSE "record"]
    /\ UNCHANGED <<clock, item, admin, reminded, missed>>

EnqueueReminder(i) ==
    /\ scan.phase = "record" /\ i \in scan.todo
    /\ Remind(i)
    /\ LET rest == scan.todo \ {i} IN
       scan' = [scan EXCEPT !.todo = rest, !.phase = IF rest = {} THEN "idle" ELSE @]
    /\ UNCHANGED <<clock, item, admin, missed>>

(* A query or an enqueue throws, or the process dies: nothing resumes the  *)
(* scan, and what a licence's failure cuts off includes every maintenance. *)
ScanThrows ==
    /\ scan.phase # "idle"
    /\ missed' = Missing(CASE scan.phase = "record" -> scan.todo
                           [] scan.phase \in {"licence", "maintenance"}
                                -> scan.todo \cup Maintenances
                           [] OTHER -> Items)
    /\ scan' = [phase |-> "idle", todo |-> {}, recipient |-> FALSE]
    /\ UNCHANGED <<clock, item, admin, reminded>>

RemindersNext ==
    \/ \E i \in Items, due \in HalfDays : Open(i, due)
    \/ \E i \in Items : Close(i)
    \/ ChangeAdmin
    \/ \E up \in BOOLEAN : Tick(up)
    \/ FindLicences
    \/ FindRecipients
    \/ \E i \in Licences : EnqueueLicence(i)
    \/ FindMaintenances
    \/ \E i \in Maintenances : EnqueueReminder(i)
    \/ ScanThrows

-----------------------------------------------------------------------------
(* A reminder comes ahead of time when there is time for one: an item that  *)
(* has been open, unchanged, for at least a day when it falls due was      *)
(* enqueued by a scan before that moment, unless the scan of one of those  *)
(* days did not get to it.                                                 *)
RemindedAhead ==
    \A i \in Items :
        LET days == {d \in 0..Today : item[i].since <= 2 * d /\ 2 * d + 1 <= item[i].due}
        IN  /\ item[i].open /\ scan.phase = "idle"
            /\ item[i].due <= clock /\ item[i].since + 2 <= item[i].due
            /\ missed[i] \cap days = {}
            => reminded[i] \cap days # {}
=============================================================================
