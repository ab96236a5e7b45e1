-------------------------- MODULE Platform_proofs ---------------------------
(***************************************************************************)
(* Proofs about parts of the platform that share no state, one section     *)
(* each: Reminders, AuditTrail, Deployment and Access.                     *)
(***************************************************************************)
EXTENDS Reminders, Access, AuditTrail, Deployment, SequenceTheorems, TLAPS

-----------------------------------------------------------------------------
(* REMINDERS, for any set of licences and maintenance records and any      *)
(* numbers of days of a day or more: one scan decides whether an item is   *)
(* reminded of ahead of time, that of the last day that begins before the  *)
(* item falls due.                                                         *)
RemindersSpec == RemindersInit /\ [][RemindersNext]_remindersVars

RemindersTypesOK ==
    /\ clock \in HalfDays
    /\ item \in [Items -> Item]
    /\ admin \in BOOLEAN
    /\ scan \in [phase : Phases, todo : SUBSET Items, recipient : BOOLEAN]
    /\ reminded \in [Items -> SUBSET Nat]
    /\ missed \in [Items -> SUBSET Nat]

(* A scan runs between the hour of the cron and the end of the half day. *)
ScanOnTime == scan.phase # "idle" => clock = 2 * Today + 1

(* The item was there, as it is, when day d began, and d is the last day    *)
(* that begins before it falls due.                                         *)
LastDay(i, d) ==
    /\ item[i].open
    /\ item[i].since <= 2 * d
    /\ item[i].due \in {2 * d + 1, 2 * d + 2}

(* The scan in progress has not yet decided about the item. *)
Pending(i) ==
    \/ scan.phase = "licences"
    \/ scan.phase \in {"recipients", "licence"} /\ i \in Maintenances \cup scan.todo
    \/ scan.phase = "maintenance" /\ i \in Maintenances
    \/ scan.phase = "record" /\ i \in scan.todo

(* Once its hour has come, the scan of the last day has enqueued the item   *)
(* or missed it, or is at work and has the item before it.                  *)
Decided ==
    \A i \in Items, d \in Nat :
        /\ LastDay(i, d)
        /\ 2 * d + 1 <= clock
        => d \in reminded[i] \cup missed[i] \/ (d = Today /\ Pending(i))

RemindersInv == RemindersTypesOK /\ ScanOnTime /\ Decided

-----------------------------------------------------------------------------
USE RemindersAssumption

(* A number of half days is even or odd. *)
LEMMA Halves ==
    ASSUME NEW m \in Nat
    PROVE  m \div 2 \in Nat /\ (m = 2 * (m \div 2) \/ m = 2 * (m \div 2) + 1)
BY SMTT(30)

(* The day of a half day. *)
LEMMA Day ==
    ASSUME RemindersInv
    PROVE  /\ clock \in Nat /\ Today \in Nat
           /\ clock = 2 * Today \/ clock = 2 * Today + 1
<1>1. clock \in Nat
  BY DEF RemindersInv, RemindersTypesOK, HalfDays
<1>2. QED
  BY <1>1, Halves, Zenon DEF Today

(* On its last day an item is in the window of the scan. *)
LEMMA LastDayIsInWindow ==
    ASSUME RemindersInv, NEW i \in Items, LastDay(i, Today)
    PROVE  InWindow(item[i].due, Days[i])
<1>1. Today \in Nat /\ item[i].due \in {2 * Today + 1, 2 * Today + 2}
  BY Day DEF LastDay
<1>2. Days[i] \in Nat /\ Days[i] >= 1
  OBVIOUS
<1>3. QED
  BY <1>1, <1>2 DEF InWindow

(* A step of the scan that keeps the rows and what has been decided, and    *)
(* whatever was pending is decided or still pending.                        *)
LEMMA ScanMoves ==
    ASSUME RemindersInv, UNCHANGED <<clock, item, admin>>,
           scan' \in [phase : Phases, todo : SUBSET Items, recipient : BOOLEAN],
           reminded' \in [Items -> SUBSET Nat], missed' \in [Items -> SUBSET Nat],
           scan.phase # "idle",
           \A i \in Items : reminded[i] \subseteq reminded'[i] /\ missed[i] \subseteq missed'[i],
           \A i \in Items : LastDay(i, Today) /\ Pending(i) =>
               Today \in reminded'[i] \cup missed'[i] \/ Pending(i)'
    PROVE  RemindersInv'
<1>1. Today' = Today
  BY DEF Today
<1>2. RemindersTypesOK' /\ ScanOnTime'
  BY <1>1 DEF RemindersInv, RemindersTypesOK, ScanOnTime
<1>3. ASSUME NEW i \in Items, NEW d \in Nat, LastDay(i, d)', 2 * d + 1 <= clock'
      PROVE  d \in reminded'[i] \cup missed'[i] \/ (d = Today' /\ Pending(i)')
  <2>1. LastDay(i, d) /\ 2 * d + 1 <= clock
    BY <1>3 DEF LastDay
  <2>2. d \in reminded[i] \cup missed[i] \/ (d = Today /\ Pending(i))
    BY <2>1 DEF RemindersInv, Decided
  <2>3. CASE d \in reminded[i] \cup missed[i]
    BY <2>3
  <2>4. CASE d = Today /\ Pending(i)
    BY <1>1, <2>1, <2>4
  <2>5. QED
    BY <2>2, <2>3, <2>4
<1>4. QED
  BY <1>2, <1>3 DEF RemindersInv, Decided

(* A scan misses today whatever is open of its items. *)
LEMMA MissingOK ==
    ASSUME RemindersInv, NEW S
    PROVE  /\ Missing(S) \in [Items -> SUBSET Nat]
           /\ \A i \in Items : missed[i] \subseteq Missing(S)[i]
           /\ \A i \in Items : i \in S /\ item[i].open => Today \in Missing(S)[i]
BY Day DEF Missing, RemindersInv, RemindersTypesOK

(* The rows of the licences and of the maintenances are found. *)
LEMMA FindStep ==
    ASSUME RemindersInv, FindLicences \/ FindRecipients \/ FindMaintenances
    PROVE  RemindersInv'
<1>1. /\ scan.phase # "idle" /\ UNCHANGED <<clock, item, admin, reminded, missed>>
      /\ scan \in [phase : Phases, todo : SUBSET Items, recipient : BOOLEAN]
      /\ \A S : S \subseteq Items => Found(S) \in SUBSET Items
  BY DEF FindLicences, FindRecipients, FindMaintenances, RemindersInv, RemindersTypesOK, Found
<1>2. scan' \in [phase : Phases, todo : SUBSET Items, recipient : BOOLEAN]
  <2>1. CASE FindLicences
    BY <1>1, <2>1 DEF FindLicences, Phases, Items
  <2>2. CASE FindRecipients
    <3>1. PICK a \in BOOLEAN : scan' = [scan EXCEPT !.recipient = a, !.phase = "licence"]
      BY <2>2 DEF FindRecipients, RemindersInv, RemindersTypesOK
    <3>2. QED
      BY <1>1, <3>1 DEF Phases
  <2>3. CASE FindMaintenances
    BY <1>1, <2>3 DEF FindMaintenances, Phases, Items
  <2>4. QED
    BY <2>1, <2>2, <2>3
<1>3. ASSUME NEW i \in Items, LastDay(i, Today), Pending(i) PROVE Pending(i)'
  <2>1. item[i].open /\ InWindow(item[i].due, Days[i])
    BY <1>3, LastDayIsInWindow DEF LastDay
  <2>2. CASE FindLicences
    BY <1>1, <1>3, <2>1, <2>2 DEF FindLicences, Pending, Found, Items
  <2>3. CASE FindRecipients
    BY <1>1, <1>3, <2>3 DEF FindRecipients, Pending
  <2>4. CASE FindMaintenances
    BY <1>1, <1>3, <2>1, <2>4 DEF FindMaintenances, Pending, Found
  <2>5. QED
    BY <2>2, <2>3, <2>4
<1>4. QED
  BY <1>1, <1>2, <1>3, ScanMoves DEF RemindersInv, RemindersTypesOK

(* An item is enqueued, or a licence is skipped for want of an admin. *)
LEMMA EnqueueStep ==
    ASSUME RemindersInv, NEW i \in Items,
           \/ i \in Licences /\ EnqueueLicence(i)
           \/ i \in Maintenances /\ EnqueueReminder(i)
    PROVE  RemindersInv'
<1>1. /\ scan.phase \in {"licence", "record"} /\ i \in scan.todo
      /\ UNCHANGED <<clock, item, admin>>
      /\ scan \in [phase : Phases, todo : SUBSET Items, recipient : BOOLEAN]
  BY DEF EnqueueLicence, EnqueueReminder, RemindersInv, RemindersTypesOK
<1>2. PICK phase \in {"licence", "maintenance", "record", "idle"} :
         /\ scan' = [scan EXCEPT !.todo = scan.todo \ {i}, !.phase = phase]
         /\ phase \in {"licence", "maintenance"} <=> scan.phase = "licence"
         /\ phase \in {"maintenance", "idle"} => scan.todo \ {i} = {}
  BY <1>1 DEF EnqueueLicence, EnqueueReminder
<1>3. /\ scan' \in [phase : Phases, todo : SUBSET Items, recipient : BOOLEAN]
      /\ scan'.phase = phase /\ scan'.todo = scan.todo \ {i}
  BY <1>1, <1>2 DEF Phases
<1>4. /\ reminded' \in [Items -> SUBSET Nat] /\ missed' \in [Items -> SUBSET Nat]
      /\ \A k \in Items : reminded[k] \subseteq reminded'[k] /\ missed[k] \subseteq missed'[k]
      /\ item[i].open => Today \in reminded'[i] \cup missed'[i]
  <2>1. CASE Remind(i) /\ UNCHANGED missed
    BY <2>1, Day DEF Remind, RemindersInv, RemindersTypesOK
  <2>2. CASE missed' = Missing({i}) /\ UNCHANGED reminded
    BY <2>2, MissingOK DEF RemindersInv, RemindersTypesOK
  <2>3. QED
    BY <2>1, <2>2 DEF EnqueueLicence, EnqueueReminder
<1>5. ASSUME NEW k \in Items, LastDay(k, Today), Pending(k)
      PROVE  Today \in reminded'[k] \cup missed'[k] \/ Pending(k)'
  <2>1. CASE k = i
    BY <1>4, <1>5, <2>1 DEF LastDay
  <2>2. CASE k # i
    BY <1>1, <1>2, <1>3, <1>5, <2>2 DEF Pending
  <2>3. QED
    BY <2>1, <2>2
<1>6. QED
  BY <1>1, <1>3, <1>4, <1>5, ScanMoves

(* What a scan that breaks off leaves pending is missed. *)
LEMMA ThrowsStep ==
    ASSUME RemindersInv, ScanThrows
    PROVE  RemindersInv'
<1>1. PICK S :
         /\ missed' = Missing(S)
         /\ \A i \in Items : Pending(i) => i \in S
  <2> DEFINE S == CASE scan.phase = "record" -> scan.todo
                    [] scan.phase \in {"licence", "maintenance"} -> scan.todo \cup Maintenances
                    [] OTHER -> Items
  <2>1. missed' = Missing(S)
    BY DEF ScanThrows
  <2>2. \A i \in Items : Pending(i) => i \in S
    BY DEF Pending
  <2> HIDE DEF S
  <2>3. QED
    BY <2>1, <2>2
<1>2. /\ scan.phase # "idle" /\ UNCHANGED <<clock, item, admin, reminded>>
      /\ scan' = [phase |-> "idle", todo |-> {}, recipient |-> FALSE]
  BY DEF ScanThrows
<1>3. scan' \in [phase : Phases, todo : SUBSET Items, recipient : BOOLEAN]
  BY <1>2 DEF Phases
<1>4. /\ reminded' \in [Items -> SUBSET Nat] /\ missed' \in [Items -> SUBSET Nat]
      /\ \A k \in Items : reminded[k] \subseteq reminded'[k] /\ missed[k] \subseteq missed'[k]
  BY <1>1, <1>2, MissingOK DEF RemindersInv, RemindersTypesOK
<1>5. \A i \in Items : LastDay(i, Today) /\ Pending(i) => Today \in missed'[i]
  BY <1>1, MissingOK DEF LastDay
<1>6. QED
  BY <1>2, <1>3, <1>4, <1>5, ScanMoves

(* The hour of the cron comes, and the process is up or down. *)
LEMMA TickStep ==
    ASSUME RemindersInv, NEW up \in BOOLEAN, Tick(up)
    PROVE  RemindersInv'
<1>1. /\ scan.phase = "idle" /\ clock' = clock + 1 /\ clock < LastHalfDay
      /\ UNCHANGED <<item, admin, reminded>>
  BY DEF Tick
<1>2. /\ clock \in Nat /\ Today \in Nat /\ Today' \in Nat
      /\ \/ clock = 2 * Today /\ clock % 2 = 0 /\ Today' = Today
         \/ clock = 2 * Today + 1 /\ clock % 2 = 1 /\ Today' = Today + 1
  BY <1>1, Day DEF Today
<1>3. CASE clock = 2 * Today + 1
  <2>1. UNCHANGED <<scan, missed>>
    BY <1>2, <1>3 DEF Tick
  <2>2. RemindersTypesOK' /\ ScanOnTime'
    <3>1. clock' \in HalfDays
      BY <1>1, <1>2 DEF HalfDays
    <3>2. RemindersTypesOK'
      BY <1>1, <2>1, <3>1 DEF RemindersInv, RemindersTypesOK
    <3>3. QED
      BY <1>1, <2>1, <3>2 DEF ScanOnTime
  <2>3. ASSUME NEW i \in Items, NEW d \in Nat, LastDay(i, d)', 2 * d + 1 <= clock'
        PROVE  d \in reminded'[i] \cup missed'[i]
    <3>1. LastDay(i, d) /\ 2 * d + 1 <= clock
      BY <1>1, <1>2, <1>3, <2>3 DEF LastDay
    <3>2. ~Pending(i)
      BY <1>1 DEF Pending
    <3>3. QED
      BY <1>1, <2>1, <3>1, <3>2 DEF RemindersInv, Decided
  <2>4. QED
    BY <2>2, <2>3 DEF RemindersInv, Decided
<1>4. CASE clock = 2 * Today
  <2>1. \/ scan' = [scan EXCEPT !.phase = "licences"] /\ missed' = missed
        \/ scan' = scan /\ missed' = Missing(Items)
    BY <1>2, <1>4 DEF Tick
  <2>2. /\ scan' \in [phase : Phases, todo : SUBSET Items, recipient : BOOLEAN]
        /\ missed' \in [Items -> SUBSET Nat]
        /\ \A i \in Items : missed[i] \subseteq missed'[i]
        /\ scan'.phase = "licences"
              \/ \A i \in Items : item[i].open => Today \in missed'[i]
    BY <2>1, MissingOK DEF RemindersInv, RemindersTypesOK, Phases
  <2>3. RemindersTypesOK' /\ ScanOnTime'
    <3>1. clock' \in HalfDays
      BY <1>1, <1>2 DEF HalfDays
    <3>2. RemindersTypesOK'
      BY <1>1, <2>2, <3>1 DEF RemindersInv, RemindersTypesOK
    <3>3. clock' = 2 * Today' + 1
      <4>1. Today' = Today
        BY <1>2, <1>4
      <4>2. clock' = 2 * Today + 1
        BY <1>1, <1>4
      <4>3. QED
        BY <4>1, <4>2
    <3>4. QED
      BY <3>2, <3>3 DEF ScanOnTime
  <2>4. ASSUME NEW i \in Items, NEW d \in Nat, LastDay(i, d)', 2 * d + 1 <= clock'
        PROVE  d \in reminded'[i] \cup missed'[i] \/ (d = Today' /\ Pending(i)')
    <3>1. LastDay(i, d) /\ d <= Today /\ ~Pending(i) /\ Today' = Today
      BY <1>1, <1>2, <1>4, <2>4 DEF LastDay, Pending
    <3>2. CASE d = Today
      BY <2>2, <3>1, <3>2 DEF LastDay, Pending
    <3>3. CASE d < Today
      <4>1. 2 * d + 1 <= clock
        BY <1>2, <1>4, <3>3
      <4>2. QED
        BY <1>1, <2>2, <3>1, <4>1 DEF RemindersInv, Decided
    <3>4. QED
      BY <1>2, <3>1, <3>2, <3>3
  <2>5. QED
    BY <2>3, <2>4 DEF RemindersInv, Decided
<1>5. QED
  BY <1>2, <1>3, <1>4

(* A row that is opened now was not there when the day began. *)
LEMMA OpenStep ==
    ASSUME RemindersInv, NEW i \in Items, NEW due \in HalfDays, Open(i, due)
    PROVE  RemindersInv'
<1> DEFINE row == [open |-> TRUE, due |-> due, since |-> clock]
<1>1. /\ item' = [item EXCEPT ![i] = row]
      /\ UNCHANGED <<clock, admin, scan, reminded, missed>> /\ Today' = Today
  BY DEF Open, Today
<1>2. row \in Item
  BY DEF Item, RemindersInv, RemindersTypesOK
<1>3. /\ item' \in [Items -> Item] /\ item'[i] = row
      /\ \A k \in Items \ {i} : item'[k] = item[k]
  BY <1>1, <1>2 DEF RemindersInv, RemindersTypesOK
<1>4. RemindersTypesOK' /\ ScanOnTime'
  BY <1>1, <1>3 DEF RemindersInv, RemindersTypesOK, ScanOnTime
<1>5. ASSUME NEW k \in Items, NEW d \in Nat, LastDay(k, d)', 2 * d + 1 <= clock'
      PROVE  d \in reminded'[k] \cup missed'[k] \/ (d = Today' /\ Pending(k)')
  <2>1. k # i
    BY <1>1, <1>3, <1>5, Day DEF LastDay
  <2>2. LastDay(k, d)
    BY <1>3, <1>5, <2>1 DEF LastDay
  <2>3. Pending(k) => Pending(k)'
    BY <1>1 DEF Pending
  <2>4. QED
    BY <1>1, <1>5, <2>2, <2>3 DEF RemindersInv, Decided
<1>6. QED
  BY <1>4, <1>5 DEF RemindersInv, Decided

(* A row that is closed has no last day; the others keep theirs. *)
LEMMA CloseStep ==
    ASSUME RemindersInv, NEW i \in Items, Close(i)
    PROVE  RemindersInv'
<1> DEFINE row == [open |-> FALSE, due |-> 0, since |-> 0]
<1>1. /\ item' = [item EXCEPT ![i] = row]
      /\ reminded' = [reminded EXCEPT ![i] = {}] /\ missed' = [missed EXCEPT ![i] = {}]
      /\ UNCHANGED <<clock, admin, scan>> /\ Today' = Today
  BY DEF Close, Today
<1>2. row \in Item
  BY DEF Item, HalfDays
<1>3. /\ item' \in [Items -> Item] /\ item'[i] = row
      /\ reminded' \in [Items -> SUBSET Nat] /\ missed' \in [Items -> SUBSET Nat]
      /\ \A k \in Items \ {i} : /\ item'[k] = item[k]
                                /\ reminded'[k] = reminded[k] /\ missed'[k] = missed[k]
  BY <1>1, <1>2 DEF RemindersInv, RemindersTypesOK
<1>4. RemindersTypesOK' /\ ScanOnTime'
  BY <1>1, <1>3 DEF RemindersInv, RemindersTypesOK, ScanOnTime
<1>5. ASSUME NEW k \in Items, NEW d \in Nat, LastDay(k, d)', 2 * d + 1 <= clock'
      PROVE  d \in reminded'[k] \cup missed'[k] \/ (d = Today' /\ Pending(k)')
  <2>1. k # i
    BY <1>3, <1>5 DEF LastDay
  <2>2. LastDay(k, d)
    BY <1>3, <1>5, <2>1 DEF LastDay
  <2>3. Pending(k) => Pending(k)'
    BY <1>1 DEF Pending
  <2>4. QED
    BY <1>1, <1>3, <1>5, <2>1, <2>2, <2>3 DEF RemindersInv, Decided
<1>6. QED
  BY <1>4, <1>5 DEF RemindersInv, Decided

(* Admins come and go, or nothing happens. *)
LEMMA RestStep ==
    ASSUME RemindersInv, ChangeAdmin \/ UNCHANGED remindersVars
    PROVE  RemindersInv'
<1>1. /\ UNCHANGED <<clock, item, scan, reminded, missed>> /\ admin' \in BOOLEAN
      /\ Today' = Today
  BY DEF ChangeAdmin, remindersVars, Today, RemindersInv, RemindersTypesOK
<1>2. RemindersTypesOK' /\ ScanOnTime'
  BY <1>1 DEF RemindersInv, RemindersTypesOK, ScanOnTime
<1>3. Decided'
  BY <1>1 DEF RemindersInv, Decided, LastDay, Pending
<1>4. QED
  BY <1>2, <1>3 DEF RemindersInv

-----------------------------------------------------------------------------
(* There is nothing to be reminded of at first. *)
LEMMA RemindersInitially == RemindersInit => RemindersInv
<1> SUFFICES ASSUME RemindersInit PROVE RemindersInv
  OBVIOUS
<1>1. ASSUME NEW i \in Items PROVE ~item[i].open /\ item[i] \in Item
  <2>1. item[i] \in [open : {FALSE}, due : {0}, since : {0}]
    BY DEF RemindersInit
  <2>2. 0 \in HalfDays
    BY DEF HalfDays
  <2>3. QED
    BY <2>1, <2>2 DEF Item
<1>2. RemindersTypesOK /\ ScanOnTime
  BY <1>1 DEF RemindersInit, RemindersTypesOK, ScanOnTime, HalfDays, Phases
<1>3. Decided
  BY <1>1 DEF Decided, LastDay
<1>4. QED
  BY <1>2, <1>3 DEF RemindersInv

(* Every step keeps the invariant. *)
LEMMA RemindersStep == RemindersInv /\ [RemindersNext]_remindersVars => RemindersInv'
<1> SUFFICES ASSUME RemindersInv, [RemindersNext]_remindersVars PROVE RemindersInv'
  OBVIOUS
<1>1. Licences \subseteq Items /\ Maintenances \subseteq Items
  BY DEF Items
<1>2. QED
  BY <1>1, OpenStep, CloseStep, TickStep, FindStep, EnqueueStep, ThrowsStep, RestStep
     DEF RemindersNext

(* The invariant holds of every behaviour of the reminders. *)
THEOREM RemindersInductive == RemindersSpec => []RemindersInv
BY RemindersInitially, RemindersStep, PTL DEF RemindersSpec

(* A reminder comes ahead of time when there is time for one. *)
THEOREM RemindersComeAhead == RemindersSpec => []RemindedAhead
<1>1. RemindersInv => RemindedAhead
  <2> SUFFICES ASSUME RemindersInv, NEW i \in Items,
                      item[i].open, scan.phase = "idle",
                      item[i].due <= clock, item[i].since + 2 <= item[i].due
               PROVE  \E d \in 0..Today : /\ item[i].since <= 2 * d
                                          /\ 2 * d + 1 <= item[i].due
                                          /\ d \in reminded[i] \cup missed[i]
    BY DEF RemindedAhead
  <2>1. item[i].due \in Nat /\ item[i].since \in Nat
    BY DEF RemindersInv, RemindersTypesOK, Item, HalfDays
  <2>2. PICK d \in Nat : item[i].due \in {2 * d + 1, 2 * d + 2}
    <3>1. item[i].due - 1 \in Nat
      BY <2>1
    <3>2. PICK d \in Nat : item[i].due - 1 = 2 * d \/ item[i].due - 1 = 2 * d + 1
      BY <3>1, Halves, Zenon
    <3>3. item[i].due \in {2 * d + 1, 2 * d + 2}
      BY <2>1, <3>2
    <3>4. QED
      BY <3>3
  <2>3. LastDay(i, d) /\ 2 * d + 1 <= item[i].due
    BY <2>1, <2>2 DEF LastDay
  <2>4. 2 * d + 1 <= clock /\ d \in 0..Today
    BY <2>1, <2>3, Day
  <2>5. ~Pending(i)
    BY DEF Pending
  <2>6. QED
    BY <2>3, <2>4, <2>5 DEF RemindersInv, Decided, LastDay
<1>2. QED
  BY <1>1, RemindersInductive, PTL

-----------------------------------------------------------------------------
(* AUDIT TRAIL, for any buffer size, limit and events reported: the buffer *)
(* is always the end of what was reported, so that the end of the buffer   *)
(* is too.                                                                 *)
AuditSpec == AuditInit /\ [][AuditNext]_auditVars

AuditRecords == [event : LoggedEvents, number : Nat \ {0}, inRequest : BOOLEAN]

AuditTypesOK ==
    /\ maxSize \in Nat
    /\ logged \in Seq(AuditRecords)
    /\ events \in Seq(AuditRecords)

(* The buffer is the end of what was reported, numbered from its start.     *)
Buffered ==
    /\ \A i \in 1..Len(logged) : logged[i].number = i
    /\ Len(events) = IF maxSize < Len(logged) THEN maxSize ELSE Len(logged)
    /\ \A i \in 1..Len(events) : events[i] = logged[Len(logged) - Len(events) + i]

AuditInv == AuditTypesOK /\ Buffered /\ ExportIsLatest

(* No payload has a field of the name of a column of its own.               *)
OwnColumns == {"event", "requestId", "occurredAt"}

LEMMA PayloadHasNoOwnColumn == \A e : PayloadOf(e) \cap OwnColumns = {}
<1> USE DEF OwnColumns
<1> DEFINE Has(g) == \E e \in DOMAIN g : g[e] \cap OwnColumns # {}
<1>1. ~Has(FleetEvents)
  BY DEF FleetEvents
<1>2. ~Has(TripEvents)
  BY DEF TripEvents
<1>3. ~Has(MaintenanceEvents)
  BY DEF MaintenanceEvents
<1>4. ~Has(FuelAndNotificationEvents)
  BY DEF FuelAndNotificationEvents
<1>5. ~Has(IntegrationEvents)
  BY DEF IntegrationEvents
<1>6. ~Has(JobEvents)
  BY DEF JobEvents
<1>7. ~Has(AuthorizationEvents)
  BY DEF AuthorizationEvents
<1>8. QED
  BY <1>1, <1>2, <1>3, <1>4, <1>5, <1>6, <1>7 DEF PayloadOf

(* The last elements of a sequence. *)
LEMMA LastElements ==
    ASSUME NEW S, NEW seq \in Seq(S), NEW n \in 0..Len(seq)
    PROVE  /\ Last(seq, n) \in Seq(S)
           /\ Len(Last(seq, n)) = n
           /\ \A i \in 1..n : Last(seq, n)[i] = seq[Len(seq) - n + i]
<1> DEFINE first == Len(seq) - n + 1
<1>1. /\ Len(seq) \in Nat /\ n \in Nat /\ n <= Len(seq) /\ first \in Int
      /\ \A i \in first..Len(seq) : seq[i] \in S
  OBVIOUS
<1>2. /\ SubSeq(seq, first, Len(seq)) \in Seq(S)
      /\ Len(SubSeq(seq, first, Len(seq))) =
            IF first <= Len(seq) THEN Len(seq) - first + 1 ELSE 0
      /\ \A i \in 1..(Len(seq) - first + 1) :
            SubSeq(seq, first, Len(seq))[i] = seq[first + i - 1]
  BY <1>1, SubSeqProperties
<1>3. Len(seq) - first + 1 = n /\ (first <= Len(seq) <=> n > 0)
      /\ \A i \in 1..n : first + i - 1 = Len(seq) - n + i
  BY <1>1
<1> HIDE DEF first
<1>4. QED
  BY <1>1, <1>2, <1>3 DEF Last, first

(* An export lists the end of what was reported. *)
Wanted(limit) ==
    IF limit = 0 THEN maxSize
    ELSE IF limit < 0 THEN 0 ELSE IF limit < maxSize THEN limit ELSE maxSize

Exported(limit) ==
    IF Wanted(limit) < Len(logged) THEN Wanted(limit) ELSE Len(logged)

(* The two halves of ExportIsLatest. *)
JsonIsRight ==
    LET n == Exported(exported.limit)
    IN  exported.format = "json" =>
          [i \in DOMAIN exported.events |-> exported.events[i].number]
             = [i \in 1..n |-> Len(logged) - n + i]

CsvIsRight ==
    LET n == Exported(exported.limit)
        latest == [i \in 1..n |-> Len(logged) - n + i]
    IN  exported.format = "csv" =>
          /\ [i \in DOMAIN exported.rows |-> exported.rows[i].occurredAt[1]] = latest
          /\ \A i \in DOMAIN exported.rows :
             /\ exported.rows[i].requestId # <<>> <=> logged[latest[i]].inRequest
             /\ \A field \in PayloadOf(logged[latest[i]].event) :
                    /\ field \in DOMAIN exported.rows[i]
                    /\ exported.rows[i][field] = <<latest[i]>>

(* The property, one format at a time. *)
LEMMA ExportParts == ExportIsLatest <=> JsonIsRight /\ CsvIsRight
BY DEF ExportIsLatest, JsonIsRight, CsvIsRight, Exported, Wanted

(* list(limit) is the end of everything that was reported. *)
LEMMA ListedIsLatest ==
    ASSUME AuditInv, NEW limit \in Int
    PROVE  /\ Listed(limit) \in Seq(AuditRecords)
           /\ Len(Listed(limit)) = Exported(limit)
           /\ \A i \in 1..Exported(limit) :
                 /\ Len(logged) - Exported(limit) + i \in 1..Len(logged)
                 /\ Listed(limit)[i] = logged[Len(logged) - Exported(limit) + i]
                 /\ Listed(limit)[i].number = Len(logged) - Exported(limit) + i
<1>1. /\ maxSize \in Nat /\ Len(logged) \in Nat /\ Len(events) \in Nat
      /\ events \in Seq(AuditRecords) /\ logged \in Seq(AuditRecords)
      /\ Len(events) = IF maxSize < Len(logged) THEN maxSize ELSE Len(logged)
      /\ \A i \in 1..Len(events) : events[i] = logged[Len(logged) - Len(events) + i]
      /\ \A i \in 1..Len(logged) : logged[i].number = i
  <2>1. AuditTypesOK /\ Buffered
    BY DEF AuditInv
  <2>2. maxSize \in Nat /\ events \in Seq(AuditRecords) /\ logged \in Seq(AuditRecords)
    BY <2>1 DEF AuditTypesOK
  <2>3. Len(logged) \in Nat /\ Len(events) \in Nat
    BY <2>2
  <2>4. QED
    BY <2>1, <2>2, <2>3, Zenon DEF Buffered
<1> DEFINE n == Exported(limit)
<1>2. n \in 0..Len(events)
      /\ n = IF limit = 0 \/ limit >= Len(events) THEN Len(events)
             ELSE IF limit < 0 THEN 0 ELSE limit
  BY <1>1 DEF Exported, Wanted
<1>3. /\ Listed(limit) \in Seq(AuditRecords) /\ Len(Listed(limit)) = n
      /\ \A i \in 1..n : Listed(limit)[i] = events[Len(events) - n + i]
  <2>1. CASE limit = 0 \/ limit >= Len(events)
    <3>1. n = Len(events) /\ Listed(limit) = events
      BY <1>2, <2>1 DEF Listed
    <3>2. \A i \in 1..n : Len(events) - n + i = i
      BY <1>1, <3>1
    <3> HIDE DEF n
    <3>3. QED
      BY <1>1, <3>1, <3>2
  <2>2. CASE limit < 0 /\ ~(limit >= Len(events))
    <3>1. n = 0 /\ Listed(limit) = <<>>
      BY <1>1, <1>2, <2>2 DEF Listed
    <3> HIDE DEF n
    <3>2. QED
      BY <3>1
  <2>3. CASE limit > 0 /\ ~(limit >= Len(events))
    <3>1. n = limit /\ Listed(limit) = Last(events, limit) /\ limit \in 0..Len(events)
      BY <1>1, <1>2, <2>3 DEF Listed
    <3> HIDE DEF n
    <3>2. /\ Last(events, limit) \in Seq(AuditRecords)
          /\ Len(Last(events, limit)) = limit
          /\ \A i \in 1..limit : Last(events, limit)[i] = events[Len(events) - limit + i]
      BY <1>1, <3>1, LastElements
    <3>3. QED
      BY <3>1, <3>2
  <2>4. QED
    BY <1>1, <2>1, <2>2, <2>3
<1> HIDE DEF n
<1>4. ASSUME NEW i \in 1..n
      PROVE  /\ Len(logged) - n + i \in 1..Len(logged)
             /\ Listed(limit)[i] = logged[Len(logged) - n + i]
  <2>1. /\ Len(events) - n + i \in 1..Len(events)
        /\ Len(logged) - Len(events) + (Len(events) - n + i) = Len(logged) - n + i
        /\ Len(logged) - n + i \in 1..Len(logged)
    <3> DEFINE e == Len(events)
               g == Len(logged)
    <3>1. e \in Nat /\ g \in Nat /\ e <= g /\ n \in 0..e /\ i \in 1..n
      BY <1>1, <1>2
    <3> HIDE DEF e, g
    <3>2. e - n + i \in 1..e /\ g - e + (e - n + i) = g - n + i /\ g - n + i \in 1..g
      BY <3>1
    <3>3. QED
      BY <3>2 DEF e, g
  <2>2. QED
    BY <1>1, <1>3, <2>1
<1>5. QED
  BY <1>1, <1>3, <1>4 DEF n

(* What is reported goes to the end of the buffer and pushes out its start.  *)
LEMMA LogKeepsBuffer ==
    ASSUME AuditInv, NEW event \in LoggedEvents, NEW inRequest \in BOOLEAN,
           Log(event, inRequest)
    PROVE  AuditInv'
<1> DEFINE r == Record(event, inRequest)
           all == Append(events, r)
           n == Len(logged)
           k == Len(events)
<1>1. /\ maxSize \in Nat /\ n \in Nat /\ k \in Nat /\ k <= n
      /\ events \in Seq(AuditRecords) /\ logged \in Seq(AuditRecords)
      /\ k = IF maxSize < n THEN maxSize ELSE n
      /\ \A i \in 1..k : events[i] = logged[n - k + i]
      /\ \A i \in 1..n : logged[i].number = i
  <2>1. AuditTypesOK /\ Buffered
    BY DEF AuditInv
  <2>2. /\ maxSize \in Nat /\ n \in Nat /\ k \in Nat
        /\ k = IF maxSize < n THEN maxSize ELSE n
    BY <2>1 DEF AuditTypesOK, Buffered
  <2>3. k <= n
    BY <2>2
  <2>4. QED
    BY <2>1, <2>2, <2>3 DEF AuditTypesOK, Buffered
<1>2. r \in AuditRecords /\ r.number = n + 1
  BY <1>1 DEF Record, AuditRecords
<1>3. /\ logged' = Append(logged, r) /\ maxSize' = maxSize
      /\ events' = IF Len(all) > maxSize THEN Last(all, maxSize) ELSE all
      /\ exported'.format = "none"
  BY DEF Log
<1> HIDE DEF r
<1>4. /\ logged' \in Seq(AuditRecords) /\ Len(logged') = n + 1
      /\ \A i \in 1..n : logged'[i] = logged[i]
      /\ logged'[n + 1] = r
  BY <1>1, <1>2, <1>3
<1>5. /\ all \in Seq(AuditRecords) /\ Len(all) = k + 1
      /\ \A i \in 1..k : all[i] = events[i]
      /\ all[k + 1] = r
  BY <1>1, <1>2
<1> HIDE DEF all, n, k
<1>6. \A i \in 1..(k + 1) : all[i] = logged'[n + 1 - (k + 1) + i]
  <2>1. ASSUME NEW i \in 1..k PROVE all[i] = logged'[n + 1 - (k + 1) + i]
    <3>1. n - k + i \in 1..n /\ n + 1 - (k + 1) + i = n - k + i
      BY <1>1
    <3>2. all[i] = events[i] /\ events[i] = logged[n - k + i]
      BY <1>1, <1>5
    <3>3. logged'[n - k + i] = logged[n - k + i]
      BY <1>4, <3>1
    <3>4. QED
      BY <3>1, <3>2, <3>3
  <2>2. n + 1 - (k + 1) + (k + 1) = n + 1
    BY <1>1
  <2>3. all[k + 1] = logged'[n + 1 - (k + 1) + (k + 1)]
    BY <1>1, <1>4, <1>5, <2>2
  <2>4. ASSUME NEW i \in 1..(k + 1) PROVE i \in 1..k \/ i = k + 1
    BY <1>1, <2>4
  <2>5. QED
    BY <2>1, <2>3, <2>4
<1>7. /\ events' \in Seq(AuditRecords)
      /\ Len(events') = IF maxSize < n + 1 THEN maxSize ELSE n + 1
      /\ \A i \in 1..Len(events') : events'[i] = logged'[n + 1 - Len(events') + i]
  <2>1. CASE k + 1 > maxSize
    <3>1. /\ events' = Last(all, maxSize) /\ maxSize \in 0..Len(all)
      BY <1>1, <1>3, <1>5, <2>1
    <3>2. /\ events' \in Seq(AuditRecords) /\ Len(events') = maxSize
          /\ \A i \in 1..maxSize : events'[i] = all[k + 1 - maxSize + i]
      <4>1. /\ Last(all, maxSize) \in Seq(AuditRecords) /\ Len(Last(all, maxSize)) = maxSize
            /\ \A i \in 1..maxSize : Last(all, maxSize)[i] = all[Len(all) - maxSize + i]
        BY <1>5, <3>1, LastElements
      <4>2. QED
        BY <1>1, <1>5, <3>1, <4>1
    <3>3. ASSUME NEW i \in 1..maxSize
          PROVE  /\ k + 1 - maxSize + i \in 1..(k + 1)
                 /\ n + 1 - (k + 1) + (k + 1 - maxSize + i) = n + 1 - maxSize + i
      BY <1>1, <2>1
    <3>4. ASSUME NEW i \in 1..maxSize
          PROVE  events'[i] = logged'[n + 1 - maxSize + i]
      BY <1>6, <3>2, <3>3
    <3>5. maxSize < n + 1 \/ maxSize = n + 1
      BY <1>1, <2>1
    <3>6. QED
      BY <1>1, <3>2, <3>4, <3>5
  <2>2. CASE ~(k + 1 > maxSize)
    <3>1. events' = all /\ k + 1 = n + 1
      BY <1>1, <1>3, <1>5, <2>2
    <3>2. QED
      BY <1>1, <1>5, <1>6, <2>2, <3>1
  <2>3. QED
    BY <2>1, <2>2
<1>8. \A i \in 1..(n + 1) : logged'[i].number = i
  BY <1>1, <1>2, <1>4
<1>9. AuditTypesOK' /\ Buffered'
  <2>1. AuditTypesOK'
    BY <1>1, <1>3, <1>4, <1>7 DEF AuditTypesOK
  <2>2. Len(logged') = n + 1 /\ maxSize' = maxSize
    BY <1>3, <1>4
  <2>3. Buffered'
    <3>1. \A i \in 1..Len(logged') : logged'[i].number = i
      BY <1>8, <2>2
    <3>2. Len(events') = IF maxSize' < Len(logged') THEN maxSize' ELSE Len(logged')
      BY <1>7, <2>2
    <3>3. \A i \in 1..Len(events') : events'[i] = logged'[Len(logged') - Len(events') + i]
      BY <1>1, <1>7, <2>2
    <3>4. QED
      BY <3>1, <3>2, <3>3 DEF Buffered
  <2>4. QED
    BY <2>1, <2>3
<1>10. ExportIsLatest'
  BY <1>3 DEF ExportIsLatest
<1>11. QED
  BY <1>9, <1>10 DEF AuditInv

(* An export changes nothing else. *)
LEMMA ExportKeepsBuffer ==
    ASSUME AuditInv, UNCHANGED <<events, maxSize, logged>>
    PROVE  AuditTypesOK' /\ Buffered'
BY DEF AuditInv, AuditTypesOK, Buffered

(* exportJson keeps the invariant. *)
LEMMA JsonIsLatest ==
    ASSUME AuditInv, NEW limit \in Limits, ExportJson(limit)
    PROVE  AuditInv'
<1> DEFINE n == Exported(limit)
           latest == [i \in 1..n |-> Len(logged) - n + i]
<1>1. limit \in Int
  BY AuditAssumption
<1>2. /\ exported' = [format |-> "json", limit |-> limit, events |-> Listed(limit)]
      /\ UNCHANGED <<events, maxSize, logged>>
  BY DEF ExportJson
<1>3. [i \in DOMAIN Listed(limit) |-> Listed(limit)[i].number] = latest
  <2>1. Listed(limit) \in Seq(AuditRecords) /\ Len(Listed(limit)) = n
        /\ \A i \in 1..n : Listed(limit)[i].number = Len(logged) - n + i
    BY <1>1, ListedIsLatest
  <2>2. DOMAIN Listed(limit) = 1..n
    BY <2>1
  <2> HIDE DEF n
  <2>3. QED
    BY <2>1, <2>2
<1>4. ExportIsLatest'
  BY <1>2, <1>3 DEF ExportIsLatest, Exported, Wanted
<1>5. QED
  BY <1>2, <1>4, ExportKeepsBuffer DEF AuditInv

(* The requestId cell of a record is empty exactly when no request reported it. *)
LEMMA RequestIdIsThere ==
    ASSUME NEW r
    PROVE  RequestIdOf(r) # <<>> <=> r.inRequest
<1>1. <<r.number>> # <<>>
  <2>1. Len(<<r.number>>) = 1 /\ Len(<<>>) = 0
    OBVIOUS
  <2>2. QED
    BY <2>1
<1>2. CASE r.inRequest
  <2>1. RequestIdOf(r) = <<r.number>>
    BY <1>2 DEF RequestIdOf
  <2>2. QED
    BY <1>1, <1>2, <2>1
<1>3. CASE ~r.inRequest
  <2>1. RequestIdOf(r) = <<>>
    BY <1>3 DEF RequestIdOf
  <2>2. QED
    BY <1>3, <2>1
<1>4. QED
  BY <1>2, <1>3

(* exportCsv keeps the invariant: the headers are the union of the payloads. *)
LEMMA CsvIsLatest ==
    ASSUME AuditInv, NEW limit \in Limits, ExportCsv(limit)
    PROVE  AuditInv'
<1> DEFINE n == Exported(limit)
           latest == [i \in 1..n |-> Len(logged) - n + i]
           records == Listed(limit)
           headers == {"event", "requestId", "occurredAt"} \cup
                      UNION {PayloadOf(records[i].event) : i \in DOMAIN records}
           Cell(r, header) ==
               CASE header = "event"              -> <<r.event>>
                 [] header = "requestId"          -> RequestIdOf(r)
                 [] header = "occurredAt"         -> <<r.number>>
                 [] header \in PayloadOf(r.event) -> <<r.number>>
                 [] OTHER                         -> <<>>
           sheet == [i \in DOMAIN records |-> [header \in headers |-> Cell(records[i], header)]]
<1>1. limit \in Int
  BY AuditAssumption
<1>2. /\ exported' = [format |-> "csv", limit |-> limit, rows |-> sheet]
      /\ UNCHANGED <<events, maxSize, logged>>
  BY DEF ExportCsv
<1>3. /\ DOMAIN records = 1..n /\ DOMAIN sheet = 1..n
      /\ \A i \in 1..n : records[i] = logged[latest[i]] /\ records[i].number = latest[i]
  <2>1. records \in Seq(AuditRecords) /\ Len(records) = n
        /\ \A i \in 1..n : /\ records[i] = logged[Len(logged) - n + i]
                           /\ records[i].number = Len(logged) - n + i
    BY <1>1, ListedIsLatest
  <2>2. QED
    BY <2>1
<1> HIDE DEF n, latest, records
<1>4. ASSUME NEW i \in 1..n, NEW header \in headers
      PROVE  sheet[i][header] = Cell(records[i], header) /\ DOMAIN sheet[i] = headers
  BY <1>3
<1>5. \A i \in 1..n : sheet[i]["occurredAt"] = <<records[i].number>>
  <2>1. "occurredAt" \in headers
    OBVIOUS
  <2>2. QED
    BY <1>4, <2>1
<1>6. ASSUME NEW i \in 1..n, NEW field \in PayloadOf(records[i].event)
      PROVE  field \in DOMAIN sheet[i] /\ sheet[i][field] = <<records[i].number>>
  <2>1. field \in headers /\ field \notin {"event", "requestId", "occurredAt"}
    BY <1>3, PayloadHasNoOwnColumn DEF OwnColumns
  <2>2. QED
    BY <1>4, <2>1
<1>7. ASSUME NEW i \in 1..n
      PROVE  sheet[i].requestId # <<>> <=> logged[latest[i]].inRequest
  <2>1. sheet[i]["requestId"] = Cell(records[i], "requestId")
    <3>1. "requestId" \in headers
      OBVIOUS
    <3> HIDE DEF sheet, headers, Cell
    <3>2. QED
      BY <1>4, <3>1
  <2>2. Cell(records[i], "requestId") = RequestIdOf(records[i])
    <3>1. "requestId" \notin PayloadOf(records[i].event)
      BY <1>3, PayloadHasNoOwnColumn DEF OwnColumns
    <3> HIDE DEF sheet, headers, records
    <3>2. QED
      BY <3>1
  <2>3. records[i] = logged[latest[i]]
    BY <1>3
  <2> HIDE DEF sheet, headers, Cell
  <2>4. QED
    BY <2>1, <2>2, <2>3, RequestIdIsThere
<1> HIDE DEF sheet
<1>8. [i \in DOMAIN sheet |-> sheet[i].occurredAt[1]] = latest
  BY <1>3, <1>5 DEF latest
<1>9. ExportIsLatest'
  <2>1. exported'.format = "csv" /\ exported'.limit = limit /\ exported'.rows = sheet
    BY <1>2
  <2>2. Exported(limit)' = n
    BY <1>2 DEF Exported, Wanted, n
  <2>3. CsvIsRight' /\ JsonIsRight'
    BY <1>2, <1>3, <1>6, <1>7, <1>8, <2>1, <2>2 DEF CsvIsRight, JsonIsRight, latest
  <2>4. ExportIsLatest' <=> JsonIsRight' /\ CsvIsRight'
    BY ExportParts, PTL
  <2>5. QED
    BY <2>3, <2>4
<1>10. QED
  BY <1>2, <1>9, ExportKeepsBuffer DEF AuditInv

(* A restarted process has reported nothing yet. *)
LEMMA RestartIsEmpty == AuditTypesOK /\ RestartProcess => AuditInv'
<1> SUFFICES ASSUME AuditTypesOK, RestartProcess PROVE AuditInv'
  OBVIOUS
<1>1. /\ events' = <<>> /\ logged' = <<>> /\ maxSize' = maxSize /\ maxSize \in Nat
      /\ exported'.format = "none"
  BY DEF RestartProcess, AuditTypesOK
<1>2. AuditTypesOK' /\ Buffered'
  BY <1>1 DEF AuditTypesOK, Buffered
<1>3. ExportIsLatest'
  BY <1>1 DEF ExportIsLatest
<1>4. QED
  BY <1>2, <1>3 DEF AuditInv

(* The buffer of a process that has just started. *)
LEMMA AuditInitially == AuditInit => AuditInv
<1> SUFFICES ASSUME AuditInit PROVE AuditInv
  OBVIOUS
<1>1. /\ events = <<>> /\ logged = <<>> /\ maxSize \in Nat
      /\ exported.format = "none"
  BY AuditAssumption DEF AuditInit
<1>2. AuditTypesOK /\ Buffered
  BY <1>1 DEF AuditTypesOK, Buffered
<1>3. ExportIsLatest
  BY <1>1 DEF ExportIsLatest
<1>4. QED
  BY <1>2, <1>3 DEF AuditInv

(* Every step keeps the invariant. *)
LEMMA AuditStep == AuditInv /\ [AuditNext]_auditVars => AuditInv'
<1> SUFFICES ASSUME AuditInv, [AuditNext]_auditVars PROVE AuditInv'
  OBVIOUS
<1>1. CASE UNCHANGED auditVars
  <2>1. UNCHANGED <<events, maxSize, logged>> /\ exported' = exported
    BY <1>1 DEF auditVars
  <2>2. ExportIsLatest'
    <3>1. ExportIsLatest' <=> JsonIsRight' /\ CsvIsRight'
      BY ExportParts, PTL
    <3>2. Exported(exported.limit)' = Exported(exported.limit)
      BY <2>1 DEF Exported, Wanted
    <3>3. (JsonIsRight' <=> JsonIsRight) /\ (CsvIsRight' <=> CsvIsRight)
      BY <2>1, <3>2 DEF JsonIsRight, CsvIsRight
    <3>4. QED
      BY <3>1, <3>3, ExportParts DEF AuditInv
  <2>3. QED
    BY <2>1, <2>2, ExportKeepsBuffer DEF AuditInv
<1>2. AuditTypesOK
  BY DEF AuditInv
<1>3. QED
  BY <1>1, <1>2, LogKeepsBuffer, JsonIsLatest, CsvIsLatest, RestartIsEmpty DEF AuditNext

(* GET /audit/export answers with the latest events the process reported, as *)
(* many as fit AUDIT_BUFFER_SIZE and the limit asked for, in order and with  *)
(* every field of theirs, for every buffer size and limit: the ring made of  *)
(* a splice and the slice of an export leave nothing out at any boundary.    *)
THEOREM ExportsAreLatest == AuditSpec => []ExportIsLatest
<1>1. AuditInv => ExportIsLatest
  BY DEF AuditInv
<1>2. QED
  BY <1>1, AuditInitially, AuditStep, PTL DEF AuditSpec

-----------------------------------------------------------------------------
(* DEPLOYMENT, for any number of seed runs and reassignments: what a       *)
(* seeder looks up was written by a seeder before it and is never removed, *)
(* so that no run goes without it.                                         *)
DeploymentSpec == DeploymentInit /\ [][DeploymentNext]_deploymentVars

(* The rows of a seeder. *)
RowsOf(k) == {seeders[k].writes[i].row : i \in DOMAIN seeders[k].writes}

(* A row stays in the database; an assignment is there or has been replaced.*)
Stays(row) == row[1] # "vehicle_assignments"

Kept(row) ==
    \/ row \in rows
    \/ ~Stays(row) /\ \E e \in 1..3 : Assigned(row[2], e) \in rows

DeploymentTypesOK ==
    /\ run.at \in 0..15
    /\ run.step \in Nat \ {0}
    /\ run = [at |-> run.at, step |-> run.step, started |-> run.started,
              outcome |-> run.outcome]

(* The seeders a run is past have left nothing out. *)
PastIsKept ==
    \A k \in 1..15 : run.at > k \/ run.outcome = "completed" =>
        \A row \in RowsOf(k) : Kept(row)

(* Nor have the writes the seeder under way is past. *)
WrittenIsKept ==
    run.at # 0 =>
        \A i \in DOMAIN seeders[run.at].writes :
            i < run.step => Kept(seeders[run.at].writes[i].row)

DeploymentInv == DeploymentTypesOK /\ PastIsKept /\ WrittenIsKept

-----------------------------------------------------------------------------
(* What the seeders are, one by one.  Of each: the row of a write is as     *)
(* numbered, and what it looks up is a row that stays, of a seeder before   *)
(* it or of an earlier write of its own.                                    *)
Before(k) == {row \in UNION {RowsOf(j) : j \in 1..(k - 1)} : Stays(row)}

WellOrdered(seeder, before) ==
    /\ Len(seeder.writes) \in Nat
    /\ DOMAIN seeder.writes = 1..Len(seeder.writes)
    /\ \A row \in seeder.requires : Stays(row) /\ row \in before
    /\ \A i \in DOMAIN seeder.writes : \A row \in seeder.writes[i].needs :
          /\ Stays(row)
          /\ row \in before \/ \E h \in 1..(i - 1) : row = seeder.writes[h].row

(* The fifteen seeders by their numbers. *)
LEMMA SeedersAre ==
    /\ DOMAIN seeders = 1..15 /\ Len(seeders) = 15
    /\ seeders[1] = seedOrganizations /\ seeders[2] = seedPermissions
    /\ seeders[3] = seedRoles /\ seeders[4] = seedRolePermissions
    /\ seeders[5] = seedVehicles /\ seeders[6] = seedDrivers
    /\ seeders[7] = seedDemoFleetSetup /\ seeders[8] = seedTrips
    /\ seeders[9] = seedMaintenanceRecords /\ seeders[10] = seedInspections
    /\ seeders[11] = seedFuel /\ seeders[12] = seedNotificationPreferences
    /\ seeders[13] = seedNotifications /\ seeders[14] = seedIntegrations
    /\ seeders[15] = seedReminderDemoData
BY DEF seeders

(* The catalogue of permissions is a list. *)
LEMMA PermissionsAre == Len(DEFAULT_PERMISSIONS) \in Nat
BY DEF DEFAULT_PERMISSIONS

(* The rows other seeders look up, and where they come from. *)
LEMMA LookedUp ==
    /\ DemoOrganization \in RowsOf(1)
    /\ \A i \in 1..Len(DEFAULT_PERMISSIONS) :
          <<"permissions", DEFAULT_PERMISSIONS[i]>> \in RowsOf(2)
    /\ AdminRole \in RowsOf(3)
    /\ \A n \in 1..5 : DemoVehicle(n) \in RowsOf(5)
    /\ \A n \in 1..5 : DemoDriver(n) \in RowsOf(6)
    /\ Dispatcher \in RowsOf(7)
<1>1. DemoOrganization \in RowsOf(1)
  BY SeedersAre DEF RowsOf, seedOrganizations, Seeder, Upsert
<1>2. \A i \in 1..Len(DEFAULT_PERMISSIONS) :
          <<"permissions", DEFAULT_PERMISSIONS[i]>> \in RowsOf(2)
  <2>1. seeders[2].writes = UpsertAll("permissions", DEFAULT_PERMISSIONS)
    BY SeedersAre DEF seedPermissions, Seeder
  <2>2. ASSUME NEW i \in 1..Len(DEFAULT_PERMISSIONS)
        PROVE  /\ i \in DOMAIN seeders[2].writes
               /\ seeders[2].writes[i].row = <<"permissions", DEFAULT_PERMISSIONS[i]>>
    BY <2>1 DEF UpsertAll, Upsert
  <2>3. QED
    BY <2>2 DEF RowsOf
<1>3. AdminRole \in RowsOf(3)
  <2>1. /\ seeders[3].writes = [i \in 1..5 |-> Upsert(<<"roles", DEFAULT_ROLES[i]>>, {})]
        /\ DEFAULT_ROLES[1] = "admin"
    BY SeedersAre DEF seedRoles, Seeder, Strict, UpsertAll, DEFAULT_ROLES
  <2>2. 1 \in DOMAIN seeders[3].writes /\ seeders[3].writes[1].row = AdminRole
    BY <2>1 DEF Upsert, AdminRole
  <2>3. QED
    BY <2>2 DEF RowsOf
<1>4. \A n \in 1..5 : DemoVehicle(n) \in RowsOf(5)
  BY SeedersAre DEF RowsOf, seedVehicles, Seeder, Upsert, UpsertAll, DemoVehicle
<1>5. \A n \in 1..5 : DemoDriver(n) \in RowsOf(6)
  BY SeedersAre DEF RowsOf, seedDrivers, Seeder, Upsert, UpsertAll, DemoDriver
<1>6. Dispatcher \in RowsOf(7)
  BY SeedersAre DEF RowsOf, seedDemoFleetSetup, Seeder, Upsert
<1>7. QED
  BY <1>1, <1>2, <1>3, <1>4, <1>5, <1>6

(* No row that a seeder looks up is one the application may move. *)
LEMMA LookedUpStays ==
    /\ Stays(DemoOrganization) /\ Stays(AdminRole) /\ Stays(Dispatcher)
    /\ \A n : Stays(DemoVehicle(n)) /\ Stays(DemoDriver(n)) /\ Stays(DemoTrip(n))
    /\ \A p : Stays(<<"permissions", p>>)
BY DEF Stays, DemoOrganization, AdminRole, Dispatcher, DemoVehicle, DemoDriver, DemoTrip

(* The elements of a concatenation. *)
LEMMA Concatenation ==
    ASSUME NEW S, NEW s \in Seq(S), NEW t \in Seq(S)
    PROVE  /\ Len(s \o t) = Len(s) + Len(t)
           /\ DOMAIN (s \o t) = 1..(Len(s) + Len(t))
           /\ \A i \in 1..(Len(s) + Len(t)) :
                 (s \o t)[i] = IF i <= Len(s) THEN s[i] ELSE t[i - Len(s)]
OBVIOUS

(* Each seeder looks up only what is written before its turn. *)
LEMMA SeedersWellOrdered ==
    ASSUME NEW k \in 1..15
    PROVE  WellOrdered(seeders[k], Before(k))
<1>1. CASE k = 1
  BY <1>1, SeedersAre DEF WellOrdered, seedOrganizations, Seeder, Upsert
<1>2. CASE k = 2
  BY <1>2, SeedersAre, PermissionsAre DEF WellOrdered, seedPermissions, Seeder, Upsert, UpsertAll
<1>3. CASE k = 3
  BY <1>3, SeedersAre, LookedUp, LookedUpStays
     DEF WellOrdered, Before, seedRoles, Seeder, Strict, Upsert, UpsertAll, DEFAULT_ROLES
<1>4. CASE k = 4
  BY <1>4, SeedersAre, PermissionsAre, LookedUp, LookedUpStays
     DEF WellOrdered, Before, seedRolePermissions, Seeder, Strict, Upsert
<1>5. CASE k = 5
  BY <1>5, SeedersAre, LookedUp, LookedUpStays
     DEF WellOrdered, Before, seedVehicles, Seeder, Upsert, UpsertAll
<1>6. CASE k = 6
  BY <1>6, SeedersAre, LookedUp, LookedUpStays
     DEF WellOrdered, Before, seedDrivers, Seeder, Upsert, UpsertAll
<1>7. CASE k = 7
  <2>1. /\ DemoOrganization \in Before(7) /\ AdminRole \in Before(7)
        /\ \A n \in 1..5 : DemoVehicle(n) \in Before(7) /\ DemoDriver(n) \in Before(7)
    BY LookedUp, LookedUpStays DEF Before
  <2>2. QED
    BY <1>7, <2>1, SeedersAre, LookedUpStays DEF WellOrdered, seedDemoFleetSetup, Seeder, Upsert
<1>c. k > 7 => /\ DemoOrganization \in Before(k) /\ Dispatcher \in Before(k)
               /\ \A n \in 1..5 : DemoVehicle(n) \in Before(k) /\ DemoDriver(n) \in Before(k)
  BY LookedUp, LookedUpStays DEF Before
<1>8. CASE k = 8
  <2> DEFINE w == seeders[8].writes
  <2>1. /\ seeders[8].requires = OfDispatcher
        /\ DOMAIN w = 1..9 /\ Len(w) = 9
        /\ w[1].row = DemoTrip(1) /\ w[3].row = DemoTrip(2) /\ w[6].row = DemoTrip(3)
        /\ \A i \in {1, 6} : w[i].needs = {DemoVehicle(1), DemoDriver(1)}
        /\ w[3].needs = {DemoVehicle(2), DemoDriver(2)}
        /\ w[2].needs = {DemoTrip(1)}
        /\ \A i \in {4, 5} : w[i].needs = {DemoTrip(2)}
        /\ \A i \in {7, 8, 9} : w[i].needs = {DemoTrip(3)}
    BY SeedersAre DEF seedTrips, Seeder, Upsert
  <2> HIDE DEF w
  <2>2. \A i \in 1..9 : i \in {1, 6} \/ i = 3 \/ i = 2 \/ i \in {4, 5} \/ i \in {7, 8, 9}
    OBVIOUS
  <2>3. ASSUME NEW i \in 1..9, NEW row \in w[i].needs
        PROVE  Stays(row) /\ (row \in Before(8) \/ \E h \in 1..(i - 1) : row = w[h].row)
    <3>1. CASE i \in {1, 6} \/ i = 3
      BY <1>8, <1>c, <2>1, <3>1, LookedUpStays
    <3>2. CASE i = 2
      BY <2>1, <3>2, LookedUpStays
    <3>3. CASE i \in {4, 5}
      BY <2>1, <3>3, LookedUpStays
    <3>4. CASE i \in {7, 8, 9}
      BY <2>1, <3>4, LookedUpStays
    <3>5. QED
      BY <2>2, <3>1, <3>2, <3>3, <3>4
  <2>4. QED
    <3>1. /\ Len(w) \in Nat /\ DOMAIN w = 1..Len(w)
          /\ \A row \in OfDispatcher : Stays(row) /\ row \in Before(8)
      BY <1>8, <1>c, <2>1, LookedUpStays DEF OfDispatcher
    <3>2. WellOrdered(seeders[8], Before(8))
      BY <2>1, <2>3, <3>1 DEF WellOrdered, w
    <3>3. QED
      BY <1>8, <3>2
<1>9. CASE k = 9
  BY <1>9, <1>c, SeedersAre, LookedUpStays
     DEF WellOrdered, seedMaintenanceRecords, Seeder, Upsert, OfDispatcher
<1>10. CASE k = 10
  BY <1>10, <1>c, SeedersAre, LookedUpStays
     DEF WellOrdered, seedInspections, Seeder, Upsert, OfDispatcher
<1>11. CASE k = 11
  <2> DEFINE stations == UpsertAll("fuel_stations", <<"depot", "truck stop", "hub">>)
             w == stations \o DEMO_FUEL_RECORDS
  <2>1. seeders[11].requires = OfDispatcher /\ seeders[11].writes = w
    <3>1. seeders[11] = Seeder(OfDispatcher, w)
      BY SeedersAre DEF seedFuel
    <3> HIDE DEF w
    <3>2. QED
      BY <3>1 DEF Seeder
  <2>2. /\ stations = [i \in 1..3 |-> stations[i]]
        /\ \A i \in 1..3 : stations[i].needs = {}
    BY DEF UpsertAll, Upsert
  <2>3. /\ DEMO_FUEL_RECORDS = [i \in 1..7 |-> DEMO_FUEL_RECORDS[i]]
        /\ \A i \in 1..7 : \E n \in 1..5 : DEMO_FUEL_RECORDS[i].needs = {DemoVehicle(n)}
    BY DEF DEMO_FUEL_RECORDS, Upsert
  <2> HIDE DEF stations
  <2>4. /\ DOMAIN w = 1..10 /\ Len(w) = 10
        /\ \A i \in 1..10 : w[i] = IF i <= 3 THEN stations[i] ELSE DEMO_FUEL_RECORDS[i - 3]
    <3> DEFINE S == {stations[i] : i \in 1..3} \cup {DEMO_FUEL_RECORDS[i] : i \in 1..7}
    <3>1. /\ \A i \in 1..3 : stations[i] \in S
          /\ \A i \in 1..7 : DEMO_FUEL_RECORDS[i] \in S
      OBVIOUS
    <3> HIDE DEF S
    <3>2. /\ stations \in Seq(S) /\ Len(stations) = 3
          /\ DEMO_FUEL_RECORDS \in Seq(S) /\ Len(DEMO_FUEL_RECORDS) = 7
      BY <2>2, <2>3, <3>1
    <3>3. ASSUME NEW s \in Seq(S), NEW t \in Seq(S), Len(s) = 3, Len(t) = 7
          PROVE  /\ Len(s \o t) = 10 /\ DOMAIN (s \o t) = 1..10
                 /\ \A i \in 1..10 : (s \o t)[i] = IF i <= 3 THEN s[i] ELSE t[i - 3]
      <4>1. /\ Len(s \o t) = Len(s) + Len(t)
            /\ DOMAIN (s \o t) = 1..(Len(s) + Len(t))
            /\ \A i \in 1..(Len(s) + Len(t)) :
                  (s \o t)[i] = IF i <= Len(s) THEN s[i] ELSE t[i - Len(s)]
        BY Concatenation, Zenon
      <4>2. Len(s) + Len(t) = 10
        BY <3>3
      <4>3. QED
        BY <3>3, <4>1, <4>2
    <3>4. w = stations \o DEMO_FUEL_RECORDS
      OBVIOUS
    <3> HIDE DEF w
    <3>5. QED
      BY <3>2, <3>3, <3>4
  <2> HIDE DEF w
  <2>5. ASSUME NEW i \in 1..10, NEW row \in w[i].needs
        PROVE  Stays(row) /\ row \in Before(11)
    <3>1. CASE i <= 3
      BY <2>2, <2>4, <2>5, <3>1
    <3>2. CASE i > 3
      <4>1. i - 3 \in 1..7 /\ w[i] = DEMO_FUEL_RECORDS[i - 3]
        BY <2>4, <3>2
      <4>2. QED
        BY <1>11, <1>c, <2>3, <2>5, <4>1, LookedUpStays
    <3>3. QED
      BY <3>1, <3>2
  <2>6. QED
    BY <1>11, <1>c, <2>1, <2>4, <2>5, LookedUpStays DEF WellOrdered, OfDispatcher
<1>12. CASE k = 12
  BY <1>12, <1>c, SeedersAre, LookedUpStays
     DEF WellOrdered, seedNotificationPreferences, Seeder, Upsert, OfDispatcher
<1>13. CASE k = 13
  BY <1>13, <1>c, SeedersAre, LookedUpStays
     DEF WellOrdered, seedNotifications, Seeder, Upsert, UpsertAll, OfDispatcher
<1>14. CASE k = 14
  <2>1. /\ seeders[14].requires = OfDispatcher
        /\ DOMAIN seeders[14].writes = 1..2 /\ Len(seeders[14].writes) = 2
        /\ seeders[14].writes[1].needs = {} /\ seeders[14].writes[2].needs = {}
    <3> DEFINE key == Upsert(<<"api_keys", "Demo integration key">>, {})
               generated == [key EXCEPT !.generated = TRUE]
               sink == Upsert(<<"webhook_endpoints", "Demo webhook sink">>, {})
    <3>1. generated.needs = {} /\ sink.needs = {}
      BY DEF Upsert
    <3>2. seeders[14] = Seeder(OfDispatcher, <<generated, sink>>)
      BY SeedersAre DEF seedIntegrations
    <3> HIDE DEF generated, sink
    <3>3. QED
      BY <3>1, <3>2 DEF Seeder
  <2>2. QED
    BY <1>14, <1>c, <2>1, LookedUpStays DEF WellOrdered, OfDispatcher
<1>15. CASE k = 15
  BY <1>15, <1>c, SeedersAre, LookedUpStays
     DEF WellOrdered, seedReminderDemoData, Seeder, Upsert, OfDispatcher
<1>16. QED
  BY <1>1, <1>2, <1>3, <1>4, <1>5, <1>6, <1>7, <1>8, <1>9, <1>10, <1>11, <1>12, <1>13,
     <1>14, <1>15

-----------------------------------------------------------------------------
(* What a run looks up is there. *)
LEMMA NothingIsMissing ==
    ASSUME DeploymentInv, run.at # 0
    PROVE  /\ run.at \in 1..15 /\ run.step \in Nat \ {0}
           /\ Len(seeders[run.at].writes) \in Nat
           /\ DOMAIN seeders[run.at].writes = 1..Len(seeders[run.at].writes)
           /\ seeders[run.at].requires \subseteq rows
           /\ run.step \in DOMAIN seeders[run.at].writes =>
                 seeders[run.at].writes[run.step].needs \subseteq rows
<1> DEFINE k == run.at
           w == seeders[k].writes
<1>1. k \in 1..15 /\ run.step \in Nat \ {0}
  BY DEF DeploymentInv, DeploymentTypesOK
<1>2. WellOrdered(seeders[k], Before(k))
  BY <1>1, SeedersWellOrdered
<1>3. Before(k) \subseteq rows
  <2>1. ASSUME NEW j \in 1..(k - 1), NEW row \in RowsOf(j), Stays(row)
        PROVE  row \in rows
    <3>1. j \in 1..15 /\ k > j
      BY <1>1
    <3>2. Kept(row)
      BY <2>1, <3>1 DEF DeploymentInv, PastIsKept
    <3>3. QED
      BY <2>1, <3>2 DEF Kept
  <2>2. QED
    BY <2>1 DEF Before
<1>4. \A h \in DOMAIN w : h < run.step /\ Stays(w[h].row) => w[h].row \in rows
  BY <1>1 DEF DeploymentInv, WrittenIsKept, Kept
<1> HIDE DEF k, w
<1>5. /\ Len(w) \in Nat /\ DOMAIN w = 1..Len(w)
      /\ seeders[k].requires \subseteq rows
      /\ \A i \in DOMAIN w : \A row \in w[i].needs :
            /\ Stays(row)
            /\ row \in rows \/ \E h \in 1..(i - 1) : row = w[h].row
  BY <1>2, <1>3 DEF WellOrdered, w
<1>6. ASSUME run.step \in DOMAIN w, NEW row \in w[run.step].needs
      PROVE  row \in rows
  <2>1. CASE \E h \in 1..(run.step - 1) : row = w[h].row
    <3>1. PICK h \in 1..(run.step - 1) : row = w[h].row
      BY <2>1
    <3>2. h \in DOMAIN w /\ h < run.step
      BY <1>1, <1>5, <1>6, <3>1
    <3>3. QED
      BY <1>4, <1>5, <1>6, <3>1, <3>2
  <2>2. QED
    BY <1>5, <1>6, <2>1
<1>7. QED
  BY <1>1, <1>5, <1>6 DEF k, w

(* Rows that are there stay there: what was kept is. *)
LEMMA MoreRowsKeep ==
    ASSUME rows \subseteq rows', NEW row, Kept(row)
    PROVE  Kept(row)'
BY DEF Kept

(* A demo assignment the application replaces has another in its place. *)
LEMMA ReassignKeeps ==
    ASSUME NEW v, NEW d, NEW e \in 1..3, Reassign(v, d, e), NEW row, Kept(row)
    PROVE  Kept(row)'
<1>1. rows' = (rows \ {Assigned(v, d)}) \cup {Assigned(v, e)}
  BY DEF Reassign
<1>2. /\ ~Stays(Assigned(v, d)) /\ Assigned(v, d)[2] = v
      /\ \A w, f : Assigned(w, f) = Assigned(v, d) => w = v
  BY DEF Stays, Assigned
<1>3. CASE row \in rows
  <2>1. CASE row = Assigned(v, d)
    BY <1>1, <1>2, <2>1 DEF Kept
  <2>2. CASE row # Assigned(v, d)
    BY <1>1, <1>3, <2>2 DEF Kept
  <2>3. QED
    BY <2>1, <2>2
<1>4. CASE ~Stays(row) /\ \E f \in 1..3 : Assigned(row[2], f) \in rows
  <2>1. PICK f \in 1..3 : Assigned(row[2], f) \in rows
    BY <1>4
  <2>2. CASE Assigned(row[2], f) = Assigned(v, d)
    <3>1. row[2] = v
      BY <1>2, <2>2
    <3>2. QED
      BY <1>1, <1>4, <3>1 DEF Kept
  <2>3. CASE Assigned(row[2], f) # Assigned(v, d)
    BY <1>1, <1>4, <2>1, <2>3 DEF Kept
  <2>4. QED
    BY <2>2, <2>3
<1>5. QED
  BY <1>3, <1>4 DEF Kept

(* Whatever keeps the rows and leaves the run alone, or ends it short of    *)
(* its completion, leaves the invariant.                                    *)
LEMMA StandsStill ==
    ASSUME DeploymentInv, \A row : Kept(row) => Kept(row)',
           \/ run' = run
           \/ \E outcome \in {"threw", "interrupted"} : Stop(outcome)
    PROVE  DeploymentInv'
<1>1. CASE run' = run
  BY <1>1 DEF DeploymentInv, DeploymentTypesOK, PastIsKept, WrittenIsKept
<1>2. CASE \E outcome \in {"threw", "interrupted"} : Stop(outcome)
  <2>1. PICK outcome \in {"threw", "interrupted"} : Stop(outcome)
    BY <1>2
  <2>2. /\ run'.at = 0 /\ run'.step = run.step /\ run'.outcome = outcome
        /\ run' = [at |-> run'.at, step |-> run'.step, started |-> run'.started,
                   outcome |-> run'.outcome]
    BY <2>1 DEF Stop, DeploymentInv, DeploymentTypesOK
  <2>3. run'.at <= 15 /\ run'.outcome # "completed" /\ \A k \in 1..15 : ~(run'.at > k)
    BY <2>2
  <2>4. QED
    BY <2>2, <2>3 DEF DeploymentInv, DeploymentTypesOK, PastIsKept, WrittenIsKept
<1>3. QED
  BY <1>1, <1>2

(* A step of the seeder under way. *)
LEMMA SeedStepKeeps ==
    ASSUME DeploymentInv, SeedStep
    PROVE  DeploymentInv'
<1>e. \E k, w : k = run.at /\ w = seeders[k].writes
  <2>1. run.at = run.at /\ seeders[run.at].writes = seeders[run.at].writes
    OBVIOUS
  <2>2. QED
    BY <2>1, Zenon
<1>0. PICK k, w : k = run.at /\ w = seeders[k].writes
  BY <1>e
<1>1. k # 0
  <2>0. run.at \in DOMAIN seeders
    BY DEF SeedStep
  <2>1. run.at # 0
    BY <2>0, SeedersAre
  <2>2. QED
    BY <1>0, <2>1
<1>2. /\ k \in 1..15 /\ run.step \in Nat \ {0}
      /\ Len(w) \in Nat /\ DOMAIN w = 1..Len(w)
      /\ seeders[k].requires \subseteq rows
      /\ run.step \in DOMAIN w => w[run.step].needs \subseteq rows
  BY <1>0, <1>1, NothingIsMissing
<1>i. k \in 1..15
  BY <1>2
<1>3. /\ rows \subseteq rows'
      /\ \/ run.step > Len(w) /\ NextSeeder
         \/ Stop("threw")
         \/ run.step \in DOMAIN w /\ NextWrite /\ w[run.step].row \in rows'
  BY <1>0, <1>2 DEF SeedStep
<1>4. \A row : Kept(row) => Kept(row)'
  BY <1>3, MoreRowsKeep
<1>5. CASE Stop("threw")
  BY <1>4, <1>5, StandsStill
<1>6. CASE run.step > Len(w) /\ NextSeeder
  <2>1. \A row \in RowsOf(k) : Kept(row)
    BY <1>0, <1>1, <1>2, <1>6 DEF DeploymentInv, WrittenIsKept, RowsOf
  <2>2. ASSUME NEW j \in 1..15, j <= k, NEW row \in RowsOf(j) PROVE Kept(row)'
    <3>1. j = k \/ k > j
      BY <1>i, <2>2
    <3>2. QED
      BY <1>0, <1>4, <2>1, <2>2, <3>1 DEF DeploymentInv, PastIsKept
  <2>3. CASE k = 15
    <3>1. /\ run'.at = 0 /\ run'.step = run.step
          /\ run' = [at |-> run'.at, step |-> run'.step, started |-> run'.started,
                     outcome |-> run'.outcome]
      BY <1>0, <1>6, <2>3, SeedersAre DEF NextSeeder, Stop, DeploymentInv, DeploymentTypesOK
    <3>2. QED
      BY <1>2, <2>2, <2>3, <3>1 DEF DeploymentInv, DeploymentTypesOK, PastIsKept, WrittenIsKept
  <2>4. CASE k # 15
    <3>1. /\ run'.at = k + 1 /\ run'.step = 1 /\ run'.outcome = run.outcome
          /\ run' = [at |-> run'.at, step |-> run'.step, started |-> run'.started,
                     outcome |-> run'.outcome]
      BY <1>0, <1>6, <2>4, SeedersAre DEF NextSeeder, DeploymentInv, DeploymentTypesOK
    <3>2. DeploymentTypesOK'
      <4>1. k + 1 \in 0..15 /\ 1 \in Nat \ {0}
        BY <1>i, <2>4
      <4>2. QED
        BY <3>1, <4>1 DEF DeploymentTypesOK
    <3>3. PastIsKept'
      <4>1. \A j \in 1..15 : k + 1 > j => j <= k
        BY <1>i
      <4>2. QED
        BY <1>0, <1>4, <2>2, <3>1, <4>1 DEF DeploymentInv, PastIsKept
    <3>4. WrittenIsKept'
      <4>1. 1..15 \subseteq Nat /\ k + 1 \in 1..15
        BY <1>i, <2>4
      <4>2. DOMAIN seeders[k + 1].writes = 1..Len(seeders[k + 1].writes)
        BY <4>1, SeedersWellOrdered DEF WellOrdered
      <4>3. QED
        BY <3>1, <4>2 DEF WrittenIsKept
    <3>5. QED
      BY <3>2, <3>3, <3>4 DEF DeploymentInv
  <2>5. QED
    BY <2>3, <2>4
<1>7. CASE run.step \in DOMAIN w /\ NextWrite /\ w[run.step].row \in rows'
  <2>1. /\ run'.at = k /\ run'.step = run.step + 1 /\ run'.outcome = run.outcome
        /\ run' = [at |-> run'.at, step |-> run'.step, started |-> run'.started,
                   outcome |-> run'.outcome]
    BY <1>0, <1>7 DEF NextWrite, DeploymentInv, DeploymentTypesOK
  <2>2. DeploymentTypesOK'
    BY <1>0, <1>2, <2>1 DEF DeploymentTypesOK
  <2>3. PastIsKept'
    BY <1>0, <1>4, <2>1 DEF DeploymentInv, PastIsKept
  <2>4. WrittenIsKept'
    <3>1. ASSUME NEW i \in DOMAIN w, i < run.step + 1
          PROVE  Kept(w[i].row)'
      <4>1. CASE i = run.step
        <5>1. w[i].row \in rows'
          BY <1>7, <4>1
        <5>2. QED
          BY <5>1 DEF Kept
      <4>2. CASE i < run.step
        BY <1>0, <1>1, <1>4, <4>2 DEF DeploymentInv, WrittenIsKept
      <4>3. QED
        BY <1>2, <3>1, <4>1, <4>2
    <3>2. QED
      BY <1>0, <2>1, <3>1 DEF WrittenIsKept
  <2>5. QED
    BY <2>2, <2>3, <2>4 DEF DeploymentInv
<1>8. QED
  BY <1>3, <1>5, <1>6, <1>7

(* A run starts, with nothing behind it. *)
LEMMA StartKeeps ==
    ASSUME DeploymentInv, StartSeed
    PROVE  DeploymentInv'
<1>1. /\ run' = [at |-> 1, step |-> 1, started |-> run.started + 1, outcome |-> "running"]
      /\ rows' = rows
  BY DEF StartSeed
<1>2. /\ run'.at = 1 /\ run'.step = 1 /\ run'.outcome = "running"
  BY <1>1
<1>3. DeploymentTypesOK'
  BY <1>1, <1>2 DEF DeploymentTypesOK
<1>4. PastIsKept'
  BY <1>2 DEF PastIsKept
<1>5. DOMAIN seeders[1].writes = 1..Len(seeders[1].writes)
  BY SeedersWellOrdered DEF WellOrdered
<1>6. WrittenIsKept'
  BY <1>2, <1>5 DEF WrittenIsKept
<1>7. QED
  BY <1>3, <1>4, <1>6 DEF DeploymentInv

(* An empty database. *)
LEMMA DeploymentInitially == DeploymentInit => DeploymentInv
<1> SUFFICES ASSUME DeploymentInit PROVE DeploymentInv
  OBVIOUS
<1>1. /\ run = [at |-> 0, step |-> 1, started |-> 0, outcome |-> "none"]
      /\ run.at = 0 /\ run.step = 1 /\ run.outcome = "none"
  BY DEF DeploymentInit
<1>2. QED
  BY <1>1 DEF DeploymentInv, DeploymentTypesOK, PastIsKept, WrittenIsKept

(* Every step keeps the invariant. *)
LEMMA DeploymentStep == DeploymentInv /\ [DeploymentNext]_deploymentVars => DeploymentInv'
<1> SUFFICES ASSUME DeploymentInv, [DeploymentNext]_deploymentVars PROVE DeploymentInv'
  OBVIOUS
<1>1. CASE Migrate \/ UNCHANGED deploymentVars
  <2>1. rows' = rows /\ run' = run
    BY <1>1 DEF Migrate, deploymentVars
  <2>2. QED
    BY <2>1, StandsStill DEF Kept
<1>2. CASE InterruptSeed
  <2>1. rows' = rows /\ Stop("interrupted")
    BY <1>2 DEF InterruptSeed
  <2>2. QED
    BY <2>1, StandsStill DEF Kept
<1>3. ASSUME NEW v \in 1..2, NEW d \in 1..3, NEW e \in 1..3, Reassign(v, d, e)
      PROVE  DeploymentInv'
  <2>1. run' = run
    BY <1>3 DEF Reassign
  <2>2. \A row : Kept(row) => Kept(row)'
    BY <1>3, ReassignKeeps
  <2>3. QED
    BY <2>1, <2>2, StandsStill
<1>4. QED
  BY <1>1, <1>2, <1>3, StartKeeps, SeedStepKeeps DEF DeploymentNext

(* The demo data come out whole: a run that is past a seeder, or completed, *)
(* has all its rows, whatever runs broke off before it and whatever the     *)
(* application has made of the assignments since, for any number of runs    *)
(* and reassignments.  No seeder ever goes without what it looks up.        *)
THEOREM SeedIsWhole == DeploymentSpec => []SeedLeavesNothingOut
<1>1. DeploymentInv => SeedLeavesNothingOut
  <2> SUFFICES ASSUME DeploymentInv, NEW k \in DOMAIN seeders,
                      run.at > k \/ run.outcome = "completed",
                      NEW i \in DOMAIN seeders[k].writes
               PROVE  LET row == seeders[k].writes[i].row
                      IN  row \in rows \/ \E other \in rows : Clash(other, row)
    BY DEF SeedLeavesNothingOut
  <2> DEFINE row == seeders[k].writes[i].row
  <2>1. Kept(row)
    BY SeedersAre DEF DeploymentInv, PastIsKept, RowsOf
  <2> HIDE DEF row
  <2>2. CASE row \notin rows
    <3>1. PICK e : row[1] = "vehicle_assignments" /\ Assigned(row[2], e) \in rows
      BY <2>1, <2>2 DEF Kept, Stays
    <3>2. Clash(Assigned(row[2], e), row)
      BY <2>2, <3>1 DEF Clash, Assigned
    <3>3. QED
      BY <3>1, <3>2 DEF row
  <2>3. QED
    BY <2>2 DEF row
<1>2. QED
  BY <1>1, DeploymentInitially, DeploymentStep, PTL DEF DeploymentSpec
-----------------------------------------------------------------------------
(***************************************************************************)
(* ACCESS, for any set of requests, routes and grantable roles.  The       *)
(* guards read tables that change under them; the invariant says of a      *)
(* request in flight that whatever a read has established, held at a       *)
(* moment since the request arrived.                                       *)
(***************************************************************************)
AccessSpec == AccessInit /\ [][AccessNext]_accessVars

RequestStates == {"idle", "validate", "admin", "permissions", "findKey", "touch",
                  "allowed", "denied"}

Entitlable == Grantable \cup {Active, Admin, GoodKey}

RequestRow ==
    [pc : RequestStates, route : Asked \cup {Public}, own : BOOLEAN,
     pending : SUBSET Grantable, claims : SUBSET Roles, was : SUBSET Entitlable]

(* The request is past the check that its organization is the caller's.    *)
InScope(q) ==
    /\ q.route.guard \notin {"public", "apiKey"}
    /\ Active \in q.was
    /\ q.route.guard = "scoped" => q.own

Entitled(q) ==
    CASE q.route.guard = "public" -> TRUE
      [] q.route.guard = "apiKey" -> GoodKey \in q.was
      [] OTHER -> /\ Active \in q.was
                  /\ Admin \in q.was \/ q.route.needs \subseteq q.was
                  /\ q.route.guard = "scoped" => q.own

(* What the reads so far have established.                                 *)
Established(q) ==
    /\ q.pc = "validate" => q.route.guard \notin {"public", "apiKey"}
    /\ q.pc \in {"validate", "admin"} => q.pending = q.route.needs
    /\ q.pc \in {"admin", "permissions"} => InScope(q)
    /\ q.pc = "permissions" => q.route.needs \ q.pending \subseteq q.was
    /\ q.pc \in {"findKey", "touch"} => q.route.guard = "apiKey"
    /\ q.pc = "touch" => GoodKey \in q.was
    /\ q.pc = "allowed" => Entitled(q)

(* "now" is what the caller is entitled to at the moment.                  *)
CallerOK(q, now) ==
    /\ q \in RequestRow
    /\ q.pc \notin {"idle", "allowed", "denied"} => now \subseteq q.was
    /\ Established(q)

AccessInv ==
    /\ request \in [Requests -> RequestRow]
    /\ \A r \in Requests : CallerOK(request[r], Now)

(* What the caller is entitled to, as the guards ask for it. *)
LEMMA Entitling ==
    /\ member => Active \in Now
    /\ "admin" \in userRole => Admin \in Now
    /\ apiKey.isActive /\ ~apiKey.expired => GoodKey \in Now
BY DEF Now, Entitlements

(* What one can be entitled to is a set of pairs. *)
LEMMA EntitlementsArePairs ==
    ASSUME NEW m, NEW roles, NEW grants, NEW key
    PROVE  Entitlements(m, roles, grants, key) \subseteq Entitlable
BY DEF Entitlements, Entitlable

(* A request knows more the longer it is there. *)
LEMMA KnowsMore ==
    ASSUME NEW q \in RequestRow, Established(q), NEW now \in SUBSET Entitlable
    PROVE  CallerOK([q EXCEPT !.was = @ \cup now], now)
<1> DEFINE w == [q EXCEPT !.was = @ \cup now]
<1>1. /\ w \in RequestRow /\ w.was = q.was \cup now
      /\ w.pc = q.pc /\ w.route = q.route /\ w.own = q.own /\ w.pending = q.pending
  BY DEF RequestRow
<1> HIDE DEF w
<1>2. InScope(q) => InScope(w)
  BY <1>1 DEF InScope
<1>3. Entitled(q) => Entitled(w)
  BY <1>1 DEF Entitled
<1>4. Established(w)
  BY <1>1, <1>2, <1>3 DEF Established
<1>5. CallerOK(w, now)
  BY <1>1, <1>4 DEF CallerOK
<1>6. QED
  BY <1>5 DEF w

(* A write to the tables is witnessed by the requests in flight. *)
LEMMA ChangeStep ==
    ASSUME AccessInv, NEW m, NEW roles, NEW grants, NEW key,
           Change(m, roles, grants, key)
    PROVE  AccessInv'
<1> DEFINE now == Entitlements(m, roles, grants, key)
           resting(r) == request[r].pc \in {"idle", "allowed", "denied"}
           new(r) == IF resting(r) THEN request[r]
                     ELSE [request[r] EXCEPT !.was = @ \cup now]
<1>1. Now' = now /\ now \subseteq Entitlable /\ request' = [r \in Requests |-> new(r)]
  BY EntitlementsArePairs DEF Change, Now
<1>2. ASSUME NEW r \in Requests PROVE CallerOK(new(r), now)
  <2>1. CallerOK(request[r], Now) /\ request[r] \in RequestRow /\ Established(request[r])
    BY DEF AccessInv, CallerOK
  <2>2. CASE resting(r)
    BY <2>1, <2>2 DEF CallerOK
  <2>3. CASE ~resting(r)
    <3>1. CallerOK([request[r] EXCEPT !.was = @ \cup now], now)
      BY <1>1, <2>1, KnowsMore
    <3>2. QED
      BY <2>3, <3>1
  <2>4. QED
    BY <2>2, <2>3
<1> HIDE DEF new, now, resting
<1>3. \A r \in Requests : new(r) \in RequestRow
  BY <1>2 DEF CallerOK
<1>4. QED
  BY <1>1, <1>2, <1>3 DEF AccessInv

(* A step of one request, which writes no table. *)
LEMMA OneRequest ==
    ASSUME AccessInv, NEW r \in Requests, NEW q, CallerOK(q, Now),
           request' = [request EXCEPT ![r] = q],
           UNCHANGED <<member, userRole, rolePermission, apiKey>>
    PROVE  AccessInv'
<1>1. Now' = Now
  BY DEF Now
<1>2. q \in RequestRow
  BY DEF CallerOK
<1>3. QED
  BY <1>1, <1>2 DEF AccessInv

(* The guard of a route decides where its request begins. *)
LEMMA ArriveStep ==
    ASSUME AccessInv, NEW r \in Requests, NEW route \in Asked, NEW own \in BOOLEAN,
           NEW claims \in SUBSET {"admin"}, Arrive(r, route, own, claims)
    PROVE  AccessInv'
<1> DEFINE entry == CASE route.guard = "public" -> "allowed"
                      [] route.guard = "apiKey" -> "findKey"
                      [] OTHER                  -> "validate"
           q == [pc |-> entry, route |-> route, own |-> own, pending |-> route.needs,
                 claims |-> claims, was |-> Now]
<1>1. /\ request' = [request EXCEPT ![r] = q]
      /\ UNCHANGED <<member, userRole, rolePermission, apiKey>>
  BY DEF Arrive
<1>2. Now \subseteq Entitlable
  BY EntitlementsArePairs DEF Now
<1>3. /\ entry \in {"allowed", "findKey", "validate"}
      /\ entry = "allowed" => route.guard = "public"
      /\ entry = "findKey" => route.guard = "apiKey"
      /\ entry = "validate" => route.guard \notin {"public", "apiKey"}
  OBVIOUS
<1>4. route.needs \subseteq Grantable
  BY DEF Grantable
<1> HIDE DEF entry
<1>5. q \in RequestRow
  BY <1>2, <1>3, <1>4 DEF RequestRow, RequestStates, Roles
<1>6. Established(q)
  BY <1>3 DEF Established, Entitled
<1>7. CallerOK(q, Now)
  BY <1>5, <1>6 DEF CallerOK
<1> HIDE DEF q
<1>8. QED
  BY <1>1, <1>7, OneRequest

(* A request that moves its program counter needs only what it has now     *)
(* established.                                                            *)
LEMMA AdvanceStep ==
    ASSUME AccessInv, NEW r \in Requests, NEW from, NEW to \in RequestStates \ {"idle"},
           from \notin {"idle", "allowed", "denied"},
           Advance(r, from, to),
           Now \subseteq request[r].was =>
               Established([request[r] EXCEPT !.pc = to])
    PROVE  AccessInv'
<1> DEFINE q == [request[r] EXCEPT !.pc = to]
<1>1. /\ request[r] \in RequestRow /\ request[r].pc = from
      /\ Now \subseteq request[r].was
  BY DEF AccessInv, CallerOK, Advance
<1>2. q \in RequestRow /\ q.was = request[r].was
  BY <1>1 DEF RequestRow
<1>3. CallerOK(q, Now)
  BY <1>1, <1>2 DEF CallerOK
<1>4. request' = [request EXCEPT ![r] = q] /\ UNCHANGED <<member, userRole, rolePermission, apiKey>>
  BY DEF Advance
<1> HIDE DEF q
<1>5. QED
  BY <1>3, <1>4, OneRequest

(* The row of a request after a move, field by field. *)
LEMMA MovedRequest ==
    ASSUME NEW q \in RequestRow, NEW pc
    PROVE  LET to == [q EXCEPT !.pc = pc]
           IN  /\ to.pc = pc /\ to.route = q.route /\ to.own = q.own
               /\ to.pending = q.pending /\ to.was = q.was
BY DEF RequestRow

(* A refused request has nothing left to establish. *)
LEMMA DeniedOK ==
    ASSUME NEW q \in RequestRow
    PROVE  Established([q EXCEPT !.pc = "denied"])
BY DEF RequestRow, Established

(* The caller is active when its token is validated. *)
LEMMA ValidateStep ==
    ASSUME AccessInv, NEW r \in Requests, Validate(r)
    PROVE  AccessInv'
<1> DEFINE q == request[r]
           next == IF ~member THEN "denied"
                   ELSE IF q.route.needs = {} THEN "allowed"
                   ELSE IF q.route.guard = "scoped" /\ ~q.own THEN "denied"
                   ELSE "admin"
<1>1. q \in RequestRow /\ Established(q) /\ q.pc = "validate" /\ q.route \in Asked \cup {Public}
  BY DEF AccessInv, CallerOK, Validate, Advance, RequestRow
<1>2. q.route.guard = "scoped" => q.route.needs # {}
  BY <1>1, AccessAssumption DEF Public
<1>3. PICK pc \in {"denied", "allowed", "admin"} :
         /\ pc = next
         /\ pc # "denied" => member
         /\ pc = "allowed" => q.route.needs = {}
         /\ pc = "admin" /\ q.route.guard = "scoped" => q.own
  OBVIOUS
<1>4. Advance(r, "validate", pc)
  BY <1>3 DEF Validate
<1> HIDE DEF next
<1>5. ASSUME Now \subseteq q.was PROVE Established([q EXCEPT !.pc = pc])
  <2>1. CASE pc = "denied"
    BY <1>1, <2>1, DeniedOK
  <2>2. CASE pc # "denied"
    <3>1. Active \in q.was
      BY <1>3, <1>5, <2>2, Entitling
    <3>2. q.route.guard \notin {"public", "apiKey"} /\ q.pending = q.route.needs
      BY <1>1 DEF Established
    <3>3. QED
      BY <1>1, <1>2, <1>3, <2>2, <3>1, <3>2, MovedRequest DEF Established, InScope, Entitled
  <2>3. QED
    BY <2>1, <2>2
<1>6. QED
  BY <1>3, <1>4, <1>5, AdvanceStep DEF RequestStates

(* An admin passes; any other caller has every permission left to check. *)
LEMMA CheckAdminStep ==
    ASSUME AccessInv, NEW r \in Requests, CheckAdmin(r)
    PROVE  AccessInv'
<1> DEFINE q == request[r]
           next == IF "admin" \in userRole THEN "allowed" ELSE "permissions"
<1>1. q \in RequestRow /\ Established(q) /\ q.pc = "admin"
  BY DEF AccessInv, CallerOK, CheckAdmin, Advance
<1>2. PICK pc \in {"allowed", "permissions"} :
         pc = next /\ (pc = "allowed" => "admin" \in userRole)
  OBVIOUS
<1>3. Advance(r, "admin", pc)
  BY <1>2 DEF CheckAdmin
<1> HIDE DEF next
<1>4. ASSUME Now \subseteq q.was PROVE Established([q EXCEPT !.pc = pc])
  <2>1. pc = "allowed" => Admin \in q.was
    BY <1>2, <1>4, Entitling
  <2>2. InScope(q) /\ q.pending = q.route.needs
    BY <1>1 DEF Established
  <2>3. QED
    BY <1>1, <1>2, <2>1, <2>2, MovedRequest DEF Established, InScope, Entitled
<1>5. QED
  BY <1>2, <1>3, <1>4, AdvanceStep DEF RequestStates

(* The key was good when it was found. *)
LEMMA ApiKeyStep ==
    ASSUME AccessInv, NEW r \in Requests, FindApiKey(r) \/ TouchLastUsedAt(r)
    PROVE  AccessInv'
<1> DEFINE q == request[r]
<1>1. q \in RequestRow /\ Established(q)
  BY DEF AccessInv, CallerOK
<1>2. CASE TouchLastUsedAt(r)
  <2>1. Advance(r, "touch", "allowed") /\ q.pc = "touch"
    BY <1>2 DEF TouchLastUsedAt, Advance
  <2>2. Established([q EXCEPT !.pc = "allowed"])
    BY <1>1, <2>1, MovedRequest DEF Established, Entitled
  <2>3. QED
    BY <2>1, <2>2, AdvanceStep DEF RequestStates
<1>3. CASE FindApiKey(r)
  <2> DEFINE next == IF apiKey.isActive /\ ~apiKey.expired THEN "touch" ELSE "denied"
  <2>1. PICK pc \in {"touch", "denied"} :
           pc = next /\ (pc = "touch" => apiKey.isActive /\ ~apiKey.expired)
    OBVIOUS
  <2>2. Advance(r, "findKey", pc) /\ q.pc = "findKey"
    BY <1>3, <2>1 DEF FindApiKey, Advance
  <2> HIDE DEF next
  <2>3. ASSUME Now \subseteq q.was PROVE Established([q EXCEPT !.pc = pc])
    <3>1. pc = "touch" => GoodKey \in q.was
      BY <2>1, <2>3, Entitling
    <3>2. QED
      BY <1>1, <2>1, <2>2, <3>1, MovedRequest DEF Established
  <2>4. QED
    BY <2>1, <2>2, <2>3, AdvanceStep DEF RequestStates
<1>4. QED
  BY <1>2, <1>3

(* Each permission is one the caller had when it was checked. *)
LEMMA CheckPermissionStep ==
    ASSUME AccessInv, NEW r \in Requests, NEW p \in Grantable, CheckPermission(r, p)
    PROVE  AccessInv'
<1> DEFINE q == request[r]
           rest == q.pending \ {p}
           next == IF p \notin Now THEN "denied"
                   ELSE IF q.pending = {p} THEN "allowed" ELSE "permissions"
           w == [q EXCEPT !.pc = next, !.pending = rest]
<1>1. /\ q \in RequestRow /\ Established(q) /\ Now \subseteq q.was
      /\ q.pc = "permissions" /\ p \in q.pending
  BY DEF AccessInv, CallerOK, CheckPermission
<1>2. /\ request' = [request EXCEPT ![r] = w]
      /\ UNCHANGED <<member, userRole, rolePermission, apiKey>>
  BY DEF CheckPermission, AccessInv, RequestRow
<1>3. /\ next \in {"denied", "allowed", "permissions"}
      /\ next # "denied" => p \in q.was
      /\ next = "allowed" => rest = {}
  BY <1>1
<1> HIDE DEF next
<1>4. /\ w \in RequestRow /\ w.pc = next /\ w.pending = rest /\ w.was = q.was
      /\ w.route = q.route /\ w.own = q.own
  BY <1>1, <1>3 DEF RequestRow, RequestStates
<1>5. InScope(q) /\ q.route.needs \ q.pending \subseteq q.was
  BY <1>1 DEF Established
<1>6. /\ InScope(w)
      /\ next # "denied" => w.route.needs \ rest \subseteq w.was
  BY <1>3, <1>4, <1>5 DEF InScope
<1>7. next = "allowed" => Entitled(w)
  BY <1>3, <1>6 DEF InScope, Entitled
<1> HIDE DEF w
<1>8. Established(w)
  BY <1>3, <1>4, <1>6, <1>7 DEF Established
<1>9. QED
  BY <1>1, <1>2, <1>4, <1>8, OneRequest DEF CallerOK

(* No request has arrived at first. *)
LEMMA AccessInitially == AccessInit => AccessInv
<1> SUFFICES ASSUME AccessInit PROVE AccessInv
  OBVIOUS
<1>1. CallerOK(IdleRequest, Now)
  BY DEF CallerOK, IdleRequest, RequestRow, RequestStates, Established
<1>2. QED
  BY <1>1 DEF AccessInit, AccessInv, CallerOK

(* Every step keeps the invariant. *)
LEMMA AccessStep == AccessInv /\ [AccessNext]_accessVars => AccessInv'
<1> SUFFICES ASSUME AccessInv, [AccessNext]_accessVars PROVE AccessInv'
  OBVIOUS
<1>1. CASE UNCHANGED accessVars
  BY <1>1 DEF accessVars, AccessInv, Now
<1>2. CASE DeactivateMember \/ RevokeApiKey \/ ExpireApiKey
  BY <1>2, ChangeStep DEF DeactivateMember, RevokeApiKey, ExpireApiKey
<1>3. ASSUME NEW role, AssignRoleToUser(role) \/ RemoveRoleFromUser(role) PROVE AccessInv'
  BY <1>3, ChangeStep DEF AssignRoleToUser, RemoveRoleFromUser
<1>4. ASSUME NEW role, NEW p,
             AssignPermissionToRole(role, p) \/ RemovePermissionFromRole(role, p)
      PROVE  AccessInv'
  BY <1>4, ChangeStep DEF AssignPermissionToRole, RemovePermissionFromRole
<1>5. ASSUME NEW r \in Requests,
             \/ \E route \in Asked, own \in BOOLEAN, claims \in SUBSET {"admin"} :
                   Arrive(r, route, own, claims)
             \/ Validate(r) \/ CheckAdmin(r)
             \/ \E p \in Grantable : CheckPermission(r, p)
             \/ FindApiKey(r) \/ TouchLastUsedAt(r)
      PROVE  AccessInv'
  BY <1>5, ArriveStep, ValidateStep, CheckAdminStep, CheckPermissionStep, ApiKeyStep
<1>6. QED
  BY <1>1, <1>2, <1>3, <1>4, <1>5 DEF AccessNext

(* The invariant holds of every behaviour of the guards. *)
THEOREM AccessInductive == AccessSpec => []AccessInv
BY AccessInitially, AccessStep, PTL DEF AccessSpec

(* A request that was let through was entitled to it while it was there. *)
THEOREM AllowedIsEntitled == AccessSpec => []AllowedWasEntitled
<1>1. AccessInv => AllowedWasEntitled
  BY DEF AccessInv, CallerOK, Established, Entitled, AllowedWasEntitled
<1>2. QED
  BY <1>1, AccessInductive, PTL
=============================================================================
