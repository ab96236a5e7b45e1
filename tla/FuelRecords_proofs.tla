------------------------- MODULE FuelRecords_proofs -------------------------
(***************************************************************************)
(* Proofs about FuelRecords and Notifications, for any number of users,    *)
(* requests, vehicles, trips and endpoints.  The invariant has a part      *)
(* about the tables and one about each request in flight: what it has read *)
(* of the odometer and of the preferences, and since when.  A second       *)
(* invariant on top of it, Progress, says what a request has left behind.  *)
(***************************************************************************)
EXTENDS FuelRecords, SequenceTheorems, FiniteSetTheorems, TLAPS

(* A notification was wanted while its request was there. *)
NotificationsOK ==
    /\ active \in [Users -> BOOLEAN]
    /\ preferences \in [Users -> PreferenceRow \cup {None}]
    /\ notifications \in Seq(NotificationRow)
    /\ NoUnwantedNotification

(* A record was seen by its request after the records before it only. *)
RecordsOK ==
    /\ fuelRecords \in Seq(FuelRow)
    /\ \A j \in DOMAIN fuelRecords : fuelRecords[j].seen < j
    /\ OdometerFollowsRealTime
    /\ inspections \subseteq Calls

WebhooksOK ==
    /\ listening \in [Endpoints -> BOOLEAN]
    /\ events \subseteq Calls
    /\ deliveries \subseteq events \X Endpoints

WantsIn(rows, u, type) == rows[u] # None => isNotificationTypeEnabled(rows[u], type)

(* A request with something to announce knows, as of now, whether it is     *)
(* wanted; the notification is created only if it has been.                 *)
AnnouncesOK(q, rows) ==
    /\ q.type # None => q.user \in Users
    /\ q.type # None /\ WantsIn(rows, q.user, q.type) => q.on
    /\ q.pc = "insertNotification" => q.type # None /\ q.on

(* A reading that was accepted is not below any record seen on arrival. *)
OdometerOK(q, records) ==
    /\ q.seen <= Len(records)
    /\ q.pc \in {"odometer", "insertFuel"} => q.kind = "fuel"
    /\ q.pc # "idle" /\ q.kind = "fuel" => q.vehicle \in Vehicles
    /\ q.pc = "insertFuel" =>
          /\ q.reading >= 0
          /\ \A i \in 1..q.seen : records[i].vehicleId = q.vehicle =>
                                     records[i].odometerReading <= q.reading

(* The locals a program counter relies on are set. *)
LocalsOK(q, rows, notes) ==
    /\ q.pc # "idle" => q.user \in Users
    /\ q.pc # "idle" /\ q.kind \notin {"update", "read"} /\ q.type = None =>
          \/ q.pc \in {"findNotification", "markAsRead", "markAllAsRead", "done", "failed"}
          \/ q.pc = "recipient" /\ q.kind = "markAllAsRead"
    /\ q.pc = "update" => rows[q.user] # None
    /\ q.pc = "markAsRead" => q.id \in 1..Len(notes)
    /\ q.then \in {"done", "publish"}

CallOK(c, q, rows, notes, records, published) ==
    /\ q \in Request
    /\ AnnouncesOK(q, rows)
    /\ OdometerOK(q, records)
    /\ LocalsOK(q, rows, notes)
    /\ q.pc \in {"findEndpoints", "deliver"} => c \in published

CallsOK ==
    /\ call \in [Calls -> Request]
    /\ \A c \in Calls :
          CallOK(c, call[c], preferences, notifications, fuelRecords, events)

IInv == NotificationsOK /\ RecordsOK /\ WebhooksOK /\ CallsOK

-----------------------------------------------------------------------------
USE DEF tables, webhookVars

(* What every step but a change of preferences does to the tables: rows     *)
(* are added, and no type is wanted that was not.                           *)
Forward ==
    /\ \A u \in Users : preferences[u] # None => preferences'[u] # None
    /\ \A u \in Users, type \in NotificationType :
          WantsIn(preferences', u, type) => WantsIn(preferences, u, type)
    /\ Len(notifications') >= Len(notifications)
    /\ Len(fuelRecords') >= Len(fuelRecords)
    /\ \A i \in 1..Len(fuelRecords) : fuelRecords'[i] = fuelRecords[i]
    /\ events \subseteq events'

(* The lengths of the tables are numbers. *)
LEMMA Lengths ==
    ASSUME IInv
    PROVE  Len(notifications) \in Nat /\ Len(fuelRecords) \in Nat
BY DEF IInv, NotificationsOK, RecordsOK

(* What is claimed of a request outlives a step that goes forward. *)
LEMMA CallKept ==
    ASSUME IInv, Forward, NEW c \in Calls, NEW q,
           Len(notifications') \in Nat, Len(fuelRecords') \in Nat,
           CallOK(c, q, preferences, notifications, fuelRecords, events)
    PROVE  CallOK(c, q, preferences', notifications', fuelRecords', events')
<1>1. /\ q \in Request /\ q.seen \in Nat /\ q.id \in Nat
      /\ q.type \in NotificationType \cup {None}
  BY DEF CallOK, Request
<1>2. Len(notifications) \in Nat /\ Len(fuelRecords) \in Nat
  BY Lengths
<1>3. AnnouncesOK(q, preferences')
  BY <1>1 DEF CallOK, AnnouncesOK, Forward
<1>4. OdometerOK(q, fuelRecords')
  <2>1. /\ OdometerOK(q, fuelRecords) /\ Len(fuelRecords') >= Len(fuelRecords)
        /\ \A i \in 1..Len(fuelRecords) : fuelRecords'[i] = fuelRecords[i]
    BY DEF CallOK, Forward
  <2>2. \A i \in 1..q.seen : fuelRecords'[i] = fuelRecords[i]
    BY <1>1, <1>2, <2>1 DEF OdometerOK
  <2>3. QED
    BY <1>1, <1>2, <2>1, <2>2 DEF OdometerOK
<1>5. LocalsOK(q, preferences', notifications')
  BY <1>1, <1>2 DEF CallOK, LocalsOK, Forward
<1>6. QED
  BY <1>1, <1>3, <1>4, <1>5 DEF CallOK, Forward

(* One request moves, the tables go forward. *)
LEMMA CallMoves ==
    ASSUME IInv, Forward, NEW c \in Calls, NEW q,
           Len(notifications') \in Nat, Len(fuelRecords') \in Nat,
           CallOK(c, q, preferences', notifications', fuelRecords', events'),
           call' = [call EXCEPT ![c] = q]
    PROVE  CallsOK'
<1>1. q \in Request
  BY DEF CallOK
<1>2. /\ call' \in [Calls -> Request]
      /\ \A d \in Calls : call'[d] = IF d = c THEN q ELSE call[d]
  BY <1>1 DEF IInv, CallsOK
<1>3. ASSUME NEW d \in Calls
      PROVE  CallOK(d, call'[d], preferences', notifications', fuelRecords', events')
  <2>1. CallOK(d, call[d], preferences', notifications', fuelRecords', events')
    BY CallKept DEF IInv, CallsOK
  <2>2. QED
    BY <1>2, <2>1
<1>4. QED
  BY <1>2, <1>3 DEF CallsOK

(* A step that only moves a request. *)
LEMMA OnlyCall ==
    ASSUME IInv, NEW c \in Calls, NEW q,
           CallOK(c, q, preferences, notifications, fuelRecords, events),
           call' = [call EXCEPT ![c] = q],
           UNCHANGED <<active, preferences, notifications, tables, webhookVars>>
    PROVE  IInv'
<1>1. NotificationsOK'
  BY DEF IInv, NotificationsOK, NoUnwantedNotification
<1>2. RecordsOK'
  BY DEF IInv, RecordsOK, OdometerFollowsRealTime
<1>3. WebhooksOK'
  BY DEF IInv, WebhooksOK
<1>4. Forward
  BY Lengths DEF Forward
<1>5. Len(notifications') \in Nat /\ Len(fuelRecords') \in Nat
  BY Lengths
<1>6. CallsOK'
  BY <1>4, <1>5, CallMoves
<1>7. QED
  BY <1>1, <1>2, <1>3, <1>6 DEF IInv

(* A request in hand. *)
LEMMA InHand ==
    ASSUME IInv, NEW c \in Calls
    PROVE  /\ call[c] \in Request
           /\ CallOK(c, call[c], preferences, notifications, fuelRecords, events)
BY DEF IInv, CallsOK

(* The fields of a request that moves its program counter. *)
LEMMA Moved ==
    ASSUME NEW q \in Request, NEW pc \in Steps
    PROVE  LET w == [q EXCEPT !.pc = pc]
           IN  /\ w \in Request /\ w.pc = pc
               /\ w.kind = q.kind /\ w.user = q.user /\ w.vehicle = q.vehicle
               /\ w.reading = q.reading /\ w.type = q.type /\ w.id = q.id
               /\ w.then = q.then /\ w.on = q.on /\ w.seen = q.seen
BY DEF Request

(* A request that ends, or goes on where nothing more is relied on. *)
LEMMA GoesOn ==
    ASSUME NEW c, NEW q, NEW rows, NEW notes, NEW records, NEW published,
           CallOK(c, q, rows, notes, records, published), q.pc # "idle",
           NEW pc \in Steps,
           \/ pc \in {"done", "failed", "markAllAsRead"}
           \/ /\ pc \in {"recipient", "ensure", "createDefaults", "publish"}
              /\ q.type # None \/ q.kind \in {"update", "read"}
    PROVE  CallOK(c, [q EXCEPT !.pc = pc], rows, notes, records, published)
<1> DEFINE w == [q EXCEPT !.pc = pc]
<1>1. q \in Request
  BY DEF CallOK
<1>2. /\ w \in Request /\ w.pc = pc
      /\ w.kind = q.kind /\ w.user = q.user /\ w.vehicle = q.vehicle
      /\ w.reading = q.reading /\ w.type = q.type /\ w.id = q.id
      /\ w.then = q.then /\ w.on = q.on /\ w.seen = q.seen
  BY <1>1, Moved
<1> HIDE DEF w
<1>3. AnnouncesOK(w, rows)
  BY <1>2 DEF CallOK, AnnouncesOK
<1>4. OdometerOK(w, records)
  BY <1>2 DEF CallOK, OdometerOK
<1>5. LocalsOK(w, rows, notes)
  BY <1>2 DEF CallOK, LocalsOK
<1>6. CallOK(c, w, rows, notes, records, published)
  BY <1>2, <1>3, <1>4, <1>5 DEF CallOK
<1>7. QED
  BY <1>6 DEF w

-----------------------------------------------------------------------------
(***************************************************************************)
(* Steps that only read.                                                   *)
(***************************************************************************)

(* A request that has not arrived has its type. *)
LEMMA IdleOK == Idle \in Request
<1>1. /\ "idle" \in Steps /\ "done" \in Steps /\ {} \in SUBSET Endpoints
      /\ 0 \in Int /\ 0 \in Nat
  BY DEF Steps
<1>2. QED
  BY <1>1 DEF Idle, Request

(* What a request announces. *)
LEMMA AnnouncingOK ==
    ASSUME IInv, NEW kind \in Kinds, NEW u \in Users, NEW type \in NotificationType
    PROVE  /\ Announcing(kind, u, type) \in Request
           /\ Announcing(kind, u, type).pc = "author"
           /\ Announcing(kind, u, type).kind = kind
           /\ Announcing(kind, u, type).user = u
           /\ Announcing(kind, u, type).type = type
           /\ Announcing(kind, u, type).seen = Len(fuelRecords)
           /\ Announcing(kind, u, type).then = "publish"
           /\ Announcing(kind, u, type).on <=> Wants(u, type)
<1> DEFINE on == Wants(u, type)
           off == ~Wants(u, type)
           reach == {e \in Endpoints : listening[e]}
<1>1. /\ on \in BOOLEAN /\ off \in BOOLEAN /\ reach \in SUBSET Endpoints
      /\ "author" \in Steps /\ "publish" \in Steps
  BY DEF Wants, Steps
<1>2. Announcing(kind, u, type) =
        [Idle EXCEPT !.kind = kind, !.pc = "author", !.user = u, !.type = type,
                     !.then = "publish", !.on = on, !.off = off,
                     !.seen = Len(fuelRecords), !.reach = reach]
  BY DEF Announcing
<1> HIDE DEF on, off, reach
<1>3. Announcing(kind, u, type) \in Request
  <2>1. ASSUME NEW a \in BOOLEAN, NEW b \in BOOLEAN, NEW n \in Nat,
               NEW x \in SUBSET Endpoints
        PROVE  [Idle EXCEPT !.kind = kind, !.pc = "author", !.user = u, !.type = type,
                            !.then = "publish", !.on = a, !.off = b, !.seen = n,
                            !.reach = x] \in Request
    BY <1>1, IdleOK DEF Request
  <2>2. Len(fuelRecords) \in Nat
    BY Lengths
  <2>3. [Idle EXCEPT !.kind = kind, !.pc = "author", !.user = u, !.type = type,
                     !.then = "publish", !.on = on, !.off = off,
                     !.seen = Len(fuelRecords), !.reach = reach] \in Request
    BY <1>1, <2>1, <2>2
  <2>4. QED
    BY <1>2, <2>3
<1>4. /\ Announcing(kind, u, type).pc = "author"
      /\ Announcing(kind, u, type).kind = kind
      /\ Announcing(kind, u, type).user = u
      /\ Announcing(kind, u, type).type = type
      /\ Announcing(kind, u, type).seen = Len(fuelRecords)
      /\ Announcing(kind, u, type).then = "publish"
      /\ Announcing(kind, u, type).on = on
  BY <1>2, IdleOK DEF Request
<1>5. QED
  BY <1>3, <1>4 DEF on

(* A request arrives with what its author wants now and has seen now. *)
LEMMA PostStep ==
    ASSUME IInv, NEW c \in Calls, NEW u \in Users, NEW v \in Vehicles,
           \/ \E reading \in Readings, trip \in Trips \cup {None} :
                 PostFuelRecord(c, u, v, reading, trip)
           \/ \E passed \in BOOLEAN : PostInspection(c, u, v, passed)
    PROVE  IInv'
<1>1. PICK q \in Request :
         /\ q.pc = "author" /\ q.kind \in {"fuel", "inspection"} /\ q.user = u
         /\ q.vehicle = v /\ q.type \in NotificationType
         /\ WantsIn(preferences, u, q.type) => q.on
         /\ q.seen = Len(fuelRecords) /\ q.then = "publish"
         /\ call' = [call EXCEPT ![c] = q]
         /\ UNCHANGED <<active, preferences, notifications, tables, webhookVars>>
  <2>1. CASE \E reading \in Readings, trip \in Trips \cup {None} :
                PostFuelRecord(c, u, v, reading, trip)
    <3>1. PICK reading \in Readings, trip \in Trips \cup {None} :
             PostFuelRecord(c, u, v, reading, trip)
      BY <2>1
    <3> DEFINE q == [Announcing("fuel", u, "FUEL_RECORD_CREATED")
                       EXCEPT !.vehicle = v, !.reading = reading, !.trip = trip]
    <3> DEFINE p == Announcing("fuel", u, "FUEL_RECORD_CREATED")
    <3>2. /\ p \in Request /\ p.pc = "author" /\ p.kind = "fuel" /\ p.user = u
          /\ p.type = "FUEL_RECORD_CREATED" /\ p.seen = Len(fuelRecords)
          /\ p.then = "publish" /\ (p.on <=> Wants(u, "FUEL_RECORD_CREATED"))
      BY AnnouncingOK DEF Kinds, NotificationType
    <3> HIDE DEF p
    <3>3. reading \in Int
      BY FuelAssumption
    <3>4. /\ q \in Request /\ q.vehicle = v /\ q.pc = p.pc /\ q.kind = p.kind
          /\ q.user = p.user /\ q.type = p.type /\ q.seen = p.seen
          /\ q.then = p.then /\ q.on = p.on
      BY <3>2, <3>3 DEF Request, p
    <3>5. /\ call' = [call EXCEPT ![c] = q]
          /\ UNCHANGED <<active, preferences, notifications, tables, webhookVars>>
      BY <3>1 DEF PostFuelRecord
    <3> HIDE DEF q
    <3>6. QED
      BY <3>2, <3>4, <3>5 DEF Wants, WantsIn, NotificationType
  <2>2. CASE \E passed \in BOOLEAN : PostInspection(c, u, v, passed)
    <3>1. PICK passed \in BOOLEAN : PostInspection(c, u, v, passed)
      BY <2>2
    <3> DEFINE q == [Announcing("inspection", u, "INSPECTION_FAILED")
                       EXCEPT !.vehicle = v, !.passed = passed]
    <3> DEFINE p == Announcing("inspection", u, "INSPECTION_FAILED")
    <3>2. /\ p \in Request /\ p.pc = "author" /\ p.kind = "inspection" /\ p.user = u
          /\ p.type = "INSPECTION_FAILED" /\ p.seen = Len(fuelRecords)
          /\ p.then = "publish" /\ (p.on <=> Wants(u, "INSPECTION_FAILED"))
      BY AnnouncingOK DEF Kinds, NotificationType
    <3> HIDE DEF p
    <3>3. passed \in BOOLEAN
      OBVIOUS
    <3>4. /\ q \in Request /\ q.vehicle = v /\ q.pc = p.pc /\ q.kind = p.kind
          /\ q.user = p.user /\ q.type = p.type /\ q.seen = p.seen
          /\ q.then = p.then /\ q.on = p.on
      BY <3>2, <3>3 DEF Request, p
    <3>5. /\ call' = [call EXCEPT ![c] = q]
          /\ UNCHANGED <<active, preferences, notifications, tables, webhookVars>>
      BY <3>1 DEF PostInspection
    <3> HIDE DEF q
    <3>6. QED
      BY <3>2, <3>4, <3>5 DEF Wants, WantsIn, NotificationType
  <2>3. QED
    BY <2>1, <2>2
<1>2. AnnouncesOK(q, preferences)
  BY <1>1 DEF AnnouncesOK
<1>3. OdometerOK(q, fuelRecords)
  BY <1>1, Lengths DEF OdometerOK
<1>4. LocalsOK(q, preferences, notifications)
  BY <1>1, NoneIsNoRow DEF LocalsOK
<1>5. CallOK(c, q, preferences, notifications, fuelRecords, events)
  BY <1>1, <1>2, <1>3, <1>4 DEF CallOK
<1>6. QED
  BY <1>1, <1>5, OnlyCall

(* A request about the notifications announces nothing. *)
LEMMA UseStep ==
    ASSUME IInv, NEW c \in Calls, NEW u \in Users,
           NEW kind \in Kinds \ {"fuel", "inspection"}, UseNotifications(c, u, kind)
    PROVE  IInv'
<1> DEFINE pc == EntryOf(kind)
           q == [Idle EXCEPT !.pc = pc, !.kind = kind, !.user = u]
<1>1. /\ pc \in {"recipient", "findNotification"}
      /\ pc = "recipient" => kind \in {"update", "read", "markAllAsRead"}
  BY DEF EntryOf, Kinds
<1> HIDE DEF pc
<1>2. /\ q \in Request /\ q.pc = pc /\ q.kind = kind /\ q.user = u /\ q.type = None
      /\ q.seen = 0 /\ q.then = "done"
  <2>1. pc \in Steps
    BY <1>1 DEF Steps
  <2>2. q \in Request
    BY <2>1, IdleOK DEF Request
  <2>3. QED
    BY <2>2 DEF Idle
<1>3. /\ call' = [call EXCEPT ![c] = q]
      /\ UNCHANGED <<active, preferences, notifications, tables, webhookVars>>
  BY DEF UseNotifications, pc
<1> HIDE DEF q
<1>4. AnnouncesOK(q, preferences)
  BY <1>1, <1>2 DEF AnnouncesOK
<1>5. OdometerOK(q, fuelRecords)
  BY <1>1, <1>2, Lengths DEF OdometerOK
<1>6. LocalsOK(q, preferences, notifications)
  BY <1>1, <1>2 DEF LocalsOK
<1>7. CallOK(c, q, preferences, notifications, fuelRecords, events)
  BY <1>1, <1>2, <1>4, <1>5, <1>6 DEF CallOK
<1>8. QED
  BY <1>3, <1>7, OnlyCall

(* The author is active or the request fails. *)
LEMMA AuthorStep ==
    ASSUME IInv, NEW c \in Calls, RequireAuthor(c)
    PROVE  IInv'
<1> DEFINE q == call[c]
           pc == IF ~active[q.user] THEN "failed"
                 ELSE IF q.kind = "fuel" THEN "odometer" ELSE "insertInspection"
           w == [q EXCEPT !.pc = pc]
<1>1. /\ q.pc = "author"
      /\ call' = [call EXCEPT ![c] = w]
      /\ UNCHANGED <<active, preferences, notifications, tables, webhookVars>>
  BY DEF RequireAuthor, Goto
<1>2. /\ pc \in {"failed", "odometer", "insertInspection"}
      /\ pc = "odometer" => q.kind = "fuel"
  OBVIOUS
<1> HIDE DEF pc
<1>3. q \in Request /\ CallOK(c, q, preferences, notifications, fuelRecords, events)
  BY InHand
<1>4. /\ w \in Request /\ w.pc = pc
      /\ w.kind = q.kind /\ w.user = q.user /\ w.vehicle = q.vehicle
      /\ w.reading = q.reading /\ w.type = q.type /\ w.id = q.id
      /\ w.then = q.then /\ w.on = q.on /\ w.seen = q.seen
  <2>1. pc \in Steps
    BY <1>2 DEF Steps
  <2> HIDE DEF q
  <2>2. QED
    BY <1>3, <2>1, Moved
<1> HIDE DEF w, q
<1>5. AnnouncesOK(w, preferences) /\ OdometerOK(w, fuelRecords)
  BY <1>1, <1>2, <1>3, <1>4 DEF CallOK, AnnouncesOK, OdometerOK
<1>6. LocalsOK(w, preferences, notifications)
  BY <1>1, <1>2, <1>3, <1>4 DEF CallOK, LocalsOK
<1>7. CallOK(c, w, preferences, notifications, fuelRecords, events)
  BY <1>2, <1>4, <1>5, <1>6 DEF CallOK
<1>8. QED
  BY <1>1, <1>7, OnlyCall

(* An accepted reading is not below any record of the vehicle there is. *)
LEMMA ValidateStep ==
    ASSUME IInv, NEW c \in Calls, ValidateFuelRecord(c)
    PROVE  IInv'
<1> DEFINE q == call[c]
           pc == IF /\ OdometerAccepted(q.vehicle, q.reading)
                    /\ TripAccepted(q.vehicle, q.trip)
                 THEN "insertFuel" ELSE "failed"
           w == [q EXCEPT !.pc = pc]
<1>1. /\ q.pc = "odometer"
      /\ call' = [call EXCEPT ![c] = w]
      /\ UNCHANGED <<active, preferences, notifications, tables, webhookVars>>
  BY DEF ValidateFuelRecord, Goto
<1>2. /\ pc \in {"failed", "insertFuel"}
      /\ pc = "insertFuel" => OdometerAccepted(q.vehicle, q.reading)
  OBVIOUS
<1> HIDE DEF pc
<1>3. q \in Request /\ CallOK(c, q, preferences, notifications, fuelRecords, events)
  BY InHand
<1>4. /\ w \in Request /\ w.pc = pc
      /\ w.kind = q.kind /\ w.user = q.user /\ w.vehicle = q.vehicle
      /\ w.reading = q.reading /\ w.type = q.type /\ w.id = q.id
      /\ w.then = q.then /\ w.on = q.on /\ w.seen = q.seen
  <2>1. pc \in Steps
    BY <1>2 DEF Steps
  <2> HIDE DEF q
  <2>2. QED
    BY <1>3, <2>1, Moved
<1> HIDE DEF w, q
<1>5. AnnouncesOK(w, preferences)
  BY <1>1, <1>2, <1>3, <1>4 DEF CallOK, AnnouncesOK
<1>6. OdometerOK(w, fuelRecords)
  <2>1. OdometerOK(q, fuelRecords) /\ q.seen \in Nat
    BY <1>3 DEF CallOK, Request
  <2>2. ASSUME pc = "insertFuel"
        PROVE  /\ q.reading >= 0
               /\ \A i \in 1..q.seen : fuelRecords[i].vehicleId = q.vehicle =>
                                          fuelRecords[i].odometerReading <= q.reading
    <3>1. DOMAIN fuelRecords = 1..Len(fuelRecords) /\ Len(fuelRecords) \in Nat
      BY DEF IInv, RecordsOK
    <3>2. QED
      BY <1>2, <2>1, <2>2, <3>1 DEF OdometerOK, OdometerAccepted
  <2>3. QED
    BY <1>1, <1>2, <1>4, <2>1, <2>2 DEF OdometerOK
<1>7. LocalsOK(w, preferences, notifications)
  BY <1>1, <1>2, <1>3, <1>4 DEF CallOK, LocalsOK
<1>8. CallOK(c, w, preferences, notifications, fuelRecords, events)
  BY <1>2, <1>4, <1>5, <1>6, <1>7 DEF CallOK
<1>9. QED
  BY <1>1, <1>8, OnlyCall

(* A recipient is looked up, a step throws. *)
LEMMA RecipientOrThrowStep ==
    ASSUME IInv, NEW c \in Calls,
           \/ RequireRecipient(c) /\ UNCHANGED <<tables, webhookVars>>
           \/ Throw(c)
    PROVE  IInv'
<1>1. PICK pc \in {"ensure", "failed", "markAllAsRead"} :
         /\ call[c].pc # "idle"
         /\ pc = "ensure" => call[c].pc = "recipient" /\ call[c].kind # "markAllAsRead"
         /\ call' = [call EXCEPT ![c] = [call[c] EXCEPT !.pc = pc]]
         /\ UNCHANGED <<active, preferences, notifications, tables, webhookVars>>
  BY DEF RequireRecipient, Throw, Goto
<1>2. CallOK(c, call[c], preferences, notifications, fuelRecords, events)
  BY InHand
<1>3. pc = "ensure" => call[c].type # None \/ call[c].kind \in {"update", "read"}
  BY <1>1, <1>2 DEF CallOK, LocalsOK
<1>4. CallOK(c, [call[c] EXCEPT !.pc = pc], preferences, notifications, fuelRecords, events)
  BY <1>1, <1>2, <1>3, GoesOn DEF Steps
<1>5. QED
  BY <1>1, <1>4, OnlyCall

-----------------------------------------------------------------------------
(***************************************************************************)
(* Preferences and notifications.                                          *)
(***************************************************************************)

(* Past the preferences: what a request may rely on once it holds the row.  *)
LEMMA AfterPreferencesOK ==
    ASSUME NEW c \in Calls, NEW q, NEW row \in PreferenceRow, NEW pc,
           NEW rows, NEW notes, NEW records, NEW published,
           q.pc \in {"ensure", "createDefaults"}, rows[q.user] = row,
           CallOK(c, q, rows, notes, records, published),
           pc = CASE q.kind = "update" -> "update"
                  [] q.kind = "read"   -> "done"
                  [] OTHER -> IF isNotificationTypeEnabled(row, q.type)
                              THEN "insertNotification" ELSE q.then
    PROVE  CallOK(c, [q EXCEPT !.pc = pc], rows, notes, records, published)
<1>1. /\ pc \in {"update", "done", "insertNotification", "publish"}
      /\ pc = "update" => q.kind = "update"
      /\ pc = "publish" => q.kind \notin {"update", "read"}
      /\ pc = "insertNotification" =>
            q.kind \notin {"update", "read"} /\ isNotificationTypeEnabled(row, q.type)
  BY DEF CallOK, LocalsOK
<1>2. q.kind \notin {"update", "read"} => q.type # None
  BY DEF CallOK, LocalsOK
<1>3. CASE pc \in {"done", "publish"}
  BY <1>1, <1>2, <1>3, GoesOn DEF Steps
<1>4. CASE pc \in {"update", "insertNotification"}
  <2> DEFINE w == [q EXCEPT !.pc = pc]
  <2>1. /\ w \in Request /\ w.pc = pc
        /\ w.kind = q.kind /\ w.user = q.user /\ w.vehicle = q.vehicle
        /\ w.reading = q.reading /\ w.type = q.type /\ w.id = q.id
        /\ w.then = q.then /\ w.on = q.on /\ w.seen = q.seen
    <3>1. q \in Request /\ pc \in Steps
      BY <1>4 DEF CallOK, Steps
    <3>2. QED
      BY <3>1, Moved
  <2> HIDE DEF w
  <2>2. AnnouncesOK(w, rows)
    BY <1>1, <1>2, <1>4, <2>1 DEF CallOK, AnnouncesOK, WantsIn
  <2>3. OdometerOK(w, records)
    BY <1>4, <2>1 DEF CallOK, OdometerOK
  <2>4. LocalsOK(w, rows, notes)
    BY <1>1, <1>2, <1>4, <2>1, NoneIsNoRow DEF CallOK, LocalsOK
  <2>5. CallOK(c, w, rows, notes, records, published)
    BY <1>4, <2>1, <2>2, <2>3, <2>4 DEF CallOK
  <2>6. QED
    BY <2>5 DEF w
<1>5. QED
  BY <1>1, <1>3, <1>4

(* The row is found, or is to be created. *)
LEMMA FindPreferencesStep ==
    ASSUME IInv, NEW c \in Calls,
           FindPreferences(c), UNCHANGED <<tables, webhookVars>>
    PROVE  IInv'
<1> DEFINE q == call[c]
           row == preferences[q.user]
           pc == IF row = None THEN "createDefaults" ELSE AfterPreferences(c, row)
<1>1. /\ q.pc = "ensure" /\ call' = [call EXCEPT ![c] = [q EXCEPT !.pc = pc]]
      /\ UNCHANGED <<active, preferences, notifications, tables, webhookVars>>
  BY DEF FindPreferences, Goto
<1>2. CallOK(c, q, preferences, notifications, fuelRecords, events)
  BY InHand
<1>3. CallOK(c, [q EXCEPT !.pc = pc], preferences, notifications, fuelRecords, events)
  <2>1. CASE row = None
    <3>1. pc = "createDefaults"
      BY <2>1
    <3>2. q.type # None \/ q.kind \in {"update", "read"}
      BY <1>1, <1>2 DEF CallOK, LocalsOK
    <3>3. QED
      BY <1>1, <1>2, <3>1, <3>2, GoesOn DEF Steps
  <2>2. CASE row # None
    <3>1. row \in PreferenceRow
      BY <1>1, <1>2, <2>2 DEF IInv, NotificationsOK, CallOK, LocalsOK
    <3>2. pc = CASE q.kind = "update" -> "update"
                 [] q.kind = "read"   -> "done"
                 [] OTHER -> IF isNotificationTypeEnabled(row, q.type)
                             THEN "insertNotification" ELSE q.then
      BY <2>2 DEF AfterPreferences
    <3> HIDE DEF pc, row, q
    <3>3. row = preferences[q.user]
      BY DEF row
    <3>4. QED
      BY <1>1, <1>2, <3>1, <3>2, <3>3, AfterPreferencesOK
  <2>3. QED
    BY <2>1, <2>2
<1>4. QED
  BY <1>1, <1>3, OnlyCall

(* The defaults enable what a missing row stands for. *)
LEMMA CreateDefaultsStep ==
    ASSUME IInv, NEW c \in Calls,
           CreateDefaults(c), UNCHANGED <<tables, webhookVars>>
    PROVE  IInv'
<1> DEFINE q == call[c]
<1>1. /\ q.pc = "createDefaults"
      /\ UNCHANGED <<active, notifications, tables, webhookVars>>
  BY DEF CreateDefaults
<1>2. CallOK(c, q, preferences, notifications, fuelRecords, events)
  BY InHand
<1>3. q.user \in Users
  BY <1>1, <1>2 DEF CallOK, LocalsOK
<1>4. CASE preferences[q.user] # None
  <2>1. /\ call' = [call EXCEPT ![c] = [q EXCEPT !.pc = "failed"]]
        /\ UNCHANGED <<active, preferences, notifications, tables, webhookVars>>
    BY <1>4 DEF CreateDefaults, Goto
  <2>2. CallOK(c, [q EXCEPT !.pc = "failed"], preferences, notifications, fuelRecords, events)
    BY <1>1, <1>2, GoesOn DEF Steps
  <2>3. QED
    BY <2>1, <2>2, OnlyCall
<1>5. CASE preferences[q.user] = None
  <2> DEFINE pc == AfterPreferences(c, Defaults)
             w == [q EXCEPT !.pc = pc]
  <2>1. /\ preferences' = [preferences EXCEPT ![q.user] = Defaults]
        /\ call' = [call EXCEPT ![c] = w]
    BY <1>5 DEF CreateDefaults, Goto
  <2>2. Defaults \in PreferenceRow /\ Defaults # None
    BY NoneIsNoRow DEF Defaults, PreferenceRow
  <2>3. /\ preferences' \in [Users -> PreferenceRow \cup {None}]
        /\ preferences'[q.user] = Defaults
        /\ \A u \in Users \ {q.user} : preferences'[u] = preferences[u]
    BY <1>3, <2>1, <2>2 DEF IInv, NotificationsOK
  <2>4. Forward
    <3>1. \A u \in Users, type \in NotificationType :
             WantsIn(preferences', u, type) => WantsIn(preferences, u, type)
      BY <1>5, <2>3 DEF WantsIn
    <3>2. QED
      BY <1>1, <1>5, <2>2, <2>3, <3>1, Lengths DEF Forward
  <2>5. Len(notifications') \in Nat /\ Len(fuelRecords') \in Nat
    BY <1>1, Lengths
  <2>6. CallOK(c, q, preferences', notifications', fuelRecords', events')
    BY <1>2, <2>4, <2>5, CallKept
  <2>7. CallOK(c, w, preferences', notifications', fuelRecords', events')
    <3>1. pc = CASE q.kind = "update" -> "update"
                 [] q.kind = "read"   -> "done"
                 [] OTHER -> IF isNotificationTypeEnabled(Defaults, q.type)
                             THEN "insertNotification" ELSE q.then
      BY DEF AfterPreferences
    <3> HIDE DEF pc, q
    <3>2. QED
      BY <1>1, <2>2, <2>3, <2>6, <3>1, AfterPreferencesOK
  <2> HIDE DEF w, q
  <2>8. CallsOK'
    BY <2>1, <2>4, <2>5, <2>7, CallMoves
  <2>9. NotificationsOK' /\ RecordsOK' /\ WebhooksOK'
    BY <1>1, <2>3 DEF IInv, NotificationsOK, NoUnwantedNotification, RecordsOK,
                      OdometerFollowsRealTime, WebhooksOK
  <2>10. QED
    BY <2>8, <2>9 DEF IInv
<1>6. QED
  BY <1>4, <1>5

(* A notification is inserted for a request that knows it is wanted. *)
LEMMA InsertNotificationStep ==
    ASSUME IInv, NEW c \in Calls,
           InsertNotification(c), UNCHANGED <<tables, webhookVars>>
    PROVE  IInv'
<1> DEFINE q == call[c]
           note == [userId |-> q.user, type |-> q.type, read |-> FALSE,
                    wanted |-> q.on, by |-> c]
           w == [q EXCEPT !.pc = q.then]
<1>1. /\ q.pc = "insertNotification"
      /\ notifications' = Append(notifications, note)
      /\ call' = [call EXCEPT ![c] = w]
      /\ UNCHANGED <<active, preferences, tables, webhookVars>>
  BY DEF InsertNotification, Goto
<1>2. q \in Request /\ CallOK(c, q, preferences, notifications, fuelRecords, events)
  BY InHand
<1>3. q.user \in Users /\ q.type # None /\ q.on /\ q.then \in {"done", "publish"}
  BY <1>1, <1>2 DEF CallOK, AnnouncesOK, LocalsOK
<1>4. note \in NotificationRow /\ note.wanted
  <2>1. q.type \in NotificationType /\ q.on \in BOOLEAN
    BY <1>2, <1>3 DEF Request
  <2>2. note \in NotificationRow
    BY <1>3, <2>1 DEF NotificationRow
  <2>3. QED
    BY <1>3, <2>2
<1> HIDE DEF note
<1>5. /\ notifications' \in Seq(NotificationRow)
      /\ Len(notifications') = Len(notifications) + 1
      /\ \A n \in DOMAIN notifications' :
            \/ notifications'[n] = note
            \/ n \in DOMAIN notifications /\ notifications'[n] = notifications[n]
  <2>1. notifications \in Seq(NotificationRow)
    BY DEF IInv, NotificationsOK
  <2>2. /\ notifications' \in Seq(NotificationRow)
        /\ Len(notifications') = Len(notifications) + 1
        /\ \A i \in 1..Len(notifications) : notifications'[i] = notifications[i]
        /\ notifications'[Len(notifications) + 1] = note
    BY <1>1, <1>4, <2>1, AppendProperties
  <2>3. QED
    BY <2>1, <2>2, LenProperties
<1>6. NoUnwantedNotification'
  BY <1>4, <1>5 DEF IInv, NotificationsOK, NoUnwantedNotification
<1>7. NotificationsOK' /\ RecordsOK' /\ WebhooksOK'
  BY <1>1, <1>5, <1>6 DEF IInv, NotificationsOK, RecordsOK, OdometerFollowsRealTime, WebhooksOK
<1>8. /\ Forward /\ Len(notifications') \in Nat /\ Len(fuelRecords') \in Nat
  BY <1>1, <1>5, Lengths DEF Forward
<1>9. CallOK(c, w, preferences', notifications', fuelRecords', events')
  <2>1. CallOK(c, q, preferences', notifications', fuelRecords', events')
    BY <1>2, <1>8, CallKept
  <2>2. QED
    BY <1>1, <1>3, <2>1, GoesOn DEF Steps
<1> HIDE DEF w
<1>10. QED
  BY <1>1, <1>7, <1>8, <1>9, CallMoves DEF IInv

(* A notification is looked up, and is the caller's. *)
LEMMA FindNotificationStep ==
    ASSUME IInv, NEW c \in Calls, NEW n \in 1..(Len(notifications) + 1),
           FindNotification(c, n), UNCHANGED <<tables, webhookVars>>
    PROVE  IInv'
<1> DEFINE q == call[c]
           found == [q EXCEPT !.id = n, !.pc = "markAsRead"]
           read == [q EXCEPT !.id = n, !.pc = "done"]
           none == [q EXCEPT !.pc = "failed"]
<1>1. /\ q.pc = "findNotification"
      /\ UNCHANGED <<active, preferences, notifications, tables, webhookVars>>
  BY DEF FindNotification
<1>2. q \in Request /\ CallOK(c, q, preferences, notifications, fuelRecords, events)
  BY InHand
<1>3. \/ n \in DOMAIN notifications /\ call' = [call EXCEPT ![c] = found]
      \/ n \in DOMAIN notifications /\ call' = [call EXCEPT ![c] = read]
      \/ call' = [call EXCEPT ![c] = none]
  BY DEF FindNotification, Goto
<1>4. CASE call' = [call EXCEPT ![c] = none]
  <2>1. CallOK(c, none, preferences, notifications, fuelRecords, events)
    BY <1>1, <1>2, GoesOn DEF Steps
  <2> HIDE DEF none
  <2>2. QED
    BY <1>1, <1>4, <2>1, OnlyCall
<1>5. ASSUME NEW pc \in {"markAsRead", "done"}, n \in DOMAIN notifications,
             call' = [call EXCEPT ![c] = [q EXCEPT !.id = n, !.pc = pc]]
      PROVE  IInv'
  <2> DEFINE w == [q EXCEPT !.id = n, !.pc = pc]
  <2>1. n \in 1..Len(notifications) /\ n \in Nat
    BY <1>5, Lengths DEF IInv, NotificationsOK
  <2>2. /\ w \in Request /\ w.pc = pc /\ w.id = n
        /\ w.kind = q.kind /\ w.user = q.user /\ w.vehicle = q.vehicle
        /\ w.reading = q.reading /\ w.type = q.type
        /\ w.then = q.then /\ w.on = q.on /\ w.seen = q.seen
    <3>1. pc \in Steps
      BY <1>5 DEF Steps
    <3> HIDE DEF q
    <3>2. QED
      BY <1>2, <2>1, <3>1 DEF Request
  <2> HIDE DEF w, q
  <2>3. AnnouncesOK(w, preferences) /\ OdometerOK(w, fuelRecords)
    BY <1>1, <1>2, <1>5, <2>2 DEF CallOK, AnnouncesOK, OdometerOK
  <2>4. LocalsOK(w, preferences, notifications)
    BY <1>1, <1>2, <1>5, <2>1, <2>2 DEF CallOK, LocalsOK
  <2>5. CallOK(c, w, preferences, notifications, fuelRecords, events)
    BY <1>5, <2>2, <2>3, <2>4 DEF CallOK
  <2>6. call' = [call EXCEPT ![c] = w]
    BY <1>5 DEF w, q
  <2>7. QED
    BY <1>1, <2>5, <2>6, OnlyCall
<1>6. QED
  BY <1>3, <1>4, <1>5

(* A request in flight witnesses what its user wants from now on. *)
LEMMA WitnessedOK ==
    ASSUME IInv, NEW new \in [Users -> PreferenceRow \cup {None}],
           \A u \in Users : preferences[u] # None => new[u] # None,
           NEW d \in Calls
    PROVE  CallOK(d, Witnessed(new)[d], new, notifications, fuelRecords, events)
<1> DEFINE q == call[d]
           w == Witnessed(new)[d]
<1>1. q \in Request /\ CallOK(d, q, preferences, notifications, fuelRecords, events)
  BY InHand
<1>2. CASE q.type = None
  <2>1. w = q
    BY <1>2 DEF Witnessed
  <2> HIDE DEF w
  <2>2. CallOK(d, q, new, notifications, fuelRecords, events)
    BY <1>1, <1>2 DEF CallOK, AnnouncesOK, LocalsOK
  <2>3. QED
    BY <2>1, <2>2 DEF w
<1>3. CASE q.type # None
  <2>1. PICK a \in BOOLEAN, b \in BOOLEAN :
           /\ w = [q EXCEPT !.on = a, !.off = b]
           /\ a <=> q.on \/ WantsIn(new, q.user, q.type)
    <3> DEFINE a == q.on \/ WantsIn(new, q.user, q.type)
               b == q.off \/ ~WantsIn(new, q.user, q.type)
    <3>1. w = [q EXCEPT !.on = a, !.off = b] /\ a \in BOOLEAN /\ b \in BOOLEAN
      BY <1>3 DEF Witnessed, WantsIn
    <3> HIDE DEF a, b, w, q
    <3>2. a <=> q.on \/ WantsIn(new, q.user, q.type)
      BY DEF a
    <3>3. QED
      BY <3>1, <3>2
  <2> HIDE DEF w, q
  <2>2. /\ w \in Request /\ w.pc = q.pc /\ w.on = a
        /\ w.kind = q.kind /\ w.user = q.user /\ w.vehicle = q.vehicle
        /\ w.reading = q.reading /\ w.type = q.type /\ w.id = q.id
        /\ w.then = q.then /\ w.seen = q.seen
    <3>1. w \in Request
      <4> DEFINE on == [q EXCEPT !.on = a]
      <4>1. on \in Request
        BY <1>1 DEF Request
      <4>2. w = [on EXCEPT !.off = b]
        BY <1>1, <2>1 DEF Request
      <4> HIDE DEF on
      <4>3. QED
        BY <4>1, <4>2 DEF Request
    <3>2. w.pc = q.pc /\ w.on = a /\ w.kind = q.kind /\ w.user = q.user
      BY <1>1, <2>1 DEF Request
    <3>3. w.vehicle = q.vehicle /\ w.reading = q.reading /\ w.type = q.type
      BY <1>1, <2>1 DEF Request
    <3>4. w.id = q.id /\ w.then = q.then /\ w.seen = q.seen
      BY <1>1, <2>1 DEF Request
    <3>5. QED
      BY <3>1, <3>2, <3>3, <3>4
  <2>3. AnnouncesOK(w, new)
    BY <1>1, <2>1, <2>2 DEF CallOK, AnnouncesOK
  <2>4. OdometerOK(w, fuelRecords)
    BY <1>1, <2>2 DEF CallOK, OdometerOK
  <2>5. LocalsOK(w, new, notifications)
    BY <1>1, <2>2 DEF CallOK, LocalsOK
  <2>6. CallOK(d, w, new, notifications, fuelRecords, events)
    BY <1>1, <2>2, <2>3, <2>4, <2>5 DEF CallOK
  <2>7. QED
    BY <2>6 DEF w
<1>4. QED
  BY <1>2, <1>3

(* Preferences change; every request in flight is told. *)
LEMMA UpdatePreferencesStep ==
    ASSUME IInv, NEW c \in Calls, NEW input \in PreferenceInputs,
           UpdatePreferences(c, input), UNCHANGED <<tables, webhookVars>>
    PROVE  IInv'
<1>1. /\ call[c].pc = "update"
      /\ UNCHANGED <<active, notifications, tables, webhookVars>>
  BY DEF UpdatePreferences
<1>2. /\ call[c] \in Request
      /\ CallOK(c, call[c], preferences, notifications, fuelRecords, events)
  BY InHand
<1>3. CASE DOMAIN input = {}
  <2>1. /\ call' = [call EXCEPT ![c] = [call[c] EXCEPT !.pc = "failed"]]
        /\ UNCHANGED <<active, preferences, notifications, tables, webhookVars>>
    BY <1>3 DEF UpdatePreferences, Goto
  <2>2. CallOK(c, [call[c] EXCEPT !.pc = "failed"],
               preferences, notifications, fuelRecords, events)
    BY <1>1, <1>2, GoesOn DEF Steps
  <2>3. QED
    BY <2>1, <2>2, OnlyCall
<1>4. CASE DOMAIN input # {}
  <2> DEFINE u == call[c].user
             row == [f \in PreferenceFields |->
                       IF f \in DOMAIN input THEN input[f] ELSE preferences[u][f]]
             new == [preferences EXCEPT ![u] = row]
  <2>1. preferences' = new /\ call' = [Witnessed(new) EXCEPT ![c].pc = "done"]
    BY <1>4 DEF UpdatePreferences
  <2>2. u \in Users /\ preferences[u] \in PreferenceRow
    BY <1>1, <1>2 DEF CallOK, LocalsOK, IInv, NotificationsOK
  <2>3. row \in PreferenceRow
    BY <2>2, FuelAssumption DEF PreferenceRow
  <2>4. /\ new \in [Users -> PreferenceRow \cup {None}]
        /\ \A k \in Users : preferences[k] # None => new[k] # None
    BY <2>2, <2>3, NoneIsNoRow DEF IInv, NotificationsOK
  <2> HIDE DEF new
  <2>5. \A d \in Calls : CallOK(d, Witnessed(new)[d], new, notifications, fuelRecords, events)
    BY <2>4, WitnessedOK
  <2>6. /\ \A d \in Calls : Witnessed(new)[d] \in Request
        /\ Witnessed(new)[c].pc = "update"
    <3>1. \A d \in Calls : Witnessed(new)[d] \in Request
      BY <2>5 DEF CallOK
    <3>2. Witnessed(new)[c].pc = "update"
      BY <1>1, <1>2 DEF Witnessed, Request
    <3>3. QED
      BY <3>1, <3>2
  <2> DEFINE old == Witnessed(new)
             w == [old[c] EXCEPT !.pc = "done"]
  <2>7. old \in [Calls -> Request]
    BY <2>6 DEF Witnessed
  <2>8. CallOK(c, w, new, notifications, fuelRecords, events)
    BY <2>5, <2>6, GoesOn DEF Steps
  <2>9. w \in Request
    BY <2>8 DEF CallOK
  <2>10. call' = [old EXCEPT ![c] = w]
    BY <2>1
  <2> HIDE DEF old
  <2>11. /\ call' \in [Calls -> Request]
         /\ \A d \in Calls : call'[d] = IF d = c THEN w ELSE old[d]
    BY <2>7, <2>9, <2>10
  <2> HIDE DEF w
  <2>12. ASSUME NEW d \in Calls
         PROVE  CallOK(d, call'[d], preferences', notifications', fuelRecords', events')
    BY <1>1, <2>1, <2>5, <2>8, <2>11 DEF old
  <2>13. CallsOK'
    BY <2>11, <2>12 DEF CallsOK
  <2>14. NotificationsOK' /\ RecordsOK' /\ WebhooksOK'
    BY <1>1, <2>1, <2>4 DEF IInv, NotificationsOK, NoUnwantedNotification, RecordsOK,
                            OdometerFollowsRealTime, WebhooksOK
  <2>15. QED
    BY <2>13, <2>14 DEF IInv
<1>5. QED
  BY <1>3, <1>4

(* Reading a notification does not make it less wanted. *)
LEMMA MarkStep ==
    ASSUME IInv, NEW c \in Calls,
           MarkAsRead(c) \/ MarkAllAsRead(c), UNCHANGED <<tables, webhookVars>>
    PROVE  IInv'
<1>1. PICK pc \in {"done", "failed"} :
         call' = [call EXCEPT ![c] = [call[c] EXCEPT !.pc = pc]]
  BY DEF MarkAsRead, MarkAllAsRead, Goto
<1>2. /\ call[c].pc \in {"markAsRead", "markAllAsRead"}
      /\ UNCHANGED <<active, preferences, tables, webhookVars>>
  BY DEF MarkAsRead, MarkAllAsRead
<1>3. CallOK(c, call[c], preferences, notifications, fuelRecords, events)
  BY InHand
<1>4. /\ notifications \in Seq(NotificationRow)
      /\ Len(notifications) \in Nat
      /\ DOMAIN notifications = 1..Len(notifications)
      /\ \A n \in DOMAIN notifications : notifications[n].wanted
  BY LenProperties DEF IInv, NotificationsOK, NoUnwantedNotification
<1>5. ASSUME NEW n \in DOMAIN notifications
      PROVE  LET marked == [notifications[n] EXCEPT !.read = TRUE]
             IN  marked \in NotificationRow /\ marked.wanted = notifications[n].wanted
  <2>1. notifications[n] \in NotificationRow
    BY <1>4, <1>5, ElementOfSeq
  <2>2. QED
    BY <2>1 DEF NotificationRow
<1>6. /\ notifications' \in Seq(NotificationRow)
      /\ Len(notifications') = Len(notifications)
      /\ \A n \in 1..Len(notifications) : notifications'[n].wanted
  <2>1. CASE MarkAsRead(c)
    <3>1. call[c].id \in 1..Len(notifications)
      BY <1>3, <2>1 DEF MarkAsRead, CallOK, LocalsOK
    <3> DEFINE i == call[c].id
               marked == [notifications[i] EXCEPT !.read = TRUE]
    <3>2. notifications' = [notifications EXCEPT ![i] = marked]
      BY <2>1 DEF MarkAsRead
    <3>3. marked \in NotificationRow /\ marked.wanted = notifications[i].wanted
      BY <1>4, <1>5, <3>1
    <3> HIDE DEF marked
    <3>4. /\ notifications' \in Seq(NotificationRow)
          /\ Len(notifications') = Len(notifications)
          /\ \A n \in 1..Len(notifications) :
                notifications'[n] = IF n = i THEN marked ELSE notifications[n]
      BY <1>4, <3>1, <3>2, <3>3, ExceptSeq
    <3>5. QED
      BY <1>4, <3>1, <3>3, <3>4
  <2>2. CASE MarkAllAsRead(c) /\ notifications' # notifications
    <3> DEFINE marked == [n \in DOMAIN notifications |->
                            IF notifications[n].userId = call[c].user
                            THEN [notifications[n] EXCEPT !.read = TRUE]
                            ELSE notifications[n]]
    <3>1. notifications' = marked
      BY <2>2 DEF MarkAllAsRead
    <3>2. \A n \in 1..Len(notifications) :
             /\ marked[n] \in NotificationRow
             /\ marked[n].wanted = notifications[n].wanted
      BY <1>4, <1>5, ElementOfSeq
    <3>3. DOMAIN marked = 1..Len(notifications)
      BY <1>4
    <3>4. marked \in [1..Len(notifications) -> NotificationRow]
      BY <1>4, <3>2
    <3> HIDE DEF marked
    <3>5. marked \in Seq(NotificationRow)
      BY <1>4, <3>4, SeqDef
    <3>6. Len(marked) = Len(notifications)
      BY <1>4, <3>3, <3>5, LenProperties
    <3>7. QED
      BY <1>4, <3>1, <3>2, <3>5, <3>6
  <2>3. CASE notifications' = notifications
    BY <1>4, <2>3
  <2>4. QED
    BY <2>1, <2>2, <2>3
<1>7. NotificationsOK' /\ RecordsOK' /\ WebhooksOK'
  <2>1. NoUnwantedNotification'
    BY <1>4, <1>6, LenProperties DEF NoUnwantedNotification
  <2>2. QED
    BY <1>2, <1>6, <2>1 DEF IInv, NotificationsOK, RecordsOK, OdometerFollowsRealTime, WebhooksOK
<1>8. Forward /\ Len(notifications') \in Nat /\ Len(fuelRecords') \in Nat
  BY <1>2, <1>6, Lengths DEF Forward
<1>9. CallOK(c, call[c], preferences', notifications', fuelRecords', events')
  BY <1>3, <1>8, CallKept
<1>10. CallOK(c, [call[c] EXCEPT !.pc = pc],
              preferences', notifications', fuelRecords', events')
  BY <1>2, <1>9, GoesOn DEF Steps
<1>11. QED
  BY <1>1, <1>7, <1>8, <1>10, CallMoves DEF IInv

-----------------------------------------------------------------------------
(***************************************************************************)
(* Records, inspections and webhooks.                                      *)
(***************************************************************************)

(* The record that is inserted reads no less than those its request saw.   *)
LEMMA InsertFuelRecordStep ==
    ASSUME IInv, NEW c \in Calls, InsertFuelRecord(c)
    PROVE  IInv'
<1> DEFINE q == call[c]
           row == [vehicleId |-> q.vehicle, odometerReading |-> q.reading,
                   tripId |-> q.trip, by |-> c, seen |-> q.seen]
           w == [q EXCEPT !.pc = "recipient"]
           n == Len(fuelRecords)
<1>1. /\ q.pc = "insertFuel"
      /\ fuelRecords' = Append(fuelRecords, row)
      /\ call' = [call EXCEPT ![c] = w]
      /\ UNCHANGED <<active, preferences, notifications, inspections, webhookVars>>
  BY DEF InsertFuelRecord, Goto
<1>2. q \in Request /\ CallOK(c, q, preferences, notifications, fuelRecords, events)
  BY InHand
<1>3. /\ q.vehicle \in Vehicles /\ q.reading \in Nat /\ q.trip \in Trips \cup {None}
      /\ q.seen \in Nat /\ q.seen <= n /\ q.type # None
      /\ \A i \in 1..q.seen : fuelRecords[i].vehicleId = q.vehicle =>
                                 fuelRecords[i].odometerReading <= q.reading
  <2>1. q.reading \in Int /\ q.trip \in Trips \cup {None} /\ q.seen \in Nat
    BY <1>2 DEF Request
  <2>2. OdometerOK(q, fuelRecords)
    BY <1>2 DEF CallOK
  <2>3. q.type # None
    BY <1>1, <1>2, <2>2 DEF CallOK, LocalsOK, OdometerOK
  <2>4. QED
    BY <1>1, <2>1, <2>2, <2>3 DEF OdometerOK
<1>4. /\ row \in FuelRow /\ row.vehicleId = q.vehicle
      /\ row.odometerReading = q.reading /\ row.seen = q.seen
  BY <1>3 DEF FuelRow
<1> HIDE DEF row
<1>5. /\ fuelRecords \in Seq(FuelRow) /\ n \in Nat /\ DOMAIN fuelRecords = 1..n
      /\ fuelRecords' \in Seq(FuelRow) /\ Len(fuelRecords') = n + 1
      /\ DOMAIN fuelRecords' = 1..(n + 1)
      /\ \A i \in 1..n : fuelRecords'[i] = fuelRecords[i]
      /\ fuelRecords'[n + 1] = row
  <2>1. fuelRecords \in Seq(FuelRow)
    BY DEF IInv, RecordsOK
  <2>2. n \in Nat /\ DOMAIN fuelRecords = 1..n
    BY <2>1, LenProperties
  <2>3. /\ fuelRecords' \in Seq(FuelRow) /\ Len(fuelRecords') = n + 1
        /\ \A i \in 1..n : fuelRecords'[i] = fuelRecords[i]
        /\ fuelRecords'[n + 1] = row
    BY <1>1, <1>4, <2>1, AppendProperties
  <2>4. DOMAIN fuelRecords' = 1..(n + 1)
    BY <2>3, LenProperties
  <2>5. QED
    BY <2>1, <2>2, <2>3, <2>4
<1> HIDE DEF n
<1>6. \A j \in DOMAIN fuelRecords' : fuelRecords'[j].seen < j
  <2>1. ASSUME NEW j \in 1..(n + 1) PROVE fuelRecords'[j].seen < j
    <3>1. CASE j = n + 1
      BY <1>3, <1>4, <1>5, <3>1
    <3>2. CASE j \in 1..n
      BY <1>5, <3>2 DEF IInv, RecordsOK
    <3>3. QED
      BY <1>5, <2>1, <3>1, <3>2
  <2>2. QED
    BY <1>5, <2>1
<1>7. OdometerFollowsRealTime'
  <2>1. ASSUME NEW j \in 1..(n + 1), NEW i \in 1..(n + 1),
               i <= fuelRecords'[j].seen,
               fuelRecords'[i].vehicleId = fuelRecords'[j].vehicleId
        PROVE  fuelRecords'[i].odometerReading <= fuelRecords'[j].odometerReading
    <3>1. CASE j = n + 1
      <4>1. i \in 1..q.seen /\ i \in 1..n
        BY <1>3, <1>4, <1>5, <2>1, <3>1
      <4>2. QED
        BY <1>3, <1>4, <1>5, <2>1, <3>1, <4>1
    <3>2. CASE j \in 1..n
      <4>1. fuelRecords[j] \in FuelRow /\ fuelRecords[j].seen < j
        BY <1>5, <3>2, ElementOfSeq DEF IInv, RecordsOK
      <4>2. i \in 1..n
        BY <1>5, <2>1, <3>2, <4>1 DEF FuelRow
      <4>3. fuelRecords'[i] = fuelRecords[i] /\ fuelRecords'[j] = fuelRecords[j]
        BY <1>5, <3>2, <4>2
      <4>4. OdometerFollowsRealTime /\ i \in DOMAIN fuelRecords /\ j \in DOMAIN fuelRecords
        BY <1>5, <3>2, <4>2 DEF IInv, RecordsOK
      <4>5. QED
        BY <2>1, <4>3, <4>4 DEF OdometerFollowsRealTime
    <3>3. QED
      BY <1>5, <2>1, <3>1, <3>2
  <2>2. QED
    BY <1>5, <2>1 DEF OdometerFollowsRealTime
<1>8. NotificationsOK' /\ RecordsOK' /\ WebhooksOK'
  BY <1>1, <1>5, <1>6, <1>7 DEF IInv, NotificationsOK, NoUnwantedNotification, RecordsOK,
                                WebhooksOK
<1>9. Forward /\ Len(notifications') \in Nat /\ Len(fuelRecords') \in Nat
  <2>1. Len(fuelRecords) = n
    BY DEF n
  <2>2. QED
    BY <1>1, <1>5, <2>1, Lengths DEF Forward
<1>10. CallOK(c, w, preferences', notifications', fuelRecords', events')
  <2>1. CallOK(c, q, preferences', notifications', fuelRecords', events')
    BY <1>2, <1>9, CallKept
  <2>2. QED
    BY <1>1, <1>3, <2>1, GoesOn DEF Steps
<1> HIDE DEF w, q
<1>11. QED
  BY <1>1, <1>8, <1>9, <1>10, CallMoves DEF IInv

(* A step that writes inspections or webhooks and moves its request. *)
LEMMA AnnounceStep ==
    ASSUME IInv, NEW c \in Calls,
           \/ InsertInspection(c) \/ Publish(c) \/ Deliver(c)
           \/ \E reached \in SUBSET Endpoints : DeliverSome(c, reached)
    PROVE  IInv'
<1> DEFINE q == call[c]
<1>1. PICK pc \in {"done", "failed", "recipient", "findEndpoints"} :
         /\ pc = "findEndpoints" => Publish(c)
         /\ pc = "recipient" => InsertInspection(c)
         /\ call' = [call EXCEPT ![c] = [q EXCEPT !.pc = pc]]
  BY DEF InsertInspection, Publish, Deliver, DeliverSome, Goto
<1>2. /\ q.pc \in {"insertInspection", "publish", "deliver"}
      /\ UNCHANGED <<active, preferences, notifications, fuelRecords, listening>>
      /\ inspections' \in {inspections, inspections \cup {c}}
      /\ events' \in {events, events \cup {c}}
      /\ Publish(c) => c \in events' /\ q.pc = "publish"
      /\ InsertInspection(c) => q.pc = "insertInspection"
  BY DEF InsertInspection, Publish, Deliver, DeliverSome
<1>3. q \in Request /\ CallOK(c, q, preferences, notifications, fuelRecords, events)
  BY InHand
<1>4. WebhooksOK'
  <2>1. CASE Deliver(c) \/ \E reached \in SUBSET Endpoints : DeliverSome(c, reached)
    <3>1. c \in events /\ events' = events /\ listening' = listening
      BY <1>3, <2>1 DEF CallOK, Deliver, DeliverSome
    <3>2. PICK reached \in SUBSET Endpoints :
             deliveries' = deliveries \cup ({c} \X reached)
      <4>1. CASE Deliver(c)
        <5>1. deliveries' = deliveries \cup ({c} \X q.found) /\ q.found \in SUBSET Endpoints
          BY <1>3, <4>1 DEF Deliver, Request
        <5>2. QED
          BY <5>1
      <4>2. CASE ~Deliver(c)
        BY <2>1, <4>2 DEF DeliverSome
      <4>3. QED
        BY <4>1, <4>2
    <3>3. deliveries' \subseteq events' \X Endpoints
      BY <3>1, <3>2 DEF IInv, WebhooksOK
    <3>4. QED
      BY <3>1, <3>3 DEF IInv, WebhooksOK
  <2>2. CASE InsertInspection(c) \/ Publish(c)
    BY <1>2, <2>2 DEF InsertInspection, Publish, IInv, WebhooksOK
  <2>3. QED
    BY <2>1, <2>2
<1>5. NotificationsOK' /\ RecordsOK'
  BY <1>2 DEF IInv, NotificationsOK, NoUnwantedNotification, RecordsOK,
              OdometerFollowsRealTime
<1>6. Forward /\ Len(notifications') \in Nat /\ Len(fuelRecords') \in Nat
  BY <1>2, Lengths DEF Forward
<1>7. CallOK(c, q, preferences', notifications', fuelRecords', events')
  BY <1>3, <1>6, CallKept
<1> DEFINE w == [q EXCEPT !.pc = pc]
<1>8. CallOK(c, w, preferences', notifications', fuelRecords', events')
  <2>1. CASE pc # "findEndpoints"
    <3>1. pc = "recipient" => q.type # None \/ q.kind \in {"update", "read"}
      BY <1>1, <1>2, <1>3 DEF CallOK, LocalsOK
    <3>2. QED
      BY <1>2, <1>7, <2>1, <3>1, GoesOn DEF Steps
  <2>2. CASE pc = "findEndpoints"
    <3>1. q.pc = "publish" /\ c \in events'
      BY <1>1, <1>2, <2>2
    <3>2. /\ w \in Request /\ w.pc = pc
          /\ w.kind = q.kind /\ w.user = q.user /\ w.vehicle = q.vehicle
          /\ w.reading = q.reading /\ w.type = q.type /\ w.id = q.id
          /\ w.then = q.then /\ w.on = q.on /\ w.seen = q.seen
      <4>1. pc \in Steps
        BY <2>2 DEF Steps
      <4> HIDE DEF q
      <4>2. QED
        BY <1>3, <4>1, Moved
    <3> HIDE DEF w, q
    <3>3. AnnouncesOK(w, preferences')
      BY <1>7, <2>2, <3>1, <3>2 DEF CallOK, AnnouncesOK
    <3>4. OdometerOK(w, fuelRecords')
      BY <1>7, <2>2, <3>1, <3>2 DEF CallOK, OdometerOK
    <3>5. LocalsOK(w, preferences', notifications')
      BY <1>7, <2>2, <3>1, <3>2 DEF CallOK, LocalsOK
    <3>6. QED
      BY <3>1, <3>2, <3>3, <3>4, <3>5 DEF CallOK
  <2>3. QED
    BY <2>1, <2>2
<1>9. call' = [call EXCEPT ![c] = w]
  BY <1>1
<1> HIDE DEF w
<1>10. QED
  BY <1>4, <1>5, <1>6, <1>8, <1>9, CallMoves DEF IInv

(* The endpoints to deliver to are found; nothing is written. *)
LEMMA FindEndpointsStep ==
    ASSUME IInv, NEW c \in Calls, FindEndpoints(c)
    PROVE  IInv'
<1> DEFINE q == call[c]
           found == {e \in Endpoints : listening[e]}
           w == [q EXCEPT !.pc = "deliver", !.found = found]
<1>1. /\ q.pc = "findEndpoints" /\ call' = [call EXCEPT ![c] = w]
      /\ UNCHANGED <<active, preferences, notifications, tables, webhookVars>>
  BY DEF FindEndpoints
<1>2. q \in Request /\ CallOK(c, q, preferences, notifications, fuelRecords, events)
  BY InHand
<1>3. "deliver" \in Steps /\ found \in SUBSET Endpoints
  BY DEF Steps
<1> HIDE DEF q, found
<1>4. /\ w \in Request /\ w.pc = "deliver"
      /\ w.kind = q.kind /\ w.user = q.user /\ w.vehicle = q.vehicle
      /\ w.reading = q.reading /\ w.type = q.type /\ w.id = q.id
      /\ w.then = q.then /\ w.on = q.on /\ w.seen = q.seen
  BY <1>2, <1>3 DEF Request
<1> HIDE DEF w
<1>5. AnnouncesOK(w, preferences)
  BY <1>1, <1>2, <1>4 DEF CallOK, AnnouncesOK
<1>6. OdometerOK(w, fuelRecords)
  BY <1>1, <1>2, <1>4 DEF CallOK, OdometerOK
<1>7. LocalsOK(w, preferences, notifications)
  BY <1>1, <1>2, <1>4 DEF CallOK, LocalsOK
<1>8. CallOK(c, w, preferences, notifications, fuelRecords, events)
  BY <1>1, <1>2, <1>4, <1>5, <1>6, <1>7 DEF CallOK
<1>9. QED
  BY <1>1, <1>8, OnlyCall

(* A user is deactivated; no claim about a request reads it. *)
LEMMA DeactivateStep ==
    ASSUME IInv, NEW u \in Users, DeactivateUser(u)
    PROVE  IInv'
<1>1. /\ active' \in [Users -> BOOLEAN]
      /\ UNCHANGED <<preferences, notifications, call, tables, webhookVars>>
  BY DEF DeactivateUser, IInv, NotificationsOK
<1>2. NotificationsOK' /\ RecordsOK' /\ WebhooksOK'
  BY <1>1 DEF IInv, NotificationsOK, NoUnwantedNotification, RecordsOK,
              OdometerFollowsRealTime, WebhooksOK
<1>3. CallsOK'
  BY <1>1 DEF IInv, CallsOK
<1>4. QED
  BY <1>2, <1>3 DEF IInv

(* An endpoint is switched; the requests lose it from their history. *)
LEMMA UpdateEndpointStep ==
    ASSUME IInv, NEW e \in Endpoints, UpdateEndpoint(e)
    PROVE  IInv'
<1> DEFINE w(c) == [call[c] EXCEPT !.reach = @ \ {e}]
<1>1. /\ call' = [c \in Calls |-> w(c)]
      /\ listening' \in [Endpoints -> BOOLEAN]
      /\ UNCHANGED <<active, preferences, notifications, tables, events, deliveries>>
  BY DEF UpdateEndpoint, IInv, WebhooksOK
<1>2. ASSUME NEW c \in Calls
      PROVE  CallOK(c, w(c), preferences, notifications, fuelRecords, events)
  <2> DEFINE q == call[c]
  <2>1. /\ q \in Request
        /\ CallOK(c, q, preferences, notifications, fuelRecords, events)
    BY InHand
  <2>2. /\ w(c) \in Request /\ w(c).pc = q.pc
        /\ w(c).kind = q.kind /\ w(c).user = q.user /\ w(c).vehicle = q.vehicle
        /\ w(c).reading = q.reading /\ w(c).type = q.type /\ w(c).id = q.id
        /\ w(c).then = q.then /\ w(c).on = q.on /\ w(c).seen = q.seen
    BY <2>1 DEF Request
  <2> HIDE DEF w, q
  <2>3. AnnouncesOK(w(c), preferences)
    BY <2>1, <2>2 DEF CallOK, AnnouncesOK
  <2>4. OdometerOK(w(c), fuelRecords)
    BY <2>1, <2>2 DEF CallOK, OdometerOK
  <2>5. LocalsOK(w(c), preferences, notifications)
    BY <2>1, <2>2 DEF CallOK, LocalsOK
  <2>6. QED
    BY <2>1, <2>2, <2>3, <2>4, <2>5 DEF CallOK
<1> HIDE DEF w
<1>3. \A c \in Calls : w(c) \in Request
  BY <1>2 DEF CallOK
<1>4. CallsOK'
  BY <1>1, <1>2, <1>3 DEF CallsOK
<1>5. NotificationsOK' /\ RecordsOK' /\ WebhooksOK'
  BY <1>1 DEF IInv, NotificationsOK, NoUnwantedNotification, RecordsOK,
              OdometerFollowsRealTime, WebhooksOK
<1>6. QED
  BY <1>4, <1>5 DEF IInv

-----------------------------------------------------------------------------
(***************************************************************************)
(* The invariant, and what follows from it.                                *)
(***************************************************************************)

(* There is no request and no row at first. *)
LEMMA Initially == Init => IInv
<1> SUFFICES ASSUME Init PROVE IInv
  OBVIOUS
<1>1. /\ notifications \in Seq(NotificationRow) /\ DOMAIN notifications = {}
      /\ fuelRecords \in Seq(FuelRow) /\ DOMAIN fuelRecords = {} /\ Len(fuelRecords) = 0
  BY DEF Init
<1>2. NotificationsOK /\ RecordsOK /\ WebhooksOK
  BY <1>1 DEF Init, NotificationsOK, NoUnwantedNotification, RecordsOK,
              OdometerFollowsRealTime, WebhooksOK
<1>3. /\ Idle.pc = "idle" /\ Idle.kind = None /\ Idle.type = None /\ Idle.seen = 0
      /\ Idle.then = "done"
  BY DEF Idle
<1>4. ASSUME NEW c \in Calls
      PROVE  CallOK(c, Idle, preferences, notifications, fuelRecords, events)
  <2>1. AnnouncesOK(Idle, preferences) /\ LocalsOK(Idle, preferences, notifications)
    BY <1>3 DEF AnnouncesOK, LocalsOK
  <2>2. OdometerOK(Idle, fuelRecords)
    BY <1>1, <1>3 DEF OdometerOK
  <2>3. QED
    BY <1>3, <2>1, <2>2, IdleOK DEF CallOK
<1>5. CallsOK
  BY <1>4, IdleOK DEF Init, CallsOK
<1>6. QED
  BY <1>2, <1>5 DEF IInv

(* Every step keeps the invariant. *)
LEMMA EveryStep == IInv /\ [Next]_vars => IInv'
<1> SUFFICES ASSUME IInv, [Next]_vars PROVE IInv'
  OBVIOUS
<1>1. ASSUME NEW c \in Calls, NEW u \in Users,
             \/ \E v \in Vehicles, reading \in Readings, trip \in Trips \cup {None} :
                   PostFuelRecord(c, u, v, reading, trip)
             \/ \E v \in Vehicles, passed \in BOOLEAN : PostInspection(c, u, v, passed)
             \/ \E kind \in Kinds \ {"fuel", "inspection"} : UseNotifications(c, u, kind)
      PROVE  IInv'
  BY <1>1, PostStep, UseStep
<1>2. ASSUME NEW c \in Calls, Notify(c) PROVE IInv'
  <2>1. UNCHANGED <<tables, webhookVars>>
    BY <1>2 DEF Notify
  <2>2. CASE \E input \in PreferenceInputs : UpdatePreferences(c, input)
    BY <2>1, <2>2, UpdatePreferencesStep
  <2>3. CASE \E n \in 1..(Len(notifications) + 1) : FindNotification(c, n)
    BY <2>1, <2>3, FindNotificationStep
  <2>4. QED
    BY <1>2, <2>1, <2>2, <2>3, RecipientOrThrowStep, FindPreferencesStep,
       CreateDefaultsStep, InsertNotificationStep, MarkStep
       DEF Notify, NotificationStep
<1>3. ASSUME NEW c \in Calls,
             \/ RequireAuthor(c) \/ ValidateFuelRecord(c) \/ InsertFuelRecord(c)
             \/ InsertInspection(c) \/ Publish(c) \/ Deliver(c) \/ Throw(c)
             \/ FindEndpoints(c)
             \/ \E reached \in SUBSET Endpoints : DeliverSome(c, reached)
      PROVE  IInv'
  BY <1>3, AuthorStep, ValidateStep, InsertFuelRecordStep, AnnounceStep, RecipientOrThrowStep,
     FindEndpointsStep
<1>4. ASSUME \/ \E u \in Users : DeactivateUser(u)
             \/ \E e \in Endpoints : UpdateEndpoint(e)
      PROVE  IInv'
  BY <1>4, DeactivateStep, UpdateEndpointStep
<1>5. CASE UNCHANGED vars
  BY <1>5 DEF vars, notificationVars, IInv, NotificationsOK, NoUnwantedNotification, RecordsOK,
              OdometerFollowsRealTime, WebhooksOK, CallsOK
<1>6. QED
  BY <1>1, <1>2, <1>3, <1>4, <1>5 DEF Next

(* The invariant holds of every behaviour. *)
THEOREM Inductive == Spec => []IInv
BY Initially, EveryStep, PTL DEF Spec

(* Types; no delivery without its event. *)
THEOREM TypeCorrect == Spec => []TypeOK
<1>1. IInv => TypeOK
  BY DEF IInv, NotificationsOK, RecordsOK, WebhooksOK, CallsOK, TypeOK
<1>2. QED
  BY <1>1, Inductive, PTL

(* A record reads no less than one that was there when its request came.   *)
THEOREM OdometerKept == Spec => []OdometerFollowsRealTime
<1>1. IInv => OdometerFollowsRealTime
  BY DEF IInv, RecordsOK
<1>2. QED
  BY <1>1, Inductive, PTL

(* No notification of a type its user had disabled all the time.           *)
THEOREM OnlyWanted == Spec => []NoUnwantedNotification
<1>1. IInv => NoUnwantedNotification
  BY DEF IInv, NotificationsOK
<1>2. QED
  BY <1>1, Inductive, PTL

-----------------------------------------------------------------------------
(***************************************************************************)
(* What a request has done so far.  The invariant above says what a        *)
(* request knows; this one, on top of it, says what it leaves behind:      *)
(* rows, notifications, events and deliveries, by program counter.         *)
(***************************************************************************)

NoneBy(table, c) == \A i \in DOMAIN table : table[i].by # c

OneBy(table, c) ==
    \E i \in DOMAIN table : \A j \in DOMAIN table : table[j].by = c <=> j = i

Unrecorded == {"author", "odometer", "insertFuel", "insertInspection"}
Unannounced == {"recipient", "ensure", "createDefaults", "insertNotification"}
Announced == {"publish", "findEndpoints", "deliver", "done"}

Announces(c) == call[c].pc # "idle" /\ call[c].kind \in {"fuel", "inspection"}
Silent(c) == call[c].kind = "inspection" /\ call[c].passed

(* Where a request may be, and what its history has witnessed. *)
RouteOK(c) ==
    /\ call[c].reach \subseteq {e \in Endpoints : listening[e]}
    /\ Announces(c) =>
          /\ call[c].pc \in Unrecorded \cup Unannounced \cup Announced \cup {"failed"}
          /\ call[c].kind = "fuel" => call[c].pc # "insertInspection"
          /\ Silent(c) => call[c].pc \in {"author", "insertInspection", "done", "failed"}
          /\ call[c].then = "publish" /\ call[c].type # None
          /\ ~WantsIn(preferences, call[c].user, call[c].type) => call[c].off

(* Its row is inserted before anything is announced, once. *)
RowOK(c) ==
    /\ call[c].pc = "idle" => NoneBy(fuelRecords, c)
    /\ Announces(c) =>
          /\ call[c].pc \in Unrecorded => NoneBy(fuelRecords, c)
          /\ call[c].pc \in Unannounced \cup Announced =>
                IF call[c].kind = "fuel" THEN OneBy(fuelRecords, c) ELSE c \in inspections

(* Its notification, once; none when the type was off. *)
NoteOK(c) ==
    /\ call[c].pc = "idle" => NoneBy(notifications, c)
    /\ Announces(c) =>
          /\ call[c].pc \in Unrecorded \cup Unannounced \/ Silent(c) =>
                NoneBy(notifications, c)
          /\ call[c].pc \in Announced /\ ~Silent(c) =>
                OneBy(notifications, c) \/ (NoneBy(notifications, c) /\ call[c].off)

(* Its event and its deliveries come last. *)
EventOK(c) ==
    /\ call[c].pc = "idle" => c \notin events
    /\ Announces(c) =>
          /\ call[c].pc \in Unrecorded \cup Unannounced \/ Silent(c) => c \notin events
          /\ call[c].pc = "deliver" => call[c].reach \subseteq call[c].found
          /\ call[c].pc = "done" /\ ~Silent(c) =>
                c \in events /\ {c} \X call[c].reach \subseteq deliveries

ProgressOK(c) == RouteOK(c) /\ RowOK(c) /\ NoteOK(c) /\ EventOK(c)

Progress == \A c \in Calls : ProgressOK(c)

-----------------------------------------------------------------------------
(* A row is appended: it is the first of its request, another request keeps *)
(* what it has.                                                            *)
LEMMA Appended ==
    ASSUME NEW S, NEW table \in Seq(S), NEW row \in S, NEW c
    PROVE  LET longer == Append(table, row)
           IN  /\ row.by = c /\ NoneBy(table, c) => OneBy(longer, c)
               /\ row.by # c /\ NoneBy(table, c) => NoneBy(longer, c)
               /\ row.by # c /\ OneBy(table, c) => OneBy(longer, c)
<1> DEFINE longer == Append(table, row)
           n == Len(table)
<1>1. /\ n \in Nat /\ DOMAIN table = 1..n
      /\ longer \in Seq(S) /\ Len(longer) = n + 1
      /\ \A i \in 1..n : longer[i] = table[i]
      /\ longer[n + 1] = row
  BY AppendProperties, LenProperties
<1>2. DOMAIN longer = 1..(n + 1)
  BY <1>1, LenProperties
<1> HIDE DEF longer, n
<1>3. ASSUME row.by = c, NoneBy(table, c) PROVE OneBy(longer, c)
  <2>1. \A j \in 1..(n + 1) : longer[j].by = c <=> j = n + 1
    BY <1>1, <1>3 DEF NoneBy
  <2>2. n + 1 \in 1..(n + 1)
    BY <1>1
  <2>3. QED
    BY <1>2, <2>1, <2>2 DEF OneBy
<1>4. ASSUME row.by # c, NoneBy(table, c) PROVE NoneBy(longer, c)
  BY <1>1, <1>2, <1>4 DEF NoneBy
<1>5. ASSUME row.by # c, OneBy(table, c) PROVE OneBy(longer, c)
  <2>1. PICK i \in DOMAIN table : \A j \in DOMAIN table : table[j].by = c <=> j = i
    BY <1>5 DEF OneBy
  <2>2. \A j \in 1..(n + 1) : longer[j].by = c <=> j = i
    BY <1>1, <1>5, <2>1
  <2>3. i \in 1..(n + 1)
    BY <1>1
  <2>4. QED
    BY <1>2, <2>2, <2>3 DEF OneBy
<1>6. QED
  BY <1>3, <1>4, <1>5 DEF longer

(* What the step of one request means for another one. *)
Undisturbed(d) ==
    /\ call'[d] = call[d] /\ listening' = listening
    /\ \A u \in Users, type \in NotificationType :
          WantsIn(preferences, u, type) => WantsIn(preferences', u, type)
    /\ NoneBy(fuelRecords, d) => NoneBy(fuelRecords', d)
    /\ OneBy(fuelRecords, d) => OneBy(fuelRecords', d)
    /\ NoneBy(notifications, d) => NoneBy(notifications', d)
    /\ OneBy(notifications, d) => OneBy(notifications', d)
    /\ d \in inspections => d \in inspections'
    /\ d \in events <=> d \in events'
    /\ deliveries \subseteq deliveries'

(* The types and the user of a request that announces something. *)
LEMMA AnnouncesWhat ==
    ASSUME IInv, Progress, NEW c \in Calls, Announces(c)
    PROVE  call[c].user \in Users /\ call[c].type \in NotificationType
<1>1. call[c] \in Request /\ LocalsOK(call[c], preferences, notifications)
  BY InHand DEF CallOK
<1>2. call[c].type # None
  BY DEF Progress, ProgressOK, RouteOK
<1>3. QED
  BY <1>1, <1>2 DEF Request, LocalsOK, Announces

(* One request moves, the others are undisturbed. *)
LEMMA OneProgresses ==
    ASSUME IInv, Progress, NEW c \in Calls, ProgressOK(c)',
           \A d \in Calls \ {c} : Undisturbed(d)
    PROVE  Progress'
<1>1. ASSUME NEW d \in Calls \ {c} PROVE ProgressOK(d)'
  <2>1. ProgressOK(d) /\ Undisturbed(d)
    BY DEF Progress
  <2>2. Announces(d) => call[d].user \in Users /\ call[d].type \in NotificationType
    BY AnnouncesWhat
  <2>3. (Announces(d)' <=> Announces(d)) /\ (Silent(d)' <=> Silent(d))
    BY <2>1 DEF Undisturbed, Announces, Silent
  <2>4. RouteOK(d)'
    <3>1. /\ call'[d] = call[d] /\ listening' = listening
          /\ Announces(d) /\ ~WantsIn(preferences', call[d].user, call[d].type) =>
                ~WantsIn(preferences, call[d].user, call[d].type)
      BY <2>1, <2>2 DEF Undisturbed
    <3>2. QED
      BY <2>1, <2>3, <3>1 DEF ProgressOK, RouteOK
  <2>5. RowOK(d)'
    BY <2>1, <2>3 DEF ProgressOK, RowOK, Undisturbed
  <2>6. NoteOK(d)'
    BY <2>1, <2>3 DEF ProgressOK, NoteOK, Undisturbed
  <2>7. EventOK(d)'
    BY <2>1, <2>3 DEF ProgressOK, EventOK, Undisturbed
  <2>8. QED
    BY <2>4, <2>5, <2>6, <2>7 DEF ProgressOK
<1>2. QED
  BY <1>1 DEF Progress

(* A step that writes no table disturbs no other request. *)
LEMMA OnlyOneMoves ==
    ASSUME IInv, NEW c \in Calls, NEW q, call' = [call EXCEPT ![c] = q],
           UNCHANGED <<preferences, notifications, tables, webhookVars>>
    PROVE  \A d \in Calls \ {c} : Undisturbed(d)
BY DEF Undisturbed, IInv, CallsOK

(* What a request keeps when only its program counter moves. *)
SameRequest(q, w) ==
    /\ w.kind = q.kind /\ w.passed = q.passed /\ w.user = q.user /\ w.type = q.type
    /\ w.then = q.then /\ w.off = q.off /\ w.found = q.found /\ w.reach = q.reach

(* What it keeps when its user changes preferences. *)
SameExceptOff(q, w) ==
    /\ w.kind = q.kind /\ w.passed = q.passed /\ w.user = q.user /\ w.type = q.type
    /\ w.then = q.then /\ w.found = q.found /\ w.reach = q.reach /\ (q.off => w.off)

(* A request that only moves its program counter stays the same request. *)
LEMMA MovesOn ==
    ASSUME IInv, NEW c \in Calls, NEW pc \in Steps,
           call' = [call EXCEPT ![c] = [call[c] EXCEPT !.pc = pc]]
    PROVE  /\ call'[c].pc = pc /\ SameRequest(call[c], call'[c])
           /\ \A d \in Calls \ {c} : call'[d] = call[d]
<1>1. call \in [Calls -> Request] /\ call[c] \in Request
  BY InHand DEF IInv, CallsOK
<1>2. call'[c] = [call[c] EXCEPT !.pc = pc] /\ \A d \in Calls \ {c} : call'[d] = call[d]
  BY <1>1
<1>3. QED
  BY <1>1, <1>2 DEF Request, SameRequest

(* A request about the notifications owes nothing. *)
LEMMA OwesNothing ==
    ASSUME NEW c \in Calls, call'[c].pc # "idle",
           call'[c].kind \notin {"fuel", "inspection"},
           call'[c].reach \subseteq {e \in Endpoints : listening'[e]}
    PROVE  ProgressOK(c)'
BY DEF ProgressOK, RouteOK, RowOK, NoteOK, EventOK, Announces

(* What a request that announces something starts from. *)
Arriving(q, kind, u, type) ==
    /\ q.pc = "author" /\ q.kind = kind /\ q.user = u /\ q.type = type
    /\ q.then = "publish" /\ (q.off <=> ~WantsIn(preferences, u, type))
    /\ q.reach = {e \in Endpoints : listening[e]}

(* The request that createFuelRecord and createInspection leave behind. *)
LEMMA AnnouncingArrives ==
    ASSUME NEW kind, NEW u, NEW type
    PROVE  Arriving(Announcing(kind, u, type), kind, u, type)
<1> DEFINE on == Wants(u, type)
           off == ~Wants(u, type)
           reach == {e \in Endpoints : listening[e]}
           q == [Idle EXCEPT !.kind = kind, !.pc = "author", !.user = u, !.type = type,
                             !.then = "publish", !.on = on, !.off = off,
                             !.seen = Len(fuelRecords), !.reach = reach]
<1>1. Announcing(kind, u, type) = q
  BY DEF Announcing
<1> HIDE DEF on, off, reach
<1>2. /\ q.pc = "author" /\ q.kind = kind /\ q.user = u /\ q.type = type
      /\ q.then = "publish" /\ q.off = off /\ q.reach = reach
  BY DEF Idle
<1>3. off <=> ~WantsIn(preferences, u, type)
  BY DEF off, Wants, WantsIn
<1>4. QED
  BY <1>1, <1>2, <1>3 DEF Arriving, reach

(* A request in flight moves on and writes nothing. *)
LEMMA Steers ==
    ASSUME IInv, Progress, NEW c \in Calls, NEW pc \in Steps \ {"idle"},
           call[c].pc # "idle",
           call' = [call EXCEPT ![c] = [call[c] EXCEPT !.pc = pc]],
           UNCHANGED <<preferences, notifications, tables, webhookVars>>,
           Announces(c) =>
              \/ pc = "failed"
              \/ /\ call[c].pc \in Unrecorded /\ pc \in Unrecorded
                 /\ call[c].kind = "fuel" => pc # "insertInspection"
                 /\ call[c].kind = "inspection" => pc = "insertInspection"
              \/ call[c].pc \in Unannounced /\ pc \in Unannounced
              \/ call[c].pc \in Unannounced /\ pc = "publish" /\ call[c].off
    PROVE  Progress'
<1>1. /\ call'[c].pc = pc /\ SameRequest(call[c], call'[c])
      /\ ProgressOK(c)
  BY MovesOn DEF Progress
<1>2. (Announces(c)' <=> Announces(c)) /\ (Silent(c)' <=> Silent(c))
  BY <1>1 DEF SameRequest, Announces, Silent
<1>3. /\ call'[c].reach \subseteq {e \in Endpoints : listening'[e]}
      /\ WantsIn(preferences, call[c].user, call[c].type) <=>
            WantsIn(preferences', call'[c].user, call'[c].type)
  BY <1>1 DEF SameRequest, ProgressOK, RouteOK, WantsIn
<1>4. ProgressOK(c)'
  <2>1. RouteOK(c)'
    BY <1>1, <1>2, <1>3
       DEF SameRequest, ProgressOK, RouteOK, Silent, Unrecorded, Unannounced, Announced
  <2>2. RowOK(c)'
    <3>1. (NoneBy(fuelRecords, c) <=> NoneBy(fuelRecords', c))
          /\ (OneBy(fuelRecords, c) <=> OneBy(fuelRecords', c)) /\ inspections' = inspections
      OBVIOUS
    <3>2. QED
      BY <1>1, <1>2, <3>1
         DEF SameRequest, ProgressOK, RowOK, Unrecorded, Unannounced, Announced
  <2>3. NoteOK(c)'
    <3>1. (NoneBy(notifications, c) <=> NoneBy(notifications', c))
          /\ (OneBy(notifications, c) <=> OneBy(notifications', c))
      OBVIOUS
    <3>2. QED
      BY <1>1, <1>2, <3>1
         DEF SameRequest, ProgressOK, NoteOK, Unrecorded, Unannounced, Announced
  <2>4. EventOK(c)'
    BY <1>1, <1>2 DEF SameRequest, ProgressOK, EventOK, Unrecorded, Unannounced
  <2>5. QED
    BY <2>1, <2>2, <2>3, <2>4 DEF ProgressOK
<1>5. QED
  BY <1>4, OnlyOneMoves, OneProgresses

(* A request arrives: it has done nothing. *)
LEMMA ArrivesInProgress ==
    ASSUME IInv, Progress, NEW c \in Calls, NEW u \in Users,
           \/ \E v \in Vehicles, reading \in Readings, trip \in Trips \cup {None} :
                 PostFuelRecord(c, u, v, reading, trip)
           \/ \E v \in Vehicles, passed \in BOOLEAN : PostInspection(c, u, v, passed)
           \/ \E kind \in Kinds \ {"fuel", "inspection"} : UseNotifications(c, u, kind)
    PROVE  Progress'
<1>1. /\ call[c].pc = "idle"
      /\ UNCHANGED <<preferences, notifications, tables, webhookVars>>
  BY DEF PostFuelRecord, PostInspection, UseNotifications
<1>2. NoneBy(fuelRecords', c) /\ NoneBy(notifications', c) /\ c \notin events'
  BY <1>1 DEF Progress, ProgressOK, RowOK, NoteOK, EventOK
<1>3. CASE \E kind \in Kinds \ {"fuel", "inspection"} : UseNotifications(c, u, kind)
  <2>1. PICK kind \in Kinds \ {"fuel", "inspection"} : UseNotifications(c, u, kind)
    BY <1>3
  <2> DEFINE q == [Idle EXCEPT !.pc = EntryOf(kind), !.kind = kind, !.user = u]
  <2>2. /\ call' = [call EXCEPT ![c] = q]
        /\ q.pc # "idle" /\ q.kind = kind /\ q.reach = {}
    BY <2>1 DEF UseNotifications, EntryOf, Kinds, Idle
  <2> HIDE DEF q
  <2>3. call'[c] = q
    BY <2>2 DEF IInv, CallsOK
  <2>4. ProgressOK(c)'
    BY <2>2, <2>3, OwesNothing
  <2>5. QED
    BY <1>1, <2>2, <2>4, OnlyOneMoves, OneProgresses
<1>4. CASE \/ \E v \in Vehicles, reading \in Readings, trip \in Trips \cup {None} :
                 PostFuelRecord(c, u, v, reading, trip)
           \/ \E v \in Vehicles, passed \in BOOLEAN : PostInspection(c, u, v, passed)
  <2>1. PICK q \in Request :
           /\ call' = [call EXCEPT ![c] = q]
           /\ q.pc = "author" /\ q.kind \in {"fuel", "inspection"} /\ q.user = u
           /\ q.type \in NotificationType /\ q.then = "publish"
           /\ ~WantsIn(preferences, u, q.type) => q.off
           /\ q.reach = {e \in Endpoints : listening[e]}
    <3>1. CASE \E v \in Vehicles, reading \in Readings, trip \in Trips \cup {None} :
                  PostFuelRecord(c, u, v, reading, trip)
      <4>1. PICK v \in Vehicles, reading \in Readings, trip \in Trips \cup {None} :
               PostFuelRecord(c, u, v, reading, trip)
        BY <3>1
      <4> DEFINE p == Announcing("fuel", u, "FUEL_RECORD_CREATED")
                 q == [p EXCEPT !.vehicle = v, !.reading = reading, !.trip = trip]
      <4>2. p \in Request /\ Arriving(p, "fuel", u, "FUEL_RECORD_CREATED")
        BY AnnouncingOK, AnnouncingArrives DEF Kinds, NotificationType
      <4> HIDE DEF p
      <4>3. reading \in Int
        BY FuelAssumption
      <4>4. q \in Request /\ Arriving(q, "fuel", u, "FUEL_RECORD_CREATED")
        BY <4>2, <4>3 DEF Request, Arriving
      <4>5. call' = [call EXCEPT ![c] = q]
        BY <4>1 DEF PostFuelRecord, p
      <4> HIDE DEF q
      <4>6. QED
        BY <4>4, <4>5 DEF Arriving, NotificationType
    <3>2. CASE \E v \in Vehicles, passed \in BOOLEAN : PostInspection(c, u, v, passed)
      <4>1. PICK v \in Vehicles, passed \in BOOLEAN : PostInspection(c, u, v, passed)
        BY <3>2
      <4> DEFINE p == Announcing("inspection", u, "INSPECTION_FAILED")
                 q == [p EXCEPT !.vehicle = v, !.passed = passed]
      <4>2. p \in Request /\ Arriving(p, "inspection", u, "INSPECTION_FAILED")
        BY AnnouncingOK, AnnouncingArrives DEF Kinds, NotificationType
      <4> HIDE DEF p
      <4>3. q \in Request /\ Arriving(q, "inspection", u, "INSPECTION_FAILED")
        BY <4>2 DEF Request, Arriving
      <4>4. call' = [call EXCEPT ![c] = q]
        BY <4>1 DEF PostInspection, p
      <4> HIDE DEF q
      <4>5. QED
        BY <4>3, <4>4 DEF Arriving, NotificationType
    <3>3. QED
      BY <1>4, <3>1, <3>2
  <2>2. call'[c] = q
    BY <2>1 DEF IInv, CallsOK
  <2>3. RouteOK(c)'
    <3>1. WantsIn(preferences', u, q.type) <=> WantsIn(preferences, u, q.type)
      BY <1>1
    <3>2. QED
      BY <1>1, <2>1, <2>2, <3>1, NoneIsNoRow DEF RouteOK, Unrecorded, Silent
  <2>4. RowOK(c)' /\ NoteOK(c)' /\ EventOK(c)'
    BY <1>2, <2>1, <2>2 DEF RowOK, NoteOK, EventOK, Unannounced, Announced
  <2>5. QED
    BY <1>1, <2>1, <2>3, <2>4, OnlyOneMoves, OneProgresses DEF ProgressOK
<1>5. QED
  BY <1>3, <1>4

(* The author is checked, the record validated, the recipient looked up. *)
LEMMA ChecksInProgress ==
    ASSUME IInv, Progress, NEW c \in Calls,
           \/ RequireAuthor(c) \/ ValidateFuelRecord(c) \/ Throw(c)
           \/ RequireRecipient(c) /\ UNCHANGED <<tables, webhookVars>>
    PROVE  Progress'
<1> DEFINE q == call[c]
<1>1. OdometerOK(q, fuelRecords) /\ ProgressOK(c)
  BY InHand DEF CallOK, Progress
<1>2. CASE RequireAuthor(c)
  <2> DEFINE pc == IF ~active[q.user] THEN "failed"
                   ELSE IF q.kind = "fuel" THEN "odometer" ELSE "insertInspection"
  <2>1. /\ q.pc = "author" /\ call' = [call EXCEPT ![c] = [q EXCEPT !.pc = pc]]
        /\ UNCHANGED <<preferences, notifications, tables, webhookVars>>
        /\ pc \in Steps \ {"idle"}
    BY <1>2 DEF RequireAuthor, Goto, Steps
  <2>2. \/ pc = "failed"
        \/ /\ pc \in Unrecorded /\ (q.kind = "fuel" => pc # "insertInspection")
           /\ q.kind = "inspection" => pc = "insertInspection"
    BY DEF Unrecorded
  <2> HIDE DEF pc
  <2>3. QED
    BY <2>1, <2>2, Steers DEF Unrecorded
<1>3. CASE ValidateFuelRecord(c)
  <2>1. PICK pc \in {"insertFuel", "failed"} :
           /\ q.pc = "odometer" /\ call' = [call EXCEPT ![c] = [q EXCEPT !.pc = pc]]
           /\ UNCHANGED <<preferences, notifications, tables, webhookVars>>
    BY <1>3 DEF ValidateFuelRecord, Goto
  <2>2. q.kind = "fuel" /\ pc \in Steps \ {"idle"}
    BY <1>1, <2>1 DEF OdometerOK, Steps
  <2>3. QED
    BY <2>1, <2>2, Steers DEF Unrecorded
<1>4. CASE Throw(c)
  <2>1. /\ q.pc # "idle" /\ call' = [call EXCEPT ![c] = [q EXCEPT !.pc = "failed"]]
        /\ UNCHANGED <<preferences, notifications, tables, webhookVars>>
        /\ "failed" \in Steps \ {"idle"}
    BY <1>4 DEF Throw, Goto, Steps
  <2>2. QED
    BY <2>1, Steers
<1>5. CASE RequireRecipient(c) /\ UNCHANGED <<tables, webhookVars>>
  <2>1. PICK pc \in {"ensure", "failed", "markAllAsRead"} :
           /\ pc = "markAllAsRead" => ~Announces(c)
           /\ q.pc = "recipient" /\ call' = [call EXCEPT ![c] = [q EXCEPT !.pc = pc]]
           /\ UNCHANGED <<preferences, notifications, tables, webhookVars>>
    BY <1>5 DEF RequireRecipient, Goto, Announces
  <2>2. pc \in Steps \ {"idle"}
    BY DEF Steps
  <2>3. QED
    BY <2>1, <2>2, Steers DEF Unannounced
<1>6. QED
  BY <1>2, <1>3, <1>4, <1>5

(* A type that is off is not notified, and has been seen to be off. *)
LEMMA FindPreferencesInProgress ==
    ASSUME IInv, Progress, NEW c \in Calls,
           FindPreferences(c), UNCHANGED <<tables, webhookVars>>
    PROVE  Progress'
<1> DEFINE q == call[c]
           row == preferences[q.user]
           pc == IF row = None THEN "createDefaults" ELSE AfterPreferences(c, row)
<1>1. /\ q.pc = "ensure" /\ call' = [call EXCEPT ![c] = [q EXCEPT !.pc = pc]]
      /\ UNCHANGED <<preferences, notifications, tables, webhookVars>>
  BY DEF FindPreferences, Goto
<1>2. LocalsOK(q, preferences, notifications) /\ RouteOK(c)
  BY InHand DEF CallOK, Progress, ProgressOK
<1>3. pc \in Steps \ {"idle"}
  BY <1>2 DEF AfterPreferences, LocalsOK, Steps
<1>4. Announces(c) =>
         pc \in {"createDefaults", "insertNotification"} \/ (pc = "publish" /\ q.off)
  BY <1>2 DEF AfterPreferences, Announces, RouteOK, WantsIn
<1> HIDE DEF pc
<1>5. QED
  BY <1>1, <1>3, <1>4, Steers DEF Unannounced

(* Defaults enable every type. *)
LEMMA DefaultsEnable ==
    ASSUME NEW type \in NotificationType
    PROVE  isNotificationTypeEnabled(Defaults, type)
BY DEF isNotificationTypeEnabled, Defaults, PreferenceField, PreferenceFields, NotificationType

(* A row is created with its defaults; nobody's type goes off by it. *)
LEMMA CreateDefaultsInProgress ==
    ASSUME IInv, Progress, NEW c \in Calls,
           CreateDefaults(c), UNCHANGED <<tables, webhookVars>>
    PROVE  Progress'
<1> DEFINE q == call[c]
<1>1. /\ q.pc = "createDefaults"
      /\ UNCHANGED <<notifications, tables, webhookVars>>
  BY DEF CreateDefaults
<1>2. q \in Request /\ LocalsOK(q, preferences, notifications) /\ ProgressOK(c)
  BY InHand DEF CallOK, Progress
<1>3. CASE preferences[q.user] # None
  <2>1. /\ call' = [call EXCEPT ![c] = [q EXCEPT !.pc = "failed"]]
        /\ UNCHANGED <<preferences, notifications, tables, webhookVars>>
        /\ "failed" \in Steps \ {"idle"}
    BY <1>3 DEF CreateDefaults, Goto, Steps
  <2>2. QED
    BY <1>1, <2>1, Steers
<1>4. CASE preferences[q.user] = None
  <2> DEFINE pc == AfterPreferences(c, Defaults)
  <2>1. /\ preferences' = [preferences EXCEPT ![q.user] = Defaults]
        /\ call' = [call EXCEPT ![c] = [q EXCEPT !.pc = pc]]
    BY <1>4 DEF CreateDefaults, Goto
  <2>2. q.user \in Users
    BY <1>1, <1>2 DEF LocalsOK
  <2>3. \A u \in Users, type \in NotificationType :
           WantsIn(preferences, u, type) => WantsIn(preferences', u, type)
    <3>1. \A u \in Users : preferences'[u] = IF u = q.user THEN Defaults ELSE preferences[u]
      BY <2>1, <2>2 DEF IInv, NotificationsOK
    <3>2. QED
      BY <3>1, DefaultsEnable DEF WantsIn
  <2>4. pc \in Steps \ {"idle"}
    BY <1>1, <1>2 DEF AfterPreferences, LocalsOK, Steps
  <2>5. Announces(c) => pc = "insertNotification"
    BY AnnouncesWhat, DefaultsEnable DEF AfterPreferences, Announces
  <2> HIDE DEF pc, q
  <2>6. /\ call'[c].pc = pc /\ SameRequest(q, call'[c])
        /\ \A d \in Calls \ {c} : call'[d] = call[d]
    BY <2>1, <2>4, MovesOn DEF q
  <2>7. (Announces(c)' <=> Announces(c)) /\ (Silent(c)' <=> Silent(c))
    BY <1>1, <2>4, <2>6 DEF SameRequest, Announces, Silent, q
  <2>8. RouteOK(c)'
    <3>1. Announces(c) /\ ~WantsIn(preferences', q.user, q.type) => q.off
      BY <1>2, <2>3, AnnouncesWhat DEF ProgressOK, RouteOK, q
    <3>2. /\ call'[c].reach \subseteq {e \in Endpoints : listening'[e]}
          /\ ~Silent(c) \/ ~Announces(c)
      BY <1>1, <1>2, <2>6 DEF ProgressOK, RouteOK, SameRequest, q
    <3>3. QED
      BY <1>2, <2>5, <2>6, <2>7, <3>1, <3>2
         DEF ProgressOK, RouteOK, SameRequest, Unannounced, q
  <2>9. RowOK(c)' /\ NoteOK(c)' /\ EventOK(c)'
    <3>1. /\ NoneBy(fuelRecords, c) <=> NoneBy(fuelRecords', c)
          /\ OneBy(fuelRecords, c) <=> OneBy(fuelRecords', c)
          /\ NoneBy(notifications, c) <=> NoneBy(notifications', c)
          /\ inspections' = inspections /\ events' = events
      BY <1>1
    <3>2. QED
      BY <1>1, <1>2, <2>4, <2>5, <2>6, <2>7, <3>1
         DEF ProgressOK, RowOK, NoteOK, EventOK, SameRequest, Unrecorded, Unannounced,
             Announced, q
  <2>10. \A d \in Calls \ {c} : Undisturbed(d)
    BY <1>1, <2>3, <2>6 DEF Undisturbed
  <2>11. QED
    BY <2>8, <2>9, <2>10, OneProgresses DEF ProgressOK
<1>5. QED
  BY <1>3, <1>4

(* A request that has announced nothing and only serves its user. *)
LEMMA ServesOnly ==
    ASSUME IInv, Progress, NEW c \in Calls,
           call[c].pc \in {"update", "findNotification", "markAsRead", "markAllAsRead"}
    PROVE  ~Announces(c) /\ call[c].kind \notin {"fuel", "inspection"}
           /\ call[c].reach \subseteq {e \in Endpoints : listening[e]}
<1>1. RouteOK(c)
  BY DEF Progress, ProgressOK
<1>2. ~Announces(c)
  BY <1>1 DEF RouteOK, Unrecorded, Unannounced, Announced
<1>3. QED
  BY <1>1, <1>2 DEF RouteOK, Announces

(* A request in flight sees its type go off. *)
LEMMA UpdatePreferencesInProgress ==
    ASSUME IInv, Progress, NEW c \in Calls, NEW input \in PreferenceInputs,
           UpdatePreferences(c, input), UNCHANGED <<tables, webhookVars>>
    PROVE  Progress'
<1>1. /\ call[c].pc = "update"
      /\ UNCHANGED <<notifications, tables, webhookVars>>
  BY DEF UpdatePreferences
<1>2. /\ ~Announces(c) /\ call[c].kind \notin {"fuel", "inspection"}
      /\ call[c].reach \subseteq {e \in Endpoints : listening[e]}
  BY <1>1, ServesOnly
<1>3. CASE DOMAIN input = {}
  <2>1. /\ call' = [call EXCEPT ![c] = [call[c] EXCEPT !.pc = "failed"]]
        /\ UNCHANGED <<preferences, notifications, tables, webhookVars>>
        /\ "failed" \in Steps \ {"idle"}
    BY <1>3 DEF UpdatePreferences, Goto, Steps
  <2>2. QED
    BY <1>1, <2>1, Steers
<1>4. CASE DOMAIN input # {}
  <2> DEFINE u == call[c].user
             row == [f \in PreferenceFields |->
                       IF f \in DOMAIN input THEN input[f] ELSE preferences[u][f]]
             new == [preferences EXCEPT ![u] = row]
             old == Witnessed(new)
  <2>1. preferences' = new /\ call' = [old EXCEPT ![c].pc = "done"]
    BY <1>4 DEF UpdatePreferences
  <2> HIDE DEF new
  <2>2. ASSUME NEW d \in Calls
        PROVE  /\ old[d] \in Request /\ old[d].pc = call[d].pc
               /\ SameExceptOff(call[d], old[d])
               /\ call[d].type # None /\ ~WantsIn(new, call[d].user, call[d].type)
                    => old[d].off
    <3> DEFINE q == call[d]
               a == q.on \/ WantsIn(new, q.user, q.type)
               b == q.off \/ ~WantsIn(new, q.user, q.type)
    <3>1. q \in Request
      BY InHand
    <3>2. CASE q.type = None
      <4>1. old[d] = q
        BY <3>2 DEF Witnessed
      <4>2. QED
        BY <3>1, <3>2, <4>1 DEF SameExceptOff
    <3>3. CASE q.type # None
      <4>1. old[d] = [q EXCEPT !.on = a, !.off = b] /\ a \in BOOLEAN /\ b \in BOOLEAN
        BY <3>3 DEF Witnessed, WantsIn
      <4>2. q.off => b
        OBVIOUS
      <4>3. ~WantsIn(new, q.user, q.type) => b
        OBVIOUS
      <4> HIDE DEF a, b, q, old
      <4>4. old[d].off = b
        BY <3>1, <4>1 DEF Request
      <4>5. old[d] \in Request
        BY <3>1, <4>1 DEF Request
      <4>6. /\ old[d].pc = q.pc /\ old[d].kind = q.kind /\ old[d].passed = q.passed
            /\ old[d].user = q.user /\ old[d].type = q.type /\ old[d].then = q.then
            /\ old[d].found = q.found /\ old[d].reach = q.reach
        BY <3>1, <4>1 DEF Request
      <4>7. QED
        BY <4>2, <4>3, <4>4, <4>5, <4>6 DEF SameExceptOff, q
    <3>4. QED
      BY <3>2, <3>3
  <2>3. old \in [Calls -> Request]
    BY <2>2 DEF Witnessed
  <2> HIDE DEF old
  <2>4. ProgressOK(c)'
    <3>1. call'[c] = [old[c] EXCEPT !.pc = "done"]
      BY <2>1, <2>3
    <3>2. /\ call'[c].pc = "done" /\ call'[c].kind = call[c].kind
          /\ call'[c].reach = call[c].reach
      BY <2>2, <3>1 DEF Request, SameExceptOff
    <3>3. QED
      BY <1>1, <1>2, <3>2, OwesNothing
  <2>5. ASSUME NEW d \in Calls \ {c} PROVE ProgressOK(d)'
    <3>1. call'[d] = old[d]
      BY <2>1, <2>3
    <3> HIDE DEF new
    <3>2. /\ call'[d].pc = call[d].pc /\ SameExceptOff(call[d], call'[d])
          /\ call[d].type # None /\ ~WantsIn(preferences', call[d].user, call[d].type)
               => call'[d].off
      BY <2>1, <2>2, <3>1
    <3>3. ProgressOK(d)
      BY DEF Progress
    <3>4. (Announces(d)' <=> Announces(d)) /\ (Silent(d)' <=> Silent(d))
      BY <3>2 DEF SameExceptOff, Announces, Silent
    <3>5. RouteOK(d)'
      BY <1>1, <3>2, <3>3, <3>4 DEF SameExceptOff, ProgressOK, RouteOK
    <3>6. RowOK(d)'
      BY <1>1, <3>2, <3>3, <3>4 DEF SameExceptOff, ProgressOK, RowOK
    <3>7. NoteOK(d)'
      BY <1>1, <3>2, <3>3, <3>4 DEF SameExceptOff, ProgressOK, NoteOK
    <3>8. EventOK(d)'
      BY <1>1, <3>2, <3>3, <3>4 DEF SameExceptOff, ProgressOK, EventOK
    <3>9. QED
      BY <3>5, <3>6, <3>7, <3>8 DEF ProgressOK
  <2>6. QED
    BY <2>4, <2>5 DEF Progress
<1>5. QED
  BY <1>3, <1>4

(* The author's notification, the first one of the request. *)
LEMMA InsertNotificationInProgress ==
    ASSUME IInv, Progress, NEW c \in Calls,
           InsertNotification(c), UNCHANGED <<tables, webhookVars>>
    PROVE  Progress'
<1> DEFINE q == call[c]
           note == [userId |-> q.user, type |-> q.type, read |-> FALSE,
                    wanted |-> q.on, by |-> c]
<1>1. /\ q.pc = "insertNotification"
      /\ notifications' = Append(notifications, note)
      /\ call' = [call EXCEPT ![c] = [q EXCEPT !.pc = q.then]]
      /\ UNCHANGED <<preferences, tables, webhookVars>>
  BY DEF InsertNotification, Goto
<1>2. q \in Request /\ q.user \in Users /\ q.type \in NotificationType /\ q.on
      /\ q.then \in {"done", "publish"} /\ ProgressOK(c)
  <2>1. /\ q \in Request /\ AnnouncesOK(q, preferences)
        /\ LocalsOK(q, preferences, notifications)
    BY InHand DEF CallOK
  <2>2. q.user \in Users /\ q.type # None /\ q.on /\ q.then \in {"done", "publish"}
    BY <1>1, <2>1 DEF AnnouncesOK, LocalsOK
  <2>3. q.type \in NotificationType
    BY <2>1, <2>2 DEF Request
  <2>4. QED
    BY <2>1, <2>2, <2>3 DEF Progress
<1>3. note \in NotificationRow /\ note.by = c
  BY <1>2 DEF NotificationRow
<1> HIDE DEF note
<1>4. notifications \in Seq(NotificationRow)
  BY DEF IInv, NotificationsOK
<1>5. NoneBy(notifications, c) => OneBy(notifications', c)
  BY <1>1, <1>3, <1>4, Appended
<1>6. /\ call'[c].pc = q.then /\ SameRequest(q, call'[c])
      /\ \A d \in Calls \ {c} : call'[d] = call[d]
  BY <1>1, <1>2, MovesOn DEF Steps
<1>7. \A d \in Calls \ {c} : Undisturbed(d)
  <2>1. ASSUME NEW d \in Calls \ {c}
        PROVE  /\ NoneBy(notifications, d) => NoneBy(notifications', d)
               /\ OneBy(notifications, d) => OneBy(notifications', d)
    BY <1>1, <1>3, <1>4, Appended
  <2>2. QED
    BY <1>1, <1>6, <2>1 DEF Undisturbed
<1>8. ProgressOK(c)'
  <2>1. (Announces(c)' <=> Announces(c)) /\ (Silent(c)' <=> Silent(c))
        /\ (Announces(c) => q.then = "publish" /\ ~Silent(c))
    BY <1>1, <1>2, <1>6 DEF SameRequest, Announces, Silent, ProgressOK, RouteOK
  <2>2. RouteOK(c)'
    BY <1>1, <1>2, <1>6, <2>1
       DEF ProgressOK, RouteOK, SameRequest, Unrecorded, Unannounced, Announced
  <2>3. RowOK(c)'
    BY <1>1, <1>2, <1>6, <2>1
       DEF ProgressOK, RowOK, SameRequest, Unrecorded, Unannounced, Announced
  <2>4. NoteOK(c)'
    BY <1>1, <1>2, <1>5, <1>6, <2>1
       DEF ProgressOK, NoteOK, SameRequest, Unrecorded, Unannounced, Announced
  <2>5. EventOK(c)'
    BY <1>1, <1>2, <1>6, <2>1
       DEF ProgressOK, EventOK, SameRequest, Unrecorded, Unannounced, Announced
  <2>6. QED
    BY <2>2, <2>3, <2>4, <2>5 DEF ProgressOK
<1>9. QED
  BY <1>7, <1>8, OneProgresses

(* Notifications are found and read; each stays its request's. *)
LEMMA ReadsInProgress ==
    ASSUME IInv, Progress, NEW c \in Calls,
           \/ \E n \in 1..(Len(notifications) + 1) : FindNotification(c, n)
           \/ MarkAsRead(c) \/ MarkAllAsRead(c),
           UNCHANGED <<tables, webhookVars>>
    PROVE  Progress'
<1> DEFINE q == call[c]
<1>1. /\ q.pc \in {"findNotification", "markAsRead", "markAllAsRead"}
      /\ preferences' = preferences
  BY DEF FindNotification, MarkAsRead, MarkAllAsRead
<1>2. q \in Request /\ LocalsOK(q, preferences, notifications)
  BY InHand DEF CallOK
<1>3. /\ call'[c].pc # "idle" /\ call'[c].kind = q.kind /\ call'[c].reach = q.reach
      /\ \A d \in Calls \ {c} : call'[d] = call[d]
  <2>1. CASE \E n \in 1..(Len(notifications) + 1) : FindNotification(c, n)
    <3>1. PICK n \in 1..(Len(notifications) + 1) : FindNotification(c, n)
      BY <2>1
    <3>2. \/ call' = [call EXCEPT ![c] = [q EXCEPT !.id = n, !.pc = "done"]]
          \/ call' = [call EXCEPT ![c] = [q EXCEPT !.id = n, !.pc = "markAsRead"]]
          \/ call' = [call EXCEPT ![c] = [q EXCEPT !.pc = "failed"]]
      BY <3>1 DEF FindNotification, Goto
    <3>3. \/ call'[c] = [q EXCEPT !.id = n, !.pc = "done"]
          \/ call'[c] = [q EXCEPT !.id = n, !.pc = "markAsRead"]
          \/ call'[c] = [q EXCEPT !.pc = "failed"]
      BY <3>2 DEF IInv, CallsOK
    <3>4. \A d \in Calls \ {c} : call'[d] = call[d]
      BY <3>2 DEF IInv, CallsOK
    <3>5. QED
      BY <1>2, <3>3, <3>4 DEF Request
  <2>2. CASE MarkAsRead(c) \/ MarkAllAsRead(c)
    <3>1. PICK pc \in {"done", "failed"} : call' = [call EXCEPT ![c] = [q EXCEPT !.pc = pc]]
      BY <2>2 DEF MarkAsRead, MarkAllAsRead, Goto
    <3>2. QED
      BY <1>2, <3>1 DEF Request, IInv, CallsOK
  <2>3. QED
    BY <2>1, <2>2
<1>4. /\ DOMAIN notifications' = DOMAIN notifications
      /\ \A n \in DOMAIN notifications : notifications'[n].by = notifications[n].by
  <2>1. /\ notifications \in Seq(NotificationRow)
        /\ \A n \in DOMAIN notifications : notifications[n] \in NotificationRow
    BY ElementOfSeq, LenProperties DEF IInv, NotificationsOK
  <2>2. ASSUME NEW n \in DOMAIN notifications
        PROVE  [notifications[n] EXCEPT !.read = TRUE].by = notifications[n].by
    BY <2>1 DEF NotificationRow
  <2>3. CASE MarkAsRead(c)
    <3>1. q.id \in DOMAIN notifications
      BY <1>2, <2>1, <2>3, LenProperties DEF MarkAsRead, LocalsOK
    <3>2. notifications' =
            [notifications EXCEPT ![q.id] = [notifications[q.id] EXCEPT !.read = TRUE]]
      BY <2>3 DEF MarkAsRead
    <3>3. QED
      BY <2>2, <3>1, <3>2
  <2>4. CASE notifications' = notifications
    BY <2>4
  <2>5. CASE MarkAllAsRead(c) /\ notifications' # notifications
    <3>1. notifications' = [n \in DOMAIN notifications |->
                              IF notifications[n].userId = q.user
                              THEN [notifications[n] EXCEPT !.read = TRUE]
                              ELSE notifications[n]]
      BY <2>5 DEF MarkAllAsRead
    <3>2. QED
      BY <2>2, <3>1
  <2>6. QED
    BY <2>3, <2>4, <2>5 DEF FindNotification
<1>5. \A d \in Calls : /\ NoneBy(notifications, d) => NoneBy(notifications', d)
                       /\ OneBy(notifications, d) => OneBy(notifications', d)
  BY <1>4 DEF NoneBy, OneBy
<1>6. \A d \in Calls \ {c} : Undisturbed(d)
  BY <1>1, <1>3, <1>5 DEF Undisturbed
<1>7. ProgressOK(c)'
  BY <1>1, <1>3, ServesOnly, OwesNothing
<1>8. QED
  BY <1>6, <1>7, OneProgresses

-----------------------------------------------------------------------------
(* The record, the first one of the request. *)
LEMMA InsertFuelRecordInProgress ==
    ASSUME IInv, Progress, NEW c \in Calls, InsertFuelRecord(c)
    PROVE  Progress'
<1> DEFINE q == call[c]
           row == [vehicleId |-> q.vehicle, odometerReading |-> q.reading,
                   tripId |-> q.trip, by |-> c, seen |-> q.seen]
<1>1. /\ q.pc = "insertFuel"
      /\ fuelRecords' = Append(fuelRecords, row)
      /\ call' = [call EXCEPT ![c] = [q EXCEPT !.pc = "recipient"]]
      /\ UNCHANGED <<preferences, notifications, inspections, webhookVars>>
  BY DEF InsertFuelRecord, Goto
<1>2. q \in Request /\ OdometerOK(q, fuelRecords) /\ ProgressOK(c)
  BY InHand DEF CallOK, Progress
<1>3. row \in FuelRow /\ row.by = c
  <2>1. /\ q.vehicle \in Vehicles /\ q.reading \in Nat
        /\ q.trip \in Trips \cup {None} /\ q.seen \in Nat
    BY <1>1, <1>2 DEF OdometerOK, Request
  <2>2. QED
    BY <2>1 DEF FuelRow
<1> HIDE DEF row
<1>4. fuelRecords \in Seq(FuelRow)
  BY DEF IInv, RecordsOK
<1>5. NoneBy(fuelRecords, c) => OneBy(fuelRecords', c)
  BY <1>1, <1>3, <1>4, Appended
<1>6. /\ call'[c].pc = "recipient" /\ SameRequest(q, call'[c])
      /\ \A d \in Calls \ {c} : call'[d] = call[d]
  BY <1>1, MovesOn DEF Steps
<1>7. \A d \in Calls \ {c} : Undisturbed(d)
  <2>1. ASSUME NEW d \in Calls \ {c}
        PROVE  /\ NoneBy(fuelRecords, d) => NoneBy(fuelRecords', d)
               /\ OneBy(fuelRecords, d) => OneBy(fuelRecords', d)
    BY <1>1, <1>3, <1>4, Appended
  <2>2. QED
    BY <1>1, <1>6, <2>1 DEF Undisturbed
<1>8. ProgressOK(c)'
  <2>1. Announces(c) /\ Announces(c)' /\ q.kind = "fuel" /\ ~Silent(c) /\ ~Silent(c)'
    BY <1>1, <1>2, <1>6 DEF SameRequest, Announces, Silent, OdometerOK
  <2>2. RouteOK(c)'
    BY <1>1, <1>2, <1>6, <2>1 DEF ProgressOK, RouteOK, SameRequest, Unannounced
  <2>3. RowOK(c)'
    BY <1>1, <1>2, <1>5, <1>6, <2>1 DEF ProgressOK, RowOK, SameRequest, Unrecorded
  <2>4. NoteOK(c)' /\ EventOK(c)'
    BY <1>1, <1>2, <1>6, <2>1 DEF ProgressOK, NoteOK, EventOK, Unrecorded, Announced
  <2>5. QED
    BY <2>2, <2>3, <2>4 DEF ProgressOK
<1>9. QED
  BY <1>7, <1>8, OneProgresses

(* The inspection; a passed one is done with it. *)
LEMMA InsertInspectionInProgress ==
    ASSUME IInv, Progress, NEW c \in Calls, InsertInspection(c)
    PROVE  Progress'
<1> DEFINE q == call[c]
           pc == IF q.passed THEN "done" ELSE "recipient"
<1>1. /\ q.pc = "insertInspection" /\ inspections' = inspections \cup {c}
      /\ call' = [call EXCEPT ![c] = [q EXCEPT !.pc = pc]]
      /\ UNCHANGED <<preferences, notifications, fuelRecords, webhookVars>>
  BY DEF InsertInspection, Goto
<1>2. q \in Request /\ ProgressOK(c)
  BY InHand DEF Progress
<1>3. /\ call'[c].pc = pc /\ SameRequest(q, call'[c])
      /\ \A d \in Calls \ {c} : call'[d] = call[d]
  BY <1>1, MovesOn DEF Steps
<1>4. \A d \in Calls \ {c} : Undisturbed(d)
  BY <1>1, <1>3 DEF Undisturbed
<1>5. ProgressOK(c)'
  <2>1. /\ Announces(c)' <=> Announces(c)
        /\ Silent(c)' <=> Silent(c)
        /\ Announces(c) => q.kind = "inspection"
    BY <1>1, <1>2, <1>3 DEF SameRequest, Announces, Silent, ProgressOK, RouteOK
  <2>2. RouteOK(c)'
    BY <1>1, <1>2, <1>3, <2>1
       DEF ProgressOK, RouteOK, SameRequest, Silent, Unannounced, Announced
  <2>3. RowOK(c)'
    BY <1>1, <1>2, <1>3, <2>1 DEF RowOK, SameRequest, Unrecorded
  <2>4. NoteOK(c)' /\ EventOK(c)'
    BY <1>1, <1>2, <1>3, <2>1
       DEF ProgressOK, NoteOK, EventOK, SameRequest, Silent, Unrecorded, Unannounced, Announced
  <2>5. QED
    BY <2>2, <2>3, <2>4 DEF ProgressOK
<1>6. QED
  BY <1>4, <1>5, OneProgresses

(* The endpoints found are all those that have been active since.          *)
LEMMA FindEndpointsInProgress ==
    ASSUME IInv, Progress, NEW c \in Calls, FindEndpoints(c)
    PROVE  Progress'
<1> DEFINE q == call[c]
           found == {e \in Endpoints : listening[e]}
           w == [q EXCEPT !.pc = "deliver", !.found = found]
<1>1. /\ q.pc = "findEndpoints" /\ call' = [call EXCEPT ![c] = w]
      /\ UNCHANGED <<preferences, notifications, tables, webhookVars>>
  BY DEF FindEndpoints
<1>2. q \in Request /\ ProgressOK(c) /\ call \in [Calls -> Request]
  BY InHand DEF Progress, IInv, CallsOK
<1> HIDE DEF found
<1>3. /\ call'[c].pc = "deliver" /\ call'[c].found = found
      /\ call'[c].kind = q.kind /\ call'[c].passed = q.passed /\ call'[c].user = q.user
      /\ call'[c].type = q.type /\ call'[c].then = q.then /\ call'[c].off = q.off
      /\ call'[c].reach = q.reach
  BY <1>1, <1>2 DEF Request
<1>4. /\ Announces(c)' <=> Announces(c)
      /\ Silent(c)' <=> Silent(c)
      /\ Announces(c) => ~Silent(c)
  BY <1>1, <1>2, <1>3 DEF Announces, Silent, ProgressOK, RouteOK
<1>5. RouteOK(c)'
  BY <1>1, <1>2, <1>3, <1>4 DEF ProgressOK, RouteOK, Silent, Announced
<1>6. RowOK(c)' /\ NoteOK(c)'
  BY <1>1, <1>2, <1>3, <1>4
     DEF ProgressOK, RowOK, NoteOK, Unrecorded, Unannounced, Announced
<1>7. EventOK(c)'
  <2>1. call'[c].reach \subseteq call'[c].found
    BY <1>2, <1>3 DEF ProgressOK, RouteOK, found
  <2>2. QED
    BY <1>1, <1>2, <1>3, <1>4, <2>1 DEF ProgressOK, EventOK, Unrecorded, Unannounced
<1> HIDE DEF w
<1>8. QED
  BY <1>1, <1>5, <1>6, <1>7, OnlyOneMoves, OneProgresses DEF ProgressOK

(* The event, and after it the deliveries. *)
LEMMA PublishInProgress ==
    ASSUME IInv, Progress, NEW c \in Calls,
           \/ Publish(c) \/ Deliver(c)
           \/ \E reached \in SUBSET Endpoints : DeliverSome(c, reached)
    PROVE  Progress'
<1> DEFINE q == call[c]
<1>1. PICK pc \in {"findEndpoints", "done", "failed"} :
         /\ call' = [call EXCEPT ![c] = [q EXCEPT !.pc = pc]]
         /\ pc = "findEndpoints" => q.pc = "publish"
         /\ pc = "done" => Deliver(c)
  BY DEF Publish, Deliver, DeliverSome, Goto
<1>2. /\ q.pc \in {"publish", "deliver"}
      /\ UNCHANGED <<preferences, notifications, fuelRecords, inspections, listening>>
      /\ events' \in {events, events \cup {c}} /\ deliveries \subseteq deliveries'
  BY DEF Publish, Deliver, DeliverSome
<1>3. /\ q \in Request /\ ProgressOK(c) /\ (q.pc = "deliver" => c \in events)
  BY InHand DEF CallOK, Progress
<1>4. /\ call'[c].pc = pc /\ SameRequest(q, call'[c])
      /\ \A d \in Calls \ {c} : call'[d] = call[d]
  BY <1>1, MovesOn DEF Steps
<1>5. \A d \in Calls \ {c} : Undisturbed(d)
  BY <1>2, <1>4 DEF Undisturbed
<1>6. ProgressOK(c)'
  <2>1. /\ Announces(c)' <=> Announces(c)
        /\ Silent(c)' <=> Silent(c)
        /\ Announces(c) => ~Silent(c)
    BY <1>2, <1>3, <1>4 DEF SameRequest, Announces, Silent, ProgressOK, RouteOK
  <2>2. RouteOK(c)'
    BY <1>2, <1>3, <1>4, <2>1 DEF ProgressOK, RouteOK, SameRequest, Silent, Announced
  <2>3. RowOK(c)' /\ NoteOK(c)'
    BY <1>2, <1>3, <1>4, <2>1
       DEF ProgressOK, RowOK, NoteOK, SameRequest, Unrecorded, Unannounced, Announced
  <2>4. EventOK(c)'
    <3>1. ASSUME pc = "done", Announces(c)
          PROVE  c \in events' /\ {c} \X call'[c].reach \subseteq deliveries'
      <4>1. /\ events' = events /\ q.pc = "deliver"
            /\ deliveries' = deliveries \cup ({c} \X q.found)
        BY <1>1, <3>1 DEF Deliver
      <4>2. call'[c].reach \subseteq q.found
        BY <1>3, <1>4, <3>1, <4>1 DEF SameRequest, ProgressOK, EventOK
      <4>3. QED
        BY <1>3, <4>1, <4>2
    <3>2. QED
      BY <1>2, <1>3, <1>4, <2>1, <3>1 DEF EventOK, Unrecorded, Unannounced
  <2>5. QED
    BY <2>2, <2>3, <2>4 DEF ProgressOK
<1>7. QED
  BY <1>5, <1>6, OneProgresses

(* A request does not count on an endpoint that is switched. *)
LEMMA UpdateEndpointInProgress ==
    ASSUME IInv, Progress, NEW e \in Endpoints, UpdateEndpoint(e)
    PROVE  Progress'
<1>1. /\ call' = [c \in Calls |-> [call[c] EXCEPT !.reach = @ \ {e}]]
      /\ listening' = [listening EXCEPT ![e] = ~@]
      /\ UNCHANGED <<preferences, notifications, tables, events, deliveries>>
  BY DEF UpdateEndpoint
<1>2. ASSUME NEW c \in Calls PROVE ProgressOK(c)'
  <2>1. call[c] \in Request /\ ProgressOK(c)
    BY InHand DEF Progress
  <2>2. /\ call'[c].pc = call[c].pc /\ call'[c].kind = call[c].kind
        /\ call'[c].passed = call[c].passed /\ call'[c].user = call[c].user
        /\ call'[c].type = call[c].type /\ call'[c].then = call[c].then
        /\ call'[c].off = call[c].off /\ call'[c].found = call[c].found
        /\ call'[c].reach = call[c].reach \ {e}
    BY <1>1, <2>1 DEF Request
  <2>3. (Announces(c)' <=> Announces(c)) /\ (Silent(c)' <=> Silent(c))
    BY <2>2 DEF Announces, Silent
  <2>4. RouteOK(c)'
    <3>1. call'[c].reach \subseteq {x \in Endpoints : listening'[x]}
      BY <1>1, <2>1, <2>2 DEF ProgressOK, RouteOK, IInv, WebhooksOK
    <3>2. QED
      BY <1>1, <2>1, <2>2, <2>3, <3>1 DEF ProgressOK, RouteOK
  <2>5. RowOK(c)' /\ NoteOK(c)'
    BY <1>1, <2>1, <2>2, <2>3 DEF ProgressOK, RowOK, NoteOK
  <2>6. EventOK(c)'
    BY <1>1, <2>1, <2>2, <2>3 DEF ProgressOK, EventOK
  <2>7. QED
    BY <2>4, <2>5, <2>6 DEF ProgressOK
<1>3. QED
  BY <1>2 DEF Progress

-----------------------------------------------------------------------------
(* At first nothing is done. *)
LEMMA ProgressInitially == Init => Progress
<1> SUFFICES ASSUME Init, NEW c \in Calls PROVE ProgressOK(c)
  BY DEF Progress
<1>1. call[c].pc = "idle" /\ call[c].reach = {}
  BY DEF Init, Idle
<1>2. ~Announces(c) /\ NoneBy(fuelRecords, c) /\ NoneBy(notifications, c) /\ c \notin events
  BY <1>1 DEF Init, Announces, NoneBy
<1>3. QED
  BY <1>1, <1>2 DEF ProgressOK, RouteOK, RowOK, NoteOK, EventOK

(* Every step keeps it. *)
LEMMA EveryStepInProgress == IInv /\ Progress /\ [Next]_vars => Progress'
<1> SUFFICES ASSUME IInv, Progress, [Next]_vars PROVE Progress'
  OBVIOUS
<1>1. ASSUME NEW c \in Calls, NEW u \in Users,
             \/ \E v \in Vehicles, reading \in Readings, trip \in Trips \cup {None} :
                   PostFuelRecord(c, u, v, reading, trip)
             \/ \E v \in Vehicles, passed \in BOOLEAN : PostInspection(c, u, v, passed)
             \/ \E kind \in Kinds \ {"fuel", "inspection"} : UseNotifications(c, u, kind)
      PROVE  Progress'
  BY <1>1, ArrivesInProgress
<1>2. ASSUME NEW c \in Calls, Notify(c) PROVE Progress'
  <2>1. UNCHANGED <<tables, webhookVars>>
    BY <1>2 DEF Notify
  <2>2. CASE \E input \in PreferenceInputs : UpdatePreferences(c, input)
    BY <2>1, <2>2, UpdatePreferencesInProgress
  <2>3. CASE \/ \E n \in 1..(Len(notifications) + 1) : FindNotification(c, n)
             \/ MarkAsRead(c) \/ MarkAllAsRead(c)
    BY <2>1, <2>3, ReadsInProgress
  <2>4. QED
    BY <1>2, <2>1, <2>2, <2>3, ChecksInProgress, FindPreferencesInProgress,
       CreateDefaultsInProgress, InsertNotificationInProgress
       DEF Notify, NotificationStep
<1>3. ASSUME NEW c \in Calls,
             \/ RequireAuthor(c) \/ ValidateFuelRecord(c) \/ InsertFuelRecord(c)
             \/ InsertInspection(c) \/ Publish(c) \/ Deliver(c) \/ Throw(c)
             \/ FindEndpoints(c)
             \/ \E reached \in SUBSET Endpoints : DeliverSome(c, reached)
      PROVE  Progress'
  BY <1>3, ChecksInProgress, InsertFuelRecordInProgress, InsertInspectionInProgress,
     FindEndpointsInProgress, PublishInProgress
<1>4. CASE \E e \in Endpoints : UpdateEndpoint(e)
  BY <1>4, UpdateEndpointInProgress
<1>5. CASE UNCHANGED vars \/ \E u \in Users : DeactivateUser(u)
  <2>1. UNCHANGED <<preferences, notifications, call, tables, webhookVars>>
    BY <1>5 DEF vars, notificationVars, DeactivateUser
  <2>2. QED
    BY <2>1 DEF Progress, ProgressOK, RouteOK, RowOK, NoteOK, EventOK, NoneBy, OneBy,
                Announces, Silent, WantsIn
<1>6. QED
  BY <1>1, <1>2, <1>3, <1>4, <1>5 DEF Next

(* Exactly one row of a table is a request's. *)
LEMMA OneIsCardinality ==
    ASSUME NEW table, NEW c, OneBy(table, c)
    PROVE  Cardinality({i \in DOMAIN table : table[i].by = c}) = 1
<1>1. PICK i \in DOMAIN table : \A j \in DOMAIN table : table[j].by = c <=> j = i
  BY DEF OneBy
<1>2. {j \in DOMAIN table : table[j].by = c} = {i}
  BY <1>1
<1>3. QED
  BY <1>2, FS_Singleton

(* A request answered with success has left its row, its notification      *)
(* unless the type was off, its event and its deliveries, each once; a     *)
(* passed inspection only its row.                                         *)
THEOREM SuccessLeavesAll == Spec => []SuccessIsComplete
<1>1. IInv /\ Progress => SuccessIsComplete
  <2> SUFFICES ASSUME IInv, Progress, NEW c \in Calls,
                      call[c].pc = "done", call[c].kind \in {"fuel", "inspection"}
               PROVE  LET rows == {i \in DOMAIN fuelRecords : fuelRecords[i].by = c}
                          notes == {n \in DOMAIN notifications : notifications[n].by = c}
                          silent == call[c].kind = "inspection" /\ call[c].passed
                      IN  /\ IF call[c].kind = "fuel" THEN Cardinality(rows) = 1
                             ELSE c \in inspections
                          /\ silent <=> c \notin events
                          /\ silent => notes = {}
                          /\ ~silent => /\ \/ Cardinality(notes) = 1
                                           \/ notes = {} /\ call[c].off
                                        /\ {c} \X call[c].reach \subseteq deliveries
    BY DEF SuccessIsComplete
  <2> DEFINE rows == {i \in DOMAIN fuelRecords : fuelRecords[i].by = c}
             notes == {n \in DOMAIN notifications : notifications[n].by = c}
  <2>1. Announces(c) /\ RowOK(c) /\ NoteOK(c) /\ EventOK(c)
    BY DEF Announces, Progress, ProgressOK
  <2>2. /\ OneBy(fuelRecords, c) => Cardinality(rows) = 1
        /\ OneBy(notifications, c) => Cardinality(notes) = 1
        /\ NoneBy(notifications, c) => notes = {}
    BY OneIsCardinality DEF NoneBy
  <2> HIDE DEF rows, notes
  <2>3. IF call[c].kind = "fuel" THEN Cardinality(rows) = 1 ELSE c \in inspections
    BY <2>1, <2>2 DEF RowOK, Announced
  <2>4. Silent(c) => c \notin events /\ notes = {}
    BY <2>1, <2>2 DEF NoteOK, EventOK
  <2>5. ~Silent(c) => /\ Cardinality(notes) = 1 \/ (notes = {} /\ call[c].off)
                      /\ c \in events /\ {c} \X call[c].reach \subseteq deliveries
    BY <2>1, <2>2 DEF NoteOK, EventOK, Announced
  <2>6. QED
    BY <2>3, <2>4, <2>5 DEF Silent, rows, notes
<1>2. Init => IInv /\ Progress
  BY Initially, ProgressInitially
<1>3. IInv /\ Progress /\ [Next]_vars => (IInv /\ Progress)'
  BY EveryStep, EveryStepInProgress
<1>4. QED
  BY <1>1, <1>2, <1>3, PTL DEF Spec
=============================================================================
