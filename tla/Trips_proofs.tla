---------------------------- MODULE Trips_proofs ----------------------------
(***************************************************************************)
(* Proofs about Trips, for every fleet, every number of trips, schedules   *)
(* and concurrent requests, in an environment that does as it likes.       *)
(***************************************************************************)
EXTENDS MCTrips, TLAPS

CreateSteps == {"assignment", "vehicleOverlap", "driverOverlap", "insert"}

(* A creation in flight has a vehicle, a driver and a schedule, checked once *)
(* it looks for overlaps.                                                    *)
CreationOK(q) ==
    q.pc \in CreateSteps =>
        /\ q.target = "PLANNED"
        /\ q.vehicleId \in Vehicles
        /\ q.driverId \in Drivers
        /\ q.schedule \in Schedules
        /\ q.pc # "assignment" => q.schedule[1] < q.schedule[2]

(* A transition about to be recorded was allowed from a status in the log. *)
Justified(log, target) ==
    \E j \in 1..Len(log), step \in AllowedTripTransitions :
        log[j] = TripEventOf(step[1]) /\ target = step[2]

Recorded(log, target) == \E i \in 1..Len(log) : log[i] = TripEventOf(target)

(* A transition in flight works on a trip that exists, towards a status that *)
(* is not the first one, with the times this status requires: a start brings *)
(* its own, a completion takes the start from the row it has read.  Before   *)
(* the commit the transition is justified, after it its event is recorded.   *)
TransitionOK(q, rows, logs) ==
    /\ q.pc \in {"read", "commit", "announce"} => q.trip \in rows
    /\ q.pc \in {"read", "commit"} =>
          /\ q.target # "PLANNED"
          /\ q.target = "IN_PROGRESS" => q.actualStartAt
          /\ q.target = "COMPLETED" => q.actualEndAt
    /\ q.pc = "commit" => /\ q.target = "COMPLETED" => q.actualStartAt
                          /\ Justified(logs[q.trip], q.target)
    /\ q.pc = "announce" => Recorded(logs[q.trip], q.target)

RequestOK(q, rows, logs) ==
    /\ q.pc # "idle" => q.trip \in TripNumbers /\ q.target \in TripStatus
    /\ CreationOK(q)
    /\ TransitionOK(q, rows, logs)

(* The part of TransitionsJustified that concerns one log. *)
JustifiedTrip(log) == JustifiedLog(log, TripEventOf, AllowedTripTransitions)

(* The part of TimesMatchStatus that concerns one row. *)
Timely(row) ==
    /\ row.status \in {"IN_PROGRESS", "COMPLETED"} => row.actualStartAt
    /\ row.status = "COMPLETED" => row.actualEndAt

(* The part of LogMatchesStatus that concerns one trip. *)
TripLog(row, log, told) ==
    IF row = None
    THEN log = <<>> /\ told = {}
    ELSE /\ log # <<>>
         /\ \A i \in DOMAIN log : log[i] = "TRIP_CREATED" <=> i = 1
         /\ log[Len(log)] = TripEventOf(row.status)
         /\ \A e \in told : \E i \in DOMAIN log : log[i] = e

IInv ==
    /\ TypeOK
    /\ TimesMatchStatus
    /\ LogMatchesStatus
    /\ TransitionsJustified
    /\ \A r \in Requests : RequestOK(req[r], Existing, events)

-----------------------------------------------------------------------------
(***************************************************************************)
(* Logs: what an append keeps.                                             *)
(***************************************************************************)

(* The events are told apart by the status they record. *)
LEMMA EventType ==
    /\ \A s \in TripStatus : TripEventOf(s) \in TripEventType
    /\ \A s \in TripStatus : TripEventOf(s) = "TRIP_CREATED" <=> s = "PLANNED"
BY DEF TripStatus, TripEventOf, TripEventType

(* An append changes no earlier entry of a log. *)
LEMMA Appended ==
    ASSUME NEW log \in Seq(TripEventType), NEW e \in TripEventType
    PROVE  /\ Append(log, e) \in Seq(TripEventType)
           /\ Append(log, e) # <<>>
           /\ Len(log) \in Nat
           /\ Len(Append(log, e)) = Len(log) + 1
           /\ DOMAIN Append(log, e) = 1..(Len(log) + 1)
           /\ DOMAIN log = 1..Len(log)
           /\ Append(log, e)[Len(log) + 1] = e
           /\ \A i \in 1..Len(log) : Append(log, e)[i] = log[i]
OBVIOUS

(* What a log justifies or records, it still does after an append. *)
LEMMA AppendKeeps ==
    ASSUME NEW log \in Seq(TripEventType), NEW e \in TripEventType,
           NEW target
    PROVE  /\ Justified(log, target) => Justified(Append(log, e), target)
           /\ Recorded(log, target) => Recorded(Append(log, e), target)
<1> DEFINE longer == Append(log, e)
<1>1. /\ \A i \in 1..Len(log) : i \in 1..Len(longer)
      /\ \A i \in 1..Len(log) : longer[i] = log[i]
  BY Appended
<1> HIDE DEF longer
<1>2. QED
  BY <1>1 DEF Justified, Recorded, longer

(* A justified transition extends a justified log. *)
LEMMA AppendJustified ==
    ASSUME NEW log \in Seq(TripEventType), NEW target \in TripStatus,
           JustifiedTrip(log), Justified(log, target)
    PROVE  JustifiedTrip(Append(log, TripEventOf(target)))
<1> DEFINE e == TripEventOf(target)
           longer == Append(log, e)
           n == Len(log)
<1>1. /\ n \in Nat
      /\ Len(longer) = n + 1
      /\ longer[n + 1] = e
      /\ \A i \in 1..n : longer[i] = log[i]
  BY EventType, Appended
<1>2. PICK j \in 1..n, step \in AllowedTripTransitions :
         log[j] = TripEventOf(step[1]) /\ target = step[2]
  BY DEF Justified
<1> HIDE DEF longer, n
<1>3. ASSUME NEW i \in 2..Len(longer)
      PROVE  \E l \in 1..(i - 1), s \in AllowedTripTransitions :
                longer[l] = TripEventOf(s[1]) /\ longer[i] = TripEventOf(s[2])
  <2>1. CASE i = n + 1
    <3>1. /\ j \in 1..(i - 1)
          /\ longer[j] = TripEventOf(step[1])
          /\ longer[i] = TripEventOf(step[2])
      BY <1>1, <1>2, <2>1
    <3>2. QED
      BY <3>1
  <2>2. CASE i # n + 1
    <3>1. i \in 2..n
      BY <1>1, <1>3, <2>2
    <3>2. PICK l \in 1..(i - 1), s \in AllowedTripTransitions :
             log[l] = TripEventOf(s[1]) /\ log[i] = TripEventOf(s[2])
      BY <3>1 DEF JustifiedTrip, JustifiedLog, n
    <3>3. longer[l] = log[l] /\ longer[i] = log[i]
      BY <1>1, <3>1
    <3>4. QED
      BY <3>2, <3>3
  <2>3. QED
    BY <2>1, <2>2
<1>4. QED
  BY <1>3 DEF JustifiedTrip, JustifiedLog, longer, e

(* A transition appends its own event to the log of its trip. *)
LEMMA AppendTripLog ==
    ASSUME NEW row, NEW log \in Seq(TripEventType), NEW told, row # None,
           TripLog(row, log, told),
           NEW new, new # None, new.status \in TripStatus \ {"PLANNED"}
    PROVE  TripLog(new, Append(log, TripEventOf(new.status)), told)
<1> DEFINE e == TripEventOf(new.status)
           longer == Append(log, e)
           n == Len(log)
<1>1. e \in TripEventType /\ e # "TRIP_CREATED"
  BY EventType
<1>2. /\ n \in Nat
      /\ longer # <<>>
      /\ Len(longer) = n + 1
      /\ DOMAIN longer = 1..(n + 1)
      /\ DOMAIN log = 1..n
      /\ longer[n + 1] = e
      /\ \A i \in 1..n : longer[i] = log[i]
  BY <1>1, Appended
<1>3. /\ log # <<>>
      /\ \A i \in 1..n : log[i] = "TRIP_CREATED" <=> i = 1
      /\ \A t \in told : \E i \in 1..n : log[i] = t
  BY <1>2 DEF TripLog
<1>4. n # 0
  BY <1>3
<1> HIDE DEF e, longer, n
<1>5. \A i \in 1..(n + 1) : longer[i] = "TRIP_CREATED" <=> i = 1
  <2>1. ASSUME NEW i \in 1..(n + 1) PROVE longer[i] = "TRIP_CREATED" <=> i = 1
    <3>1. CASE i = n + 1
      BY <1>1, <1>2, <1>4, <3>1
    <3>2. CASE i # n + 1
      <4>1. i \in 1..n
        BY <1>2, <3>2
      <4>2. QED
        BY <1>2, <1>3, <4>1
    <3>3. QED
      BY <3>1, <3>2
  <2>2. QED
    BY <2>1
<1>6. \A t \in told : \E i \in 1..(n + 1) : longer[i] = t
  <2>1. \A i \in 1..n : i \in 1..(n + 1)
    BY <1>2
  <2>2. QED
    BY <1>2, <1>3, <2>1
<1>7. QED
  BY <1>2, <1>5, <1>6 DEF TripLog, longer, e

-----------------------------------------------------------------------------
(***************************************************************************)
(* Steps that write no table.                                              *)
(***************************************************************************)

USE DEF environment, tables

(* A request at rest is in order. *)
LEMMA IdleOK ==
    ASSUME NEW rows, NEW logs
    PROVE  Idle \in Request /\ RequestOK(Idle, rows, logs)
BY DEF Idle, Request, Steps, RequestOK, CreationOK, CreateSteps, TransitionOK

(* One request moves, no table changes: the invariant is kept if the request *)
(* is in order where it goes.                                                *)
LEMMA RequestStep ==
    ASSUME IInv, NEW r \in Requests, NEW q \in Request,
           RequestOK(q, Existing, events),
           req' = [req EXCEPT ![r] = q],
           UNCHANGED <<environment, tables>>
    PROVE  IInv'
<1>1. Existing' = Existing
  BY DEF Existing
<1>2. /\ req' \in [Requests -> Request]
      /\ \A p \in Requests : req'[p] = IF p = r THEN q ELSE req[p]
  BY DEF IInv, TypeOK
<1>3. TypeOK'
  BY <1>2 DEF IInv, TypeOK
<1>4. TimesMatchStatus' /\ LogMatchesStatus' /\ TransitionsJustified'
  BY <1>1 DEF IInv, TimesMatchStatus, LogMatchesStatus, TransitionsJustified, JustifiedLog
<1>5. \A p \in Requests : RequestOK(req'[p], Existing', events')
  BY <1>1, <1>2 DEF IInv
<1>6. QED
  BY <1>3, <1>4, <1>5 DEF IInv

(* A refusal, a crash and an answer put the request at rest. *)
LEMMA RespondStep ==
    ASSUME IInv, NEW r \in Requests, Respond(r), UNCHANGED <<environment, tables>>
    PROVE  IInv'
BY RequestStep, IdleOK DEF Respond

(* The vehicle is read for a creation. *)
LEMMA CreateReadVehicleStep ==
    ASSUME IInv, NEW r \in Requests, NEW n \in TripNumbers, NEW v \in Vehicles,
           NEW d \in Drivers, NEW s \in Schedules, CreateReadVehicle(r, n, v, d, s)
    PROVE  IInv'
<1> DEFINE q == [Idle EXCEPT !.pc = "assignment", !.trip = n, !.target = "PLANNED",
                             !.vehicleId = v, !.driverId = d, !.schedule = s]
<1>1. q \in Request
  BY DEF Idle, Request, Steps, TripStatus
<1>2. RequestOK(q, Existing, events)
  BY DEF Idle, RequestOK, CreationOK, CreateSteps, TransitionOK, TripStatus
<1>3. req' = [req EXCEPT ![r] = q] /\ UNCHANGED <<environment, tables>>
  BY DEF CreateReadVehicle
<1> HIDE DEF q
<1>4. QED
  BY <1>1, <1>2, <1>3, RequestStep

(* A check of a creation moves it to the next check or refuses it; the first *)
(* one leaves a schedule whose end is after its start.                       *)
LEMMA CreateCheckStep ==
    ASSUME IInv, NEW r \in Requests,
           CreateMatchAssignment(r) \/ CreateCheckVehicle(r) \/ CreateCheckDriver(r)
    PROVE  IInv'
<1>1. req[r] \in Request /\ RequestOK(req[r], Existing, events)
  BY DEF IInv, TypeOK
<1>2. PICK pc \in {"vehicleOverlap", "driverOverlap", "insert"} :
         \/ /\ req' = [req EXCEPT ![r] = [req[r] EXCEPT !.pc = pc]]
            /\ req[r].pc \in CreateSteps
            /\ req[r].pc = "assignment" => ValidSchedule(req[r].schedule)
         \/ Respond(r)
  BY DEF CreateMatchAssignment, CreateCheckVehicle, CreateCheckDriver, ProceedIf,
         Respond, CreateSteps
<1> DEFINE q == [req[r] EXCEPT !.pc = pc]
<1>3. UNCHANGED <<environment, tables>>
  BY DEF CreateMatchAssignment, CreateCheckVehicle, CreateCheckDriver
<1>4. CASE Respond(r)
  BY <1>3, <1>4, RespondStep
<1>5. CASE /\ req' = [req EXCEPT ![r] = q]
           /\ req[r].pc \in CreateSteps
           /\ req[r].pc = "assignment" => ValidSchedule(req[r].schedule)
  <2>1. q \in Request
    BY <1>1 DEF Request, Steps
  <2>2. CreationOK(q)
    <3>1. /\ req[r].target = "PLANNED"
          /\ req[r].vehicleId \in Vehicles
          /\ req[r].driverId \in Drivers
          /\ req[r].schedule \in Schedules
      BY <1>1, <1>5 DEF RequestOK, CreationOK
    <3>2. req[r].schedule[1] < req[r].schedule[2]
      <4>1. CASE req[r].pc = "assignment"
        <5>1. req[r].schedule \in Nat \X Nat
          BY <3>1, TripsAssumption
        <5>2. QED
          BY <1>5, <4>1, <5>1 DEF ValidSchedule
      <4>2. CASE req[r].pc # "assignment"
        BY <1>1, <1>5, <4>2 DEF RequestOK, CreationOK
      <4>3. QED
        BY <4>1, <4>2
    <3>3. QED
      BY <1>1, <3>1, <3>2 DEF CreationOK, Request
  <2>3. RequestOK(q, Existing, events)
    BY <1>1, <1>5, <2>2 DEF RequestOK, TransitionOK, Request, CreateSteps
  <2> HIDE DEF q
  <2>4. QED
    BY <1>3, <1>5, <2>1, <2>3, RequestStep
<1>6. QED
  BY <1>2, <1>4, <1>5

(* A start arrives with its start, a completion with its end. *)
LEMMA TransitionArriveStep ==
    ASSUME IInv, NEW r \in Requests, NEW n \in TripNumbers,
           NEW target \in TripStatus, TransitionArrive(r, n, target)
    PROVE  IInv'
<1> DEFINE q == [Idle EXCEPT !.pc = "read", !.trip = n, !.target = target,
                   !.actualStartAt = target = "IN_PROGRESS",
                   !.actualEndAt = target = "COMPLETED"]
<1>1. q \in Request
  BY DEF Idle, Request, Steps
<1>2. RequestOK(q, Existing, events)
  BY DEF TransitionArrive, Idle, RequestOK, CreationOK, CreateSteps, TransitionOK
<1>3. req' = [req EXCEPT ![r] = q] /\ UNCHANGED <<environment, tables>>
  BY DEF TransitionArrive
<1> HIDE DEF q
<1>4. QED
  BY <1>1, <1>2, <1>3, RequestStep

(* The last event of a trip's log is the one of its status. *)
LEMMA StatusJustifies ==
    ASSUME IInv, NEW n \in Existing, NEW target,
           isAllowedTripTransition(trips[n].status, target)
    PROVE  Justified(events[n], target)
<1>1. /\ n \in TripNumbers
      /\ events[n] \in Seq(TripEventType)
      /\ events[n] # <<>>
      /\ events[n][Len(events[n])] = TripEventOf(trips[n].status)
  BY DEF IInv, TypeOK, LogMatchesStatus, Existing
<1>2. Len(events[n]) \in 1..Len(events[n])
  BY <1>1
<1>3. <<trips[n].status, target>> \in AllowedTripTransitions
  BY DEF isAllowedTripTransition
<1>4. QED
  BY <1>1, <1>2, <1>3 DEF Justified

(* A row read in progress has its actual start. *)
LEMMA TransitionReadStep ==
    ASSUME IInv, NEW r \in Requests, TransitionRead(r)
    PROVE  IInv'
<1> DEFINE n == req[r].trip
           q == [req[r] EXCEPT !.pc = "commit",
             !.actualStartAt = Coalesce(req[r].actualStartAt, trips[n].actualStartAt),
             !.actualEndAt = Coalesce(req[r].actualEndAt, trips[n].actualEndAt)]
<1>1. req[r] \in Request /\ RequestOK(req[r], Existing, events) /\ req[r].pc = "read"
  BY DEF IInv, TypeOK, TransitionRead
<1>2. n \in Existing /\ n \in TripNumbers /\ trips[n] \in Row
  BY <1>1 DEF RequestOK, TransitionOK, IInv, TypeOK, Existing
<1>3. UNCHANGED <<environment, tables>>
  BY DEF TransitionRead
<1>4. CASE ~isAllowedTripTransition(trips[n].status, req[r].target)
  <2>1. Respond(r)
    BY <1>4 DEF TransitionRead, Respond
  <2>2. QED
    BY <1>3, <2>1, RespondStep
<1>5. CASE isAllowedTripTransition(trips[n].status, req[r].target)
  <2>1. req' = [req EXCEPT ![r] = q]
    BY <1>5 DEF TransitionRead
  <2>2. /\ q.pc = "commit" /\ q.trip = n /\ q.target = req[r].target
        /\ q.actualStartAt = (req[r].actualStartAt \/ trips[n].actualStartAt)
        /\ q.actualEndAt = (req[r].actualEndAt \/ trips[n].actualEndAt)
    BY <1>1 DEF Request, Coalesce
  <2>3. q \in Request
    <3> DEFINE start == Coalesce(req[r].actualStartAt, trips[n].actualStartAt)
               end == Coalesce(req[r].actualEndAt, trips[n].actualEndAt)
    <3>1. start \in BOOLEAN /\ end \in BOOLEAN
      BY <1>1, <1>2, Zenon DEF Coalesce
    <3>2. q = [req[r] EXCEPT !.pc = "commit", !.actualStartAt = start, !.actualEndAt = end]
      OBVIOUS
    <3> HIDE DEF start, end, q
    <3>3. QED
      BY <1>1, <3>1, <3>2 DEF Request, Steps
  <2>4. Justified(events[n], req[r].target)
    BY <1>2, <1>5, StatusJustifies
  <2>5. req[r].target = "COMPLETED" => trips[n].actualStartAt
    <3>1. req[r].target = "COMPLETED" => trips[n].status = "IN_PROGRESS"
      BY <1>5 DEF isAllowedTripTransition, AllowedTripTransitions
    <3>2. QED
      BY <1>2, <3>1 DEF IInv, TimesMatchStatus
  <2>6. RequestOK(q, Existing, events)
    <3>1. /\ req[r].target # "PLANNED"
          /\ req[r].target = "IN_PROGRESS" => req[r].actualStartAt
          /\ req[r].target = "COMPLETED" => req[r].actualEndAt
          /\ req[r].target \in TripStatus
      BY <1>1 DEF RequestOK, TransitionOK
    <3> HIDE DEF q
    <3>2. CreationOK(q)
      BY <2>2 DEF CreationOK, CreateSteps
    <3>3. TransitionOK(q, Existing, events)
      <4>1. q.target = "IN_PROGRESS" => q.actualStartAt
        BY <2>2, <3>1
      <4>2. q.target = "COMPLETED" => q.actualStartAt /\ q.actualEndAt
        BY <2>2, <2>5, <3>1
      <4>3. QED
        BY <1>2, <2>2, <2>4, <3>1, <4>1, <4>2 DEF TransitionOK
    <3>4. QED
      BY <1>2, <2>2, <3>1, <3>2, <3>3 DEF RequestOK
  <2> HIDE DEF q
  <2>7. QED
    BY <1>3, <2>1, <2>3, <2>6, RequestStep
<1>6. QED
  BY <1>4, <1>5

-----------------------------------------------------------------------------
(***************************************************************************)
(* Steps that write the tables.                                            *)
(***************************************************************************)

(* One log grows and no trip disappears: every request that is not the one   *)
(* that writes stays in order.                                               *)
LEMMA OthersKept ==
    ASSUME IInv, NEW r \in Requests, NEW n \in TripNumbers, NEW e \in TripEventType,
           events' = [events EXCEPT ![n] = Append(events[n], e)],
           Existing \subseteq Existing',
           \A p \in Requests \ {r} : req'[p] = req[p],
           NEW p \in Requests \ {r}
    PROVE  RequestOK(req'[p], Existing', events')
<1>1. RequestOK(req[p], Existing, events) /\ req'[p] = req[p]
  BY DEF IInv
<1>2. /\ events[n] \in Seq(TripEventType)
      /\ \A k \in TripNumbers :
            events'[k] = IF k = n THEN Append(events[n], e) ELSE events[k]
  BY DEF IInv, TypeOK
<1> DEFINE log == events[req[p].trip]
           longer == events'[req[p].trip]
           target == req[p].target
<1>3. CASE req[p].pc \in {"commit", "announce"}
  <2>1. req[p].trip \in TripNumbers /\ log \in Seq(TripEventType)
    BY <1>1, <1>3 DEF RequestOK, IInv, TypeOK
  <2>2. /\ Justified(log, target) => Justified(longer, target)
        /\ Recorded(log, target) => Recorded(longer, target)
    BY <1>2, <2>1, AppendKeeps
  <2> HIDE DEF log, longer, target
  <2>3. /\ req[p].pc = "commit" => Justified(longer, target)
        /\ req[p].pc = "announce" => Recorded(longer, target)
    BY <1>1, <2>2 DEF RequestOK, TransitionOK, log, target
  <2>4. QED
    BY <1>1, <2>3 DEF RequestOK, TransitionOK, longer, target
<1>4. CASE req[p].pc \notin {"commit", "announce"}
  BY <1>1, <1>4 DEF RequestOK, TransitionOK
<1>5. QED
  BY <1>3, <1>4

(* A trip that is not written keeps its row, its log and what was announced. *)
LEMMA OtherTripsKept ==
    ASSUME IInv, NEW n \in TripNumbers, UNCHANGED announced,
           \A k \in TripNumbers \ {n} : trips'[k] = trips[k] /\ events'[k] = events[k],
           trips'[n] # None => Timely(trips'[n]),
           TripLog(trips'[n], events'[n], announced'[n]),
           JustifiedTrip(events'[n])
    PROVE  TimesMatchStatus' /\ LogMatchesStatus' /\ TransitionsJustified'
<1>1. TimesMatchStatus'
  <2>1. \A k \in TripNumbers : trips[k] # None => Timely(trips[k])
    BY DEF IInv, TimesMatchStatus, Existing, Timely
  <2>2. \A k \in TripNumbers : trips'[k] # None => Timely(trips'[k])
    BY <2>1
  <2>3. QED
    BY <2>2 DEF Timely, TimesMatchStatus, Existing
<1>2. LogMatchesStatus'
  <2>1. \A k \in TripNumbers : TripLog(trips[k], events[k], announced[k])
    BY DEF IInv, LogMatchesStatus, TripLog
  <2>2. \A k \in TripNumbers : TripLog(trips'[k], events'[k], announced'[k])
    BY <2>1
  <2>3. QED
    BY <2>2 DEF LogMatchesStatus, TripLog
<1>3. TransitionsJustified'
  <2>1. \A k \in TripNumbers : JustifiedTrip(events[k])
    BY DEF IInv, TransitionsJustified, JustifiedTrip
  <2>2. \A k \in TripNumbers : JustifiedTrip(events'[k])
    BY <2>1
  <2>3. QED
    BY <2>2 DEF TransitionsJustified, JustifiedTrip
<1>4. QED
  BY <1>1, <1>2, <1>3

(* The trip is inserted with its first event, or its number is taken. *)
LEMMA CreateInsertStep ==
    ASSUME IInv, NEW r \in Requests, CreateInsert(r)
    PROVE  IInv'
<1> DEFINE n == req[r].trip
           row == [vehicleId |-> req[r].vehicleId, driverId |-> req[r].driverId,
                   schedule |-> req[r].schedule, status |-> "PLANNED",
                   actualStartAt |-> FALSE, actualEndAt |-> FALSE]
           e == TripEventOf("PLANNED")
<1>1. /\ req[r] \in Request /\ RequestOK(req[r], Existing, events)
      /\ req[r].pc = "insert" /\ UNCHANGED <<environment, announced>>
      /\ n \in TripNumbers
      /\ req[r].target = "PLANNED"
  BY DEF IInv, TypeOK, CreateInsert, RequestOK, CreationOK, CreateSteps
<1>2. CASE ~TripNumberFree(n)
  <2>1. Respond(r) /\ UNCHANGED <<environment, tables>>
    BY <1>1, <1>2 DEF CreateInsert
  <2>2. QED
    BY <2>1, RespondStep
<1>3. CASE TripNumberFree(n)
  <2>1. /\ trips' = [trips EXCEPT ![n] = row]
        /\ events' = [events EXCEPT ![n] = Append(events[n], e)]
        /\ req' = [req EXCEPT ![r] = [req[r] EXCEPT !.pc = "announce"]]
    BY <1>3 DEF CreateInsert
  <2>2. row \in Row /\ row # None
    <3>1. row \in Row
      BY <1>1 DEF Row, RequestOK, CreationOK, CreateSteps, TripStatus
    <3>2. QED
      BY <3>1, NoneIsNoRow
  <2>3. /\ events[n] = <<>> /\ announced[n] = {} /\ trips[n] = None
        /\ e = "TRIP_CREATED" /\ e \in TripEventType
        /\ Append(events[n], e) = <<"TRIP_CREATED">>
        /\ row.status = "PLANNED"
    <3>1. events[n] = <<>> /\ announced[n] = {} /\ trips[n] = None
      BY <1>1, <1>3 DEF IInv, LogMatchesStatus, TripNumberFree
    <3>2. e = "TRIP_CREATED" /\ e \in TripEventType
      BY DEF TripEventOf, TripEventType
    <3>3. Append(<<>>, "TRIP_CREATED") = <<"TRIP_CREATED">>
      OBVIOUS
    <3>4. QED
      BY <3>1, <3>2, <3>3
  <2> HIDE DEF row, e
  <2>4. /\ trips'[n] = row /\ events'[n] = <<"TRIP_CREATED">> /\ announced'[n] = {}
        /\ \A k \in TripNumbers \ {n} : trips'[k] = trips[k] /\ events'[k] = events[k]
        /\ \A p \in Requests \ {r} : req'[p] = req[p]
        /\ req'[r] = [req[r] EXCEPT !.pc = "announce"]
    BY <1>1, <2>1, <2>3 DEF IInv, TypeOK
  <2>5. Existing' = Existing \cup {n}
    BY <1>1, <2>2, <2>4 DEF Existing
  <2>6. TypeOK'
    <3>1. req'[r] \in Request
      BY <1>1, <2>4 DEF Request, Steps
    <3>2. req' \in [Requests -> Request]
      BY <2>1, <2>4, <3>1 DEF IInv, TypeOK
    <3>3. events' \in [TripNumbers -> Seq(TripEventType)]
      BY <2>1, <2>3, Appended DEF IInv, TypeOK
    <3>4. trips' \in [TripNumbers -> Row \cup {None}]
      BY <2>1, <2>2 DEF IInv, TypeOK
    <3>5. QED
      BY <1>1, <3>2, <3>3, <3>4 DEF IInv, TypeOK
  <2>7. TripLog(trips'[n], events'[n], announced'[n])
    BY <2>2, <2>3, <2>4 DEF TripLog, TripEventOf
  <2>8. JustifiedTrip(events'[n])
    BY <2>4 DEF JustifiedTrip, JustifiedLog
  <2>9. TimesMatchStatus' /\ LogMatchesStatus' /\ TransitionsJustified'
    BY <1>1, <2>3, <2>4, <2>7, <2>8, OtherTripsKept DEF Timely
  <2>10. RequestOK(req'[r], Existing', events')
    <3>1. /\ req'[r].pc = "announce" /\ req'[r].trip = n
          /\ req'[r].target = "PLANNED"
      BY <1>1, <2>4 DEF Request
    <3>2. Recorded(events'[n], "PLANNED")
      BY <2>4 DEF Recorded, TripEventOf
    <3>3. QED
      BY <1>1, <2>5, <3>1, <3>2
         DEF RequestOK, CreationOK, CreateSteps, TransitionOK, TripStatus
  <2>11. \A p \in Requests \ {r} : RequestOK(req'[p], Existing', events')
    BY <1>1, <2>1, <2>3, <2>4, <2>5, OthersKept
  <2>12. QED
    BY <2>6, <2>9, <2>10, <2>11 DEF IInv
<1>4. QED
  BY <1>2, <1>3

(* Status, times and event are written together. *)
LEMMA TransitionCommitStep ==
    ASSUME IInv, NEW r \in Requests, TransitionCommit(r)
    PROVE  IInv'
<1> DEFINE n == req[r].trip
           target == req[r].target
           row == [trips[n] EXCEPT !.status = target,
                     !.actualStartAt = req[r].actualStartAt,
                     !.actualEndAt = req[r].actualEndAt]
           e == TripEventOf(target)
           q == IF target \in {"IN_PROGRESS", "COMPLETED"}
                THEN [req[r] EXCEPT !.pc = "announce"] ELSE Idle
<1>1. /\ req[r] \in Request /\ RequestOK(req[r], Existing, events)
      /\ req[r].pc = "commit" /\ UNCHANGED <<environment, announced>>
      /\ n \in Existing /\ n \in TripNumbers /\ trips[n] \in Row /\ trips[n] # None
      /\ events[n] \in Seq(TripEventType)
      /\ target \in TripStatus \ {"PLANNED"}
      /\ Justified(events[n], target)
      /\ e \in TripEventType
  BY EventType DEF IInv, TypeOK, TransitionCommit, RequestOK, TransitionOK, Existing
<1>2. /\ trips' = [trips EXCEPT ![n] = row]
      /\ events' = [events EXCEPT ![n] = Append(events[n], e)]
      /\ req' = [req EXCEPT ![r] = q]
  BY DEF TransitionCommit, Respond
<1>3. /\ row \in Row /\ row # None
      /\ row.status = target
      /\ row.actualStartAt = req[r].actualStartAt
      /\ row.actualEndAt = req[r].actualEndAt
  <2>1. /\ row \in Row
        /\ row.status = target
        /\ row.actualStartAt = req[r].actualStartAt
        /\ row.actualEndAt = req[r].actualEndAt
    BY <1>1 DEF Row, Request
  <2>2. QED
    BY <2>1, NoneIsNoRow
<1>4. /\ target \in {"IN_PROGRESS", "COMPLETED"} => req[r].actualStartAt
      /\ target = "COMPLETED" => req[r].actualEndAt
  BY <1>1 DEF RequestOK, TransitionOK
<1>5. /\ q \in Request
      /\ \/ q.pc = "announce" /\ q.trip = n /\ q.target = target
         \/ q = Idle
  BY <1>1, IdleOK DEF Request, Steps
<1> HIDE DEF row, e, q
<1>6. /\ trips'[n] = row /\ events'[n] = Append(events[n], e)
      /\ \A k \in TripNumbers \ {n} : trips'[k] = trips[k] /\ events'[k] = events[k]
      /\ \A p \in Requests \ {r} : req'[p] = req[p]
      /\ req'[r] = q
  BY <1>1, <1>2 DEF IInv, TypeOK
<1>7. Existing' = Existing
  BY <1>1, <1>3, <1>6 DEF Existing
<1>8. TypeOK'
  <2>1. events' \in [TripNumbers -> Seq(TripEventType)]
    BY <1>1, <1>2, Appended DEF IInv, TypeOK
  <2>2. trips' \in [TripNumbers -> Row \cup {None}]
    BY <1>2, <1>3 DEF IInv, TypeOK
  <2>3. req' \in [Requests -> Request]
    BY <1>2, <1>5 DEF IInv, TypeOK
  <2>4. QED
    BY <1>1, <2>1, <2>2, <2>3 DEF IInv, TypeOK
<1>9. TripLog(trips'[n], events'[n], announced'[n])
  <2>1. TripLog(trips[n], events[n], announced[n])
    BY <1>1 DEF IInv, LogMatchesStatus, TripLog
  <2>2. QED
    BY <1>1, <1>3, <1>6, <2>1, AppendTripLog DEF e
<1>10. JustifiedTrip(events'[n])
  <2>1. JustifiedTrip(events[n])
    BY <1>1 DEF IInv, TransitionsJustified, JustifiedTrip
  <2>2. QED
    BY <1>1, <1>6, <2>1, AppendJustified DEF e
<1>11. TimesMatchStatus' /\ LogMatchesStatus' /\ TransitionsJustified'
  <2>1. Timely(row)
    BY <1>3, <1>4 DEF Timely
  <2>2. QED
    BY <1>1, <1>6, <1>9, <1>10, <2>1, OtherTripsKept
<1>12. RequestOK(q, Existing', events')
  <2>1. CASE q = Idle
    BY <2>1, IdleOK
  <2>2. CASE q.pc = "announce" /\ q.trip = n /\ q.target = target
    <3>1. Recorded(events'[n], target)
      <4>1. events[n] \in Seq(TripEventType) /\ e \in TripEventType /\ e = TripEventOf(target)
        BY <1>1, EventType DEF IInv, TypeOK, e
      <4>2. Len(events[n]) + 1 \in 1..Len(Append(events[n], e))
        BY <4>1, Appended
      <4>3. QED
        BY <1>6, <4>1, <4>2, Appended DEF Recorded
    <3>2. QED
      BY <1>1, <1>7, <2>2, <3>1 DEF RequestOK, CreationOK, CreateSteps, TransitionOK
  <2>3. QED
    BY <1>5, <2>1, <2>2
<1>13. \A p \in Requests \ {r} : RequestOK(req'[p], Existing', events')
  BY <1>1, <1>2, <1>6, <1>7, OthersKept
<1>14. QED
  BY <1>6, <1>8, <1>11, <1>12, <1>13 DEF IInv

(* What is announced is in the log. *)
LEMMA AnnounceStep ==
    ASSUME IInv, NEW r \in Requests, Announce(r)
    PROVE  IInv'
<1> DEFINE n == req[r].trip
           e == TripEventOf(req[r].target)
<1>1. /\ req[r].pc = "announce" /\ RequestOK(req[r], Existing, events)
      /\ n \in Existing /\ n \in TripNumbers /\ trips[n] # None
      /\ e \in TripEventType
      /\ announced' = [announced EXCEPT ![n] = announced[n] \cup {e}]
      /\ req' = [req EXCEPT ![r] = Idle]
      /\ UNCHANGED <<environment, trips, events>>
  BY EventType DEF IInv, Announce, Respond, RequestOK, TransitionOK, Existing
<1>2. Existing' = Existing
  BY <1>1 DEF Existing
<1>3. TypeOK'
  BY <1>1, IdleOK DEF IInv, TypeOK
<1>4. \E i \in DOMAIN events[n] : events[n][i] = e
  BY <1>1 DEF RequestOK, TransitionOK, Recorded, IInv, TypeOK
<1> HIDE DEF e
<1>5. LogMatchesStatus'
  <2>1. ASSUME NEW k \in TripNumbers
        PROVE  TripLog(trips[k], events[k], announced'[k])
    <3>1. TripLog(trips[k], events[k], announced[k])
      BY DEF IInv, LogMatchesStatus, TripLog
    <3>2. announced'[k] = IF k = n THEN announced[k] \cup {e} ELSE announced[k]
      BY <1>1 DEF IInv, TypeOK
    <3>3. QED
      BY <1>1, <1>4, <3>1, <3>2 DEF TripLog
  <2>2. QED
    BY <1>1, <2>1 DEF LogMatchesStatus, TripLog
<1>6. TimesMatchStatus' /\ TransitionsJustified'
  BY <1>1, <1>2 DEF IInv, TimesMatchStatus, TransitionsJustified, JustifiedLog
<1>7. \A p \in Requests : RequestOK(req'[p], Existing', events')
  BY <1>1, <1>2, IdleOK DEF IInv, TypeOK
<1>8. QED
  BY <1>3, <1>5, <1>6, <1>7 DEF IInv

(* The environment writes no trip: vehicles change their status, assignments *)
(* begin and end.                                                            *)
LEMMA EnvironmentStep ==
    ASSUME IInv, NEW r \in Requests,
           \/ \E v \in Vehicles, s \in VehicleInputs : UpdateVehicleStatus(r, v, s)
           \/ UpdateAssignments(r)
    PROVE  IInv'
<1>1. UNCHANGED <<tables, req>>
  BY DEF UpdateVehicleStatus, UpdateAssignments
<1>2. /\ vehicleStatus' \in [Vehicles -> VehicleStatus]
      /\ active' \subseteq Vehicles \X Drivers
  BY TripsAssumption
     DEF IInv, TypeOK, UpdateVehicleStatus, UpdateAssignments, Book!Next, Book!Assign, Book!End
<1>3. Existing' = Existing
  BY <1>1 DEF Existing
<1>4. QED
  BY <1>1, <1>2, <1>3
     DEF IInv, TypeOK, TimesMatchStatus, LogMatchesStatus, TransitionsJustified, JustifiedLog

(* A stutter. *)
LEMMA StutterStep == IInv /\ UNCHANGED vars => IInv'
<1> SUFFICES ASSUME IInv, UNCHANGED vars PROVE IInv'
  OBVIOUS
<1>1. Existing' = Existing
  BY DEF vars, Existing
<1>2. QED
  BY <1>1 DEF vars, IInv, TypeOK, TimesMatchStatus, LogMatchesStatus, TransitionsJustified, JustifiedLog

-----------------------------------------------------------------------------
(***************************************************************************)
(* The theorems.                                                           *)
(***************************************************************************)

(* Initially there is no trip and no request. *)
LEMMA Initially == Init => IInv
<1> SUFFICES ASSUME Init PROVE IInv
  OBVIOUS
<1>1. Existing = {}
  BY DEF Init, Existing
<1>2. TypeOK
  BY IdleOK DEF Init, TypeOK, Book!Init, VehicleStatus
<1>3. TimesMatchStatus /\ LogMatchesStatus /\ TransitionsJustified
  BY <1>1 DEF Init, TimesMatchStatus, LogMatchesStatus, TransitionsJustified, JustifiedLog
<1>4. \A r \in Requests : RequestOK(req[r], Existing, events)
  BY IdleOK DEF Init
<1>5. QED
  BY <1>2, <1>3, <1>4 DEF IInv

(* Every action keeps the invariant. *)
LEMMA EveryStep == IInv /\ [Next]_vars => IInv'
<1> SUFFICES ASSUME IInv, [Next]_vars PROVE IInv'
  OBVIOUS
<1>1. CASE UNCHANGED vars
  BY <1>1, StutterStep
<1>2. CASE Next
  <2>1. PICK r \in Requests : Arrival(r) \/ Step(r) \/ Abort(r)
    BY <1>2 DEF Next
  <2>2. CASE Arrival(r)
    BY <2>2, CreateReadVehicleStep, TransitionArriveStep, EnvironmentStep DEF Arrival
  <2>3. CASE Step(r)
    BY <2>3, CreateCheckStep, CreateInsertStep, TransitionReadStep,
       TransitionCommitStep, AnnounceStep DEF Step
  <2>4. CASE Abort(r)
    BY <2>4, RespondStep DEF Abort
  <2>5. QED
    BY <2>1, <2>2, <2>3, <2>4
<1>3. QED
  BY <1>1, <1>2

(* Type, times, logs and requests together are an inductive invariant. *)
THEOREM Inductive == Spec => []IInv
BY Initially, EveryStep, PTL DEF Spec

(* Type correctness of the trips table, the logs and the requests in flight. *)
THEOREM TypeCorrect == Spec => []TypeOK
<1>1. IInv => TypeOK
  BY DEF IInv
<1>2. QED
  BY <1>1, Inductive, PTL

(* transitionWithEvent writes the times back from a read that may be stale:  *)
(* still no trip is started without its start or completed without its end.  *)
THEOREM TimesKept == Spec => []TimesMatchStatus
<1>1. IInv => TimesMatchStatus
  BY DEF IInv
<1>2. QED
  BY <1>1, Inductive, PTL

(* A trip's status, its log and what was announced of it agree, whichever    *)
(* request dies between its commit and its announcement.                     *)
THEOREM LogsFollowStatus == Spec => []LogMatchesStatus
<1>1. IInv => LogMatchesStatus
  BY DEF IInv
<1>2. QED
  BY <1>1, Inductive, PTL

(* A check made on a stale read still justifies every transition by a status *)
(* the trip has had.                                                         *)
THEOREM StaleChecksJustify == Spec => []TransitionsJustified
<1>1. IInv => TransitionsJustified
  BY DEF IInv
<1>2. QED
  BY <1>1, Inductive, PTL

-----------------------------------------------------------------------------
(***************************************************************************)
(* Callers that take turns.  With one request in flight at a time, no row  *)
(* changes between the checks of a request and its write.                  *)
(***************************************************************************)

(* What a request has checked about the trips still holds of them. *)
Checked(r) ==
    /\ req[r].pc = "commit" =>
          isAllowedTripTransition(trips[req[r].trip].status, req[r].target)
    /\ req[r].pc \in {"driverOverlap", "insert"} =>
          OverlappingForVehicle(req[r].vehicleId, req[r].schedule) = {}
    /\ req[r].pc = "insert" =>
          OverlappingForDriver(req[r].driverId, req[r].schedule) = {}

AllChecked == \A r \in Requests : Checked(r)

(* A step writes no trip, or is the last database call of its request. *)
WritesTrip(r) == CreateInsert(r) \/ TransitionCommit(r)

(* A creation looks for overlaps among the trips of that moment. *)
LEMMA CreationChecks ==
    ASSUME IInv, NEW r \in Requests, Checked(r),
           CreateMatchAssignment(r) \/ CreateCheckVehicle(r) \/ CreateCheckDriver(r)
    PROVE  Checked(r)' /\ trips' = trips
<1>1. req[r] \in Request /\ req \in [Requests -> Request] /\ trips' = trips
  BY DEF IInv, TypeOK, CreateMatchAssignment, CreateCheckVehicle, CreateCheckDriver
<1>2. \A v, d, s : /\ OverlappingForVehicle(v, s)' = OverlappingForVehicle(v, s)
                   /\ OverlappingForDriver(d, s)' = OverlappingForDriver(d, s)
  BY <1>1 DEF OverlappingForVehicle, OverlappingForDriver, ActiveTrips, Existing
<1>3. ASSUME req'[r].pc = "idle" PROVE Checked(r)'
  BY <1>3 DEF Checked
<1>4. ASSUME NEW pc, req' = [req EXCEPT ![r] = [req[r] EXCEPT !.pc = pc]]
      PROVE  /\ req'[r].pc = pc /\ req'[r].vehicleId = req[r].vehicleId
             /\ req'[r].driverId = req[r].driverId /\ req'[r].schedule = req[r].schedule
  BY <1>1, <1>4 DEF Request
<1>5. ASSUME NEW check, NEW pc, ProceedIf(check, r, pc)
      PROVE  \/ req'[r].pc = "idle"
             \/ check /\ req' = [req EXCEPT ![r] = [req[r] EXCEPT !.pc = pc]]
  BY <1>1, <1>5 DEF ProceedIf, Idle
<1>6. CASE CreateMatchAssignment(r)
  <2>1. \/ req'[r].pc = "idle"
        \/ req' = [req EXCEPT ![r] = [req[r] EXCEPT !.pc = "vehicleOverlap"]]
    BY <1>5, <1>6 DEF CreateMatchAssignment
  <2>2. QED
    BY <1>1, <1>3, <1>4, <2>1 DEF Checked
<1>7. CASE CreateCheckVehicle(r)
  <2>1. \/ req'[r].pc = "idle"
        \/ /\ OverlappingForVehicle(req[r].vehicleId, req[r].schedule) = {}
           /\ req' = [req EXCEPT ![r] = [req[r] EXCEPT !.pc = "driverOverlap"]]
    BY <1>5, <1>7 DEF CreateCheckVehicle
  <2>2. QED
    BY <1>1, <1>2, <1>3, <1>4, <2>1 DEF Checked
<1>8. CASE CreateCheckDriver(r)
  <2>1. \/ req'[r].pc = "idle"
        \/ /\ OverlappingForDriver(req[r].driverId, req[r].schedule) = {}
           /\ req' = [req EXCEPT ![r] = [req[r] EXCEPT !.pc = "insert"]]
    BY <1>5, <1>8 DEF CreateCheckDriver
  <2>2. OverlappingForVehicle(req[r].vehicleId, req[r].schedule) = {}
    BY <1>8 DEF Checked, CreateCheckDriver
  <2>3. QED
    BY <1>1, <1>2, <1>3, <1>4, <2>1, <2>2 DEF Checked
<1>9. QED
  BY <1>1, <1>6, <1>7, <1>8

(* A transition that is allowed is allowed from the status it has read. *)
LEMMA ReadChecks ==
    ASSUME IInv, NEW r \in Requests, TransitionRead(r)
    PROVE  Checked(r)' /\ trips' = trips
<1>1. req[r] \in Request /\ req \in [Requests -> Request] /\ trips' = trips
  BY DEF IInv, TypeOK, TransitionRead
<1>2. \/ req'[r] = Idle
      \/ /\ isAllowedTripTransition(trips[req[r].trip].status, req[r].target)
         /\ req'[r].pc = "commit" /\ req'[r].trip = req[r].trip
         /\ req'[r].target = req[r].target
  BY <1>1 DEF TransitionRead, Request
<1>3. QED
  BY <1>1, <1>2 DEF Checked, Idle

(* The other steps of a request check nothing. *)
LEMMA OtherChecks ==
    ASSUME IInv, NEW r \in Requests,
           \/ \E n \in TripNumbers, v \in Vehicles, d \in Drivers, s \in Schedules :
                 CreateReadVehicle(r, n, v, d, s)
           \/ \E n \in TripNumbers, target \in TripStatus : TransitionArrive(r, n, target)
           \/ WritesTrip(r) \/ Announce(r) \/ Abort(r)
    PROVE  Checked(r)'
<1>1. req[r] \in Request /\ req \in [Requests -> Request]
  BY DEF IInv, TypeOK
<1>2. req'[r].pc \in {"idle", "assignment", "read", "announce"}
  <2>1. ASSUME NEW n \in TripNumbers, NEW v \in Vehicles, NEW d \in Drivers,
               NEW s \in Schedules, CreateReadVehicle(r, n, v, d, s)
        PROVE  req'[r].pc = "assignment"
    BY <1>1, <2>1 DEF CreateReadVehicle, Idle
  <2>2. ASSUME NEW n \in TripNumbers, NEW target \in TripStatus,
               TransitionArrive(r, n, target)
        PROVE  req'[r].pc = "read"
    BY <1>1, <2>2 DEF TransitionArrive, Idle
  <2>3. ASSUME Respond(r) \/ req' = [req EXCEPT ![r].pc = "announce"]
        PROVE  req'[r].pc \in {"idle", "announce"}
    BY <1>1, <2>3 DEF Respond, Idle, Request
  <2>4. QED
    BY <2>1, <2>2, <2>3 DEF WritesTrip, CreateInsert, TransitionCommit, Announce, Abort
<1>3. QED
  BY <1>2 DEF Checked

(* Every step is an environment's, or one request's whose move touches the  *)
(* locals of no other.                                                      *)
LEMMA StepKinds ==
    ASSUME IInv, [Next]_vars
    PROVE  \/ trips' = trips /\ events' = events /\ req' = req
           \/ \E r \in Requests :
                 /\ \/ trips' = trips /\ events' = events
                    \/ req[r].pc # "idle" /\ WritesTrip(r)
                 /\ \A q \in Requests \ {r} : req'[q] = req[q]
                 /\ Checked(r) => Checked(r)'
<1>1. CASE UNCHANGED vars
  BY <1>1 DEF vars
<1>2. ASSUME NEW r \in Requests, Arrival(r) \/ Step(r) \/ Abort(r),
             ~(trips' = trips /\ events' = events /\ req' = req)
      PROVE  /\ \/ trips' = trips /\ events' = events
                \/ req[r].pc # "idle" /\ WritesTrip(r)
             /\ \A q \in Requests \ {r} : req'[q] = req[q]
             /\ Checked(r) => Checked(r)'
  <2>1. \/ \E n \in TripNumbers, v \in Vehicles, d \in Drivers, s \in Schedules :
              CreateReadVehicle(r, n, v, d, s)
        \/ \E n \in TripNumbers, target \in TripStatus : TransitionArrive(r, n, target)
        \/ CreateMatchAssignment(r) \/ CreateCheckVehicle(r) \/ CreateCheckDriver(r)
        \/ TransitionRead(r) \/ WritesTrip(r) \/ Announce(r) \/ Abort(r)
    BY <1>2 DEF Arrival, Step, WritesTrip, UpdateVehicleStatus, UpdateAssignments
  <2>2. \/ trips' = trips /\ events' = events
        \/ req[r].pc # "idle" /\ WritesTrip(r)
    <3>1. WritesTrip(r) => req[r].pc # "idle"
      BY DEF WritesTrip, CreateInsert, TransitionCommit
    <3>2. QED
      BY <2>1, <3>1 DEF CreateReadVehicle, TransitionArrive, CreateMatchAssignment,
            CreateCheckVehicle, CreateCheckDriver, TransitionRead, Announce, Abort
  <2>3. \A q \in Requests \ {r} : req'[q] = req[q]
    <3>1. req \in [Requests -> Request]
      BY DEF IInv, TypeOK
    <3>2. \E p : req' = [req EXCEPT ![r] = p]
      BY <2>1 DEF CreateReadVehicle, TransitionArrive, CreateMatchAssignment,
            CreateCheckVehicle, CreateCheckDriver, TransitionRead, Announce, Abort,
            WritesTrip, CreateInsert, TransitionCommit, Respond, ProceedIf
    <3>3. QED
      BY <3>1, <3>2
  <2>4. Checked(r) => Checked(r)'
    BY <2>1, CreationChecks, ReadChecks, OtherChecks
  <2>5. QED
    BY <2>2, <2>3, <2>4
<1>3. QED
  BY <1>1, <1>2 DEF Next

(* In turn, what was checked stays true until it is used. *)
LEMMA StaysChecked ==
    ASSUME IInv, InTurn, AllChecked, [Next]_vars
    PROVE  AllChecked'
<1>1. ASSUME NEW q \in Requests, req'[q] = req[q], trips' = trips
      PROVE  Checked(q)'
  BY <1>1 DEF AllChecked, Checked, OverlappingForVehicle, OverlappingForDriver,
              ActiveTrips, Existing
<1>2. CASE trips' = trips /\ events' = events /\ req' = req
  BY <1>1, <1>2 DEF AllChecked
<1>3. ASSUME NEW r \in Requests,
             \/ trips' = trips /\ events' = events
             \/ req[r].pc # "idle" /\ WritesTrip(r),
             \A q \in Requests \ {r} : req'[q] = req[q],
             Checked(r)'
      PROVE  AllChecked'
  <2>1. CASE trips' = trips
    BY <1>1, <1>3, <2>1 DEF AllChecked
  <2>2. CASE req[r].pc # "idle"
    <3>1. \A q \in Requests \ {r} : req'[q].pc = "idle"
      BY <1>3, <2>2 DEF InTurn, InFlight
    <3>2. \A q \in Requests \ {r} : Checked(q)'
      BY <3>1 DEF Checked
    <3>3. QED
      BY <1>3, <3>2 DEF AllChecked
  <2>3. QED
    BY <1>3, <2>1, <2>2
<1>4. QED
  BY <1>2, <1>3, StepKinds DEF AllChecked

(* Intervals that do not overlap are disjoint. *)
LEMMA Disjoint ==
    ASSUME NEW a \in Nat \X Nat, NEW b \in Nat \X Nat, ~intervalsOverlap(a, b)
    PROVE  DisjointSchedules(a, b) /\ DisjointSchedules(b, a)
BY DEF intervalsOverlap, DisjointSchedules

(* In turn, a trip enters the schedule where there is room for it and leaves *)
(* it with the last transition.                                              *)
LEMMA InsertDisjoint ==
    ASSUME IInv, NoOverlap, NEW r \in Requests, Checked(r), CreateInsert(r)
    PROVE  NoOverlap'
<1> DEFINE n == req[r].trip
           row == [vehicleId |-> req[r].vehicleId, driverId |-> req[r].driverId,
                   schedule |-> req[r].schedule, status |-> "PLANNED",
                   actualStartAt |-> FALSE, actualEndAt |-> FALSE]
<1>1. CASE trips' = trips
  BY <1>1 DEF NoOverlap, ActiveTrips, Existing
<1>2. CASE trips[n] = None /\ trips' = [trips EXCEPT ![n] = row]
  <2>1. /\ n \in TripNumbers /\ req[r].pc = "insert" /\ req[r].schedule \in Nat \X Nat
        /\ trips \in [TripNumbers -> Row \cup {None}]
    BY TripsAssumption DEF IInv, TypeOK, CreateInsert, RequestOK, CreationOK, CreateSteps
  <2>2. /\ trips'[n] = row /\ \A k \in TripNumbers \ {n} : trips'[k] = trips[k]
    BY <1>2, <2>1
  <2>3. ActiveTrips' \subseteq ActiveTrips \cup {n} /\ n \notin ActiveTrips
        /\ ActiveTrips \subseteq TripNumbers \ {n} /\ ActiveTrips' \subseteq TripNumbers
    BY <1>2, <2>2 DEF ActiveTrips, Existing
  <2>4. /\ row.vehicleId = req[r].vehicleId /\ row.driverId = req[r].driverId
        /\ row.schedule = req[r].schedule
    OBVIOUS
  <2> HIDE DEF row
  <2>5. ASSUME NEW m \in ActiveTrips,
               \/ trips[m].vehicleId = row.vehicleId
               \/ trips[m].driverId = row.driverId
        PROVE  /\ DisjointSchedules(trips[m].schedule, row.schedule)
               /\ DisjointSchedules(row.schedule, trips[m].schedule)
    <3>1. ~intervalsOverlap(trips[m].schedule, row.schedule)
      BY <2>1, <2>4, <2>5 DEF Checked, OverlappingForVehicle, OverlappingForDriver
    <3>2. trips[m].schedule \in Nat \X Nat
      BY <2>1, TripsAssumption DEF ActiveTrips, Existing, Row
    <3>3. QED
      BY <2>1, <2>4, <3>1, <3>2, Disjoint
  <2>6. ASSUME NEW j \in ActiveTrips', NEW k \in ActiveTrips', j # k,
               \/ trips'[j].vehicleId = trips'[k].vehicleId
               \/ trips'[j].driverId = trips'[k].driverId
        PROVE  DisjointSchedules(trips'[j].schedule, trips'[k].schedule)
    <3>1. CASE j = n
      <4>1. k \in ActiveTrips /\ trips'[k] = trips[k]
        BY <2>2, <2>3, <2>6, <3>1
      <4>2. QED
        BY <2>2, <2>5, <2>6, <3>1, <4>1
    <3>2. CASE k = n
      <4>1. j \in ActiveTrips /\ trips'[j] = trips[j]
        BY <2>2, <2>3, <2>6, <3>2
      <4>2. QED
        BY <2>2, <2>5, <2>6, <3>2, <4>1
    <3>3. CASE j # n /\ k # n
      <4>1. /\ j \in ActiveTrips /\ trips'[j] = trips[j]
            /\ k \in ActiveTrips /\ trips'[k] = trips[k]
        BY <2>2, <2>3, <2>6, <3>3
      <4>2. QED
        BY <2>6, <4>1 DEF NoOverlap
    <3>4. QED
      BY <3>1, <3>2, <3>3
  <2>7. QED
    BY <2>6 DEF NoOverlap, DisjointSchedules
<1>3. QED
  BY <1>1, <1>2 DEF CreateInsert, TripNumberFree

(* A commit moves no schedule and no vehicle or driver of a trip. *)
LEMMA CommitDisjoint ==
    ASSUME IInv, NoOverlap, NEW r \in Requests, Checked(r), TransitionCommit(r)
    PROVE  NoOverlap'
<1> DEFINE n == req[r].trip
           row == [trips[n] EXCEPT !.status = req[r].target,
                     !.actualStartAt = req[r].actualStartAt,
                     !.actualEndAt = req[r].actualEndAt]
<1>1. /\ n \in Existing /\ n \in TripNumbers /\ trips[n] \in Row
      /\ trips \in [TripNumbers -> Row \cup {None}]
      /\ isAllowedTripTransition(trips[n].status, req[r].target)
  BY DEF IInv, TypeOK, TransitionCommit, RequestOK, TransitionOK, Existing, Checked
<1>2. n \in ActiveTrips
  BY <1>1 DEF ActiveTrips, ActiveTripStatuses, isAllowedTripTransition, AllowedTripTransitions
<1>3. /\ row.vehicleId = trips[n].vehicleId /\ row.driverId = trips[n].driverId
      /\ row.schedule = trips[n].schedule
  BY <1>1 DEF Row
<1>4. trips' = [trips EXCEPT ![n] = row]
  BY DEF TransitionCommit
<1> HIDE DEF row
<1>5. \A k \in TripNumbers : /\ trips'[k].vehicleId = trips[k].vehicleId
                             /\ trips'[k].driverId = trips[k].driverId
                             /\ trips'[k].schedule = trips[k].schedule
  BY <1>1, <1>3, <1>4
<1>6. ActiveTrips' \subseteq ActiveTrips /\ ActiveTrips \subseteq TripNumbers
  BY <1>1, <1>2, <1>4 DEF ActiveTrips, Existing
<1>7. QED
  BY <1>5, <1>6 DEF NoOverlap, DisjointSchedules

(* Every step in turn keeps the schedules disjoint. *)
LEMMA StaysDisjoint ==
    ASSUME IInv, AllChecked, NoOverlap, [Next]_vars
    PROVE  NoOverlap'
<1>1. CASE trips' = trips
  BY <1>1 DEF NoOverlap, ActiveTrips, Existing
<1>2. QED
  BY <1>1, StepKinds, InsertDisjoint, CommitDisjoint DEF AllChecked, WritesTrip

(* What a transition moves, it moves along the lifecycle. *)
LEMMA CommitLifecycle ==
    ASSUME IInv, AllChecked, [Next]_vars
    PROVE  LifecycleStep
<1> SUFFICES ASSUME NEW n \in TripNumbers, trips[n] # None, events'[n] # events[n]
             PROVE  <<trips[n].status, trips'[n].status>> \in AllowedTripTransitions
  BY DEF LifecycleStep
<1>1. PICK r \in Requests : WritesTrip(r)
  BY StepKinds
<1>2. /\ req[r].trip = n
      /\ events \in [TripNumbers -> Seq(TripEventType)]
      /\ trips \in [TripNumbers -> Row \cup {None}]
  BY <1>1 DEF WritesTrip, CreateInsert, TransitionCommit, IInv, TypeOK
<1>3. TransitionCommit(r)
  BY <1>1, <1>2 DEF WritesTrip, CreateInsert, TripNumberFree
<1>4. trips'[n].status = req[r].target /\ req[r].pc = "commit"
  <2>1. trips[n] \in Row
    BY <1>2
  <2>2. QED
    BY <1>2, <1>3, <2>1 DEF TransitionCommit, Row
<1>5. QED
  BY <1>2, <1>4 DEF AllChecked, Checked, isAllowedTripTransition

(* The invariant of the instance: in turn, every request still sees what it checked. *)
TurnInv == IInv /\ (serial => InTurn /\ AllChecked /\ NoOverlap)

(* A behaviour in turn starts checked. *)
LEMMA InitTurn == MCInit => TurnInv
<1> SUFFICES ASSUME MCInit PROVE TurnInv
  OBVIOUS
<1>1. \A r \in Requests : req[r].pc = "idle"
  BY DEF MCInit, Init, Idle
<1>2. InTurn /\ AllChecked
  BY <1>1 DEF InTurn, InFlight, AllChecked, Checked
<1>3. NoOverlap
  BY DEF MCInit, Init, NoOverlap, ActiveTrips, Existing
<1>4. QED
  BY <1>2, <1>3, Initially DEF TurnInv, MCInit

(* A step of a behaviour in turn is a step of Trips and stays in turn. *)
LEMMA NextTurn ==
    TurnInv /\ [MCNext]_<<vars, serial>> => TurnInv' /\ [Next]_vars /\ serial' = serial
<1> SUFFICES ASSUME TurnInv, [MCNext]_<<vars, serial>>
             PROVE  TurnInv' /\ [Next]_vars /\ serial' = serial
  OBVIOUS
<1>1. [Next]_vars /\ serial' = serial
  BY DEF MCNext
<1>2. IInv'
  BY <1>1, EveryStep DEF TurnInv
<1>3. ASSUME serial PROVE InTurn'
  <2>1. CASE MCNext
    BY <1>3, <2>1 DEF MCNext
  <2>2. CASE UNCHANGED <<vars, serial>>
    BY <1>3, <2>2 DEF TurnInv, InTurn, InFlight, vars
  <2>3. QED
    BY <2>1, <2>2
<1>4. ASSUME serial PROVE AllChecked' /\ NoOverlap'
  BY <1>1, <1>4, StaysChecked, StaysDisjoint DEF TurnInv
<1>5. QED
  BY <1>1, <1>2, <1>3, <1>4 DEF TurnInv

(* Every behaviour of the instance keeps both. *)
LEMMA AlwaysTurn == MCSpec => []TurnInv
BY InitTurn, NextTurn, PTL DEF MCSpec

(* While callers take turns, the two overlap checks of createTrip keep the   *)
(* active trips of a vehicle, and those of a driver, disjoint, for any set   *)
(* of schedules: the half-open comparison of the queries leaves no gap.      *)
THEOREM SchedulesDisjoint == MCSpec => []NoOverlapInTurn
<1>1. TurnInv => NoOverlapInTurn
  BY DEF TurnInv, NoOverlapInTurn
<1>2. QED
  BY <1>1, AlwaysTurn, PTL

(* While callers take turns, dispatch, start, complete and cancel move a     *)
(* trip along the arrows of the lifecycle only, although transitionWithEvent *)
(* overwrites the status without looking at it.                              *)
THEOREM LifecycleHolds == MCSpec => LifecycleInTurn
<1>1. TurnInv /\ [MCNext]_<<vars, serial>> => [serial => LifecycleStep]_<<vars, serial>>
  BY NextTurn, CommitLifecycle DEF TurnInv
<1>2. QED
  BY <1>1, AlwaysTurn, PTL DEF MCSpec, LifecycleInTurn
=============================================================================
