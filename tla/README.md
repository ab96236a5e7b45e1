# FleetOps: specifications and proofs

TLA+ models of the FleetOps API (`src/apps/api`), the TLC configurations that
check them on small instances and the proofs TLAPS checks for every instance.
FleetOps is a NestJS server over PostgreSQL (Prisma), with BullMQ workers for
background jobs.  Every `await` of a handler is a separate database call, the
server runs many handlers at once and several server processes may share one
database, so between two calls of a handler anything may happen.  That is what
the models are about.

## 1. Inventory

Paths are relative to `src/apps/api/src`, those of `prisma/` to `src/apps/api`.

| Component | State | Operations | Hard behaviour | What makes it correct |
|---|---|---|---|---|
| vehicle assignments (`vehicle-assignments/`) | `vehicle_assignments` rows, active while `ended_at` is null | assign, end | four reads before an INSERT; end is a read and an UPDATE by id | one active row per vehicle and per driver; one organization per row |
| maintenance (`maintenance/`) | `maintenance_records`, `maintenance_events`, the vehicle's status | schedule, start, complete, cancel | check on a read outside the transaction that writes; READ COMMITTED counts; waits for row locks and index entries | one job in progress per vehicle; log follows status; vehicle IN_MAINTENANCE exactly while worked on |
| trips (`trips/`) | `trips`, `trip_events` | create, dispatch, start, complete, cancel | four validations before the INSERT; transitions as in maintenance | no overlapping active trips of a vehicle or a driver; lifecycle |
| vehicles, drivers (`vehicles/`, `drivers/`) | `status` | register, update status | read by handlers that act on it later | assignments and trips only for usable ones |
| auth, account lockout (`auth/`, `operations/lockout/`) | `refresh_tokens`, failure counter and lock of a user | register, login, refresh, logout | two refreshes of one token; a login that resets a lock; registration in steps | a rotated token is dead; counter and lock agree; a deleted user stays out |
| users, roles, permissions, guards (`users/`, `roles/`, `permissions/`, `authorization/`) | users, roles of a user, permissions of a role | grant, withdraw, deactivate; the guards of a request | the guards read in several calls while the tables move; a token older than both | who is let through was entitled since arrival |
| API keys, webhook endpoints (`integrations/`) | keys, endpoints | create, revoke, expire, authenticate; switch | a key revoked while a request is authenticated | a key that was revoked before is refused |
| jobs and processors (`queues/`) | `jobs` rows, BullMQ jobs | enqueue; process, retry; cleanup | two stores written one after the other; crash between work and `markCompleted`; the last attempt | the row tells what was done; every queued job ends |
| webhooks (`integrations/`) | events, deliveries | publish, deliver | duplicated POSTs, partial enqueues, results that cannot be recorded | COMPLETED means accepted and recorded |
| notifications (`notifications/`) | notifications, preferences | create, read, preferences | preferences created on first use by two requests | no notification of a type that is switched off |
| fuel, inspections (`fuel/`, `maintenance/inspections*`) | fuel records, inspections | create | the odometer check before the INSERT; three side effects after it | readings follow real time; success means everything happened |
| reminders (`queues/reminder-generation.service.ts`) | none of its own | daily scan | remembers nothing; may be down, or die half way | told before the due date |
| reports and analytics (`reports/`) | reads only | dashboard and its parts | seven queries in flight at once, a range applied twice in two ways | the figures agree |
| audit buffer, fleet audit, export (`operations/audit/`, `fleet/`) | ring buffer of the process | append, export | the buffer at its limit, the limit of an export | the newest events, in order, no field lost |
| data cleanup (`operations/cleanup/`) | the others' rows | nightly deletes | deletes what a request in flight may hold | nothing live is deleted |
| schema, migrations, seed (`prisma/`) | the catalogue, the demo rows | migrate, seed | interrupted and repeated runs; order of migrations and seeders | migrations give the schema; nothing silently missing |
| organizations, metrics, health, bootstrap, shared packages | rows, counters, log lines | inserts, reads | none that another handler shares | - |

How they interact: trips read the vehicle and its active assignment;
maintenance writes the vehicle status that assignments and trips read; trips,
maintenance, inspections and fuel hand committed events to notifications and
to the webhook publisher, which enqueues a job per endpoint; the workers take
the jobs; the schedulers enqueue reminders and clean up; the guards stand
before every handler, and every service reports to the audit buffer.

`PROJECT.json` lists every component with its status, and every hazard at its
line with the properties that would catch it.

## 2. Modules

| Module | Models | Extends or instantiates |
|---|---|---|
| `FleetConstants` | the enums of the schema, the status rules and the two transition tables | - |
| `AssignmentBook` | abstract: a book of active (vehicle, driver) pairs that always is a matching | - |
| `JobLedger` | abstract: what the jobs table may say of a job, and when a job may leave the queue | - |
| `VehicleAssignments` | `VehicleAssignmentService` call by call; the partial unique indexes; status updates of vehicles and drivers | `FleetConstants`; implements `AssignmentBook` |
| `Maintenance` | `MaintenanceService` and `transitionWithEvent` statement by statement | `FleetConstants` |
| `Trips` | `TripService` and `TripRepository` for one organization | `FleetConstants`, takes `AssignmentBook` as its environment |
| `Fleet` | assignments, maintenance and trips on one database, one vehicle status and one pool of callers | `VehicleAssignments`; instantiates `Maintenance` and `Trips`, and implements all three |
| `Auth` | `AuthService`, the lockout, refresh tokens, users and their roles, the token cleanup | - |
| `JobQueue` | the queue services, the jobs table, the four processors, `WebhookDeliveryService`, the job cleanup | implements `JobLedger` |
| `Notifications` | creation behind the preferences, preferences on first use, read state | - |
| `FuelRecords` | fuel records and inspections with their notification and webhook event | `Notifications` |
| `Reminders` | the daily scan over licences and maintenance dates | - |
| `Routes` | the route tables of the controllers and the catalogue of permissions | - |
| `Access` | `JwtStrategy`, `PermissionGuard` and `ApiKeyGuard` read by read, against grants, roles, users and keys that change | `Routes` |
| `Reports` | the dashboard's queries, and the arithmetic of its four parts | - |
| `AuditTrail` | what every service reports, the bounded buffer, the two exports | - |
| `Deployment` | the ten migrations, the models of the schema, the fifteen seeders | `Routes` (the permissions the seed writes) |
| `VehicleAssignments_proofs`, `Auth_proofs`, `JobQueue_proofs`, `FuelRecords_proofs` | theorems | the module they are named after |
| `Maintenance_proofs`, `Trips_proofs` | theorems, also of the rules while callers take turns | `MCMaintenance`, `MCTrips` (which choose `serial`) |
| `Fleet_proofs` | theorems of the composition | `Fleet`, `VehicleAssignments_proofs` |
| `Platform_proofs` | theorems of four parts that share no state | `Reminders`, `Access`, `AuditTrail`, `Deployment` |
| `MCFleet`, `MCMaintenance`, `MCTrips`, `MCAuth`, `MCJobQueue`, `MCFuelRecords` | instances and symmetry for TLC | the module they are named after |
| `MCPlatform` | the parts that share no state, one per behaviour | `Reminders`, `Access`, `Reports`, `AuditTrail`, `Deployment` |

### How state and actions correspond to the code

A table is a function from row ids to a row or `None`.  `req` (in
`FuelRecords` `call`, in `Access` `request`) holds the handlers in flight: a
program counter that names the database call to make next, and the locals it
carries from one call to the next.  Except where a property is about the
answer, `idle` is a free worker to which every answer returns.  `Abort` and
`Throw` end a request between any two calls: the process died, the connection
was lost, the transaction timed out or a call threw.  Handlers that only read
are left out, the dashboard excepted.  The first check of a handler, when its
failure changes nothing, is a guard of its first action.  A variable or field
whose comment says *history* is not in the code; the properties need it, and
no guard reads it except to bound a behaviour.

*VehicleAssignments.*  `AssignReadVehicle`, `AssignReadDriver`,
`AssignFindByVehicle`, `AssignFindByDriver`, `AssignCreate` are the five calls
of `assignVehicleToDriver`; the INSERT evaluates both partial unique indexes
and answers 409 on a violation.  `EndRead` and `EndWrite` are the two calls of
`endAssignment`.  `ended_at` is the counter `endings`, so that a second write is
visible.

*Maintenance.*  `ReadRecord` reads the record, checks the transition and
computes the whole update, with the timestamps it will write back.
`TxUpdate .. TxCommit` are the statements of the interactive transaction at
READ COMMITTED: the UPDATE takes the row lock (`TxUpdate`); if the row becomes
IN_PROGRESS the partial index makes it wait for any open transaction that adds
or removes an entry of the same vehicle, and fail on a committed one
(`TxIndex`); then the count and the vehicle read see what is committed at that
moment.  The writes become visible in `TxCommit`, which includes the vehicle's
UPDATE: it is the last statement, it is by id, and its row lock is only
held by a transaction with nothing left to wait for.

*Trips.*  `CreateReadVehicle .. CreateInsert` are the calls of `createTrip`;
`TransitionRead` is the read with the check, `TransitionCommit` the
transaction, which touches one trip row and is therefore one step.  Trips are
identified by their number, which is unique in an organization.  `announced`,
here and in Maintenance, is what has been handed to notifications and webhooks
after a commit.

*Fleet.*  The three modules above each leave their surroundings open: statuses
are set by hand, and the assignments that trips read change as `AssignmentBook`
lets them.  `Fleet` puts the three on one database.  `vehicleStatus` is one
column, `active` of `Trips` is `Pairs` of `VehicleAssignments`, and a request of
the pool is in the handler of one controller at a time (`AssignmentStep`,
`MaintenanceStep`, `TripStep`).  Nothing is left to an environment but the
statuses managers set.

*Auth.*  `RequireUser`, before `UpdateUser` and `DeactivateUser`, is the read
that the two writes of `UserService` do not repeat.  `Login` is `validateCredentials`, one read; `RecordFailure` and
`Rotate` are the two transactions, one step each because their first statement
locks the only row they read.  A hash is drawn once, so a token is a name that
is never used again (`issued`).  The lockout's clock and the expiry of tokens
are the readings of one counter.

*JobQueue.*  `rows[j]` is the row in PostgreSQL, `bull[j]` the job in Redis, and
no step changes both.  Together they are the ledger of `JobLedger`: a job may be
tried again after its verdict when its worker died before returning, and a row
keeps what it says once BullMQ is through with the job.  `CreateRow`,
`AddToQueue`, `Attach` are the enqueueing request; `pc[j]` is the worker inside `process()`, whose calls may each throw;
`Thrown` says whether the throw meets the processor's catch block or, in the
webhook processor, leaves it.  `Take`, `Acknowledge`, `Retry`, `Crash` are
BullMQ, external, as the processors use it.

*Notifications and FuelRecords.*  A request goes through the calls of
`createFuelRecord` or `createInspection`, then those of
`NotificationEventService` and `NotificationPreferenceService`
(`NotificationStep`), then those of `WebhookPublisherService` (`Publish`,
`FindEndpoints`, `Deliver`; an endpoint that is switched off after it was found
still gets its delivery).  It ends as
`done` or `failed`, because one property is about what success has left
behind.  Trips and maintenance announce in the same way; their own modules keep
only the order of commit and announcement.

*Reminders.*  Time counts in half days, so that a due date may lie before or
after the hour of the scan on its day; the scan's queries and enqueues are
steps between two ticks, any of which may throw (`ScanThrows`).

*Access.*  `Validate`, `CheckAdmin`, `CheckPermission`, `FindApiKey` and
`TouchLastUsedAt` are the reads of the guards.  The grants themselves are
writes at any moment: the lookup of the user before `AssignRoleToUser` and
`RemoveRoleFromUser` does not constrain them, so they happen in every state.  `Routes` lists what each
handler of each controller asks for; a run asks for one route of each kind.

*Reports.*  `RunQuery` is one of the seven queries of the dashboard's
`Promise.all`; `AnswerDashboard` applies the program's arithmetic, translated
operator by operator, to what they returned.

*AuditTrail.*  `Log` is `FleetAuditService.log` with the append behind it; an
event is its name, its number in the life of the process and whether it was
reported in a request, which is when it has a `requestId`.

*Deployment.*  A table of the catalogue is its foreign keys by what they do on
delete, its unique keys, its partial indexes and the columns added later.
`Migrate` is one migration, `SeedStep` one statement of a seeder, which
checks that the rows it looks up are there, as the seeder does.

## 3. Runs

`pass` runs establish what holds; `violation` runs show a disagreement between
the code and a document or message of the repository (the `findings` of
`PROJECT.json` quote both).

| Run | Instance | Shows |
|---|---|---|
| `MCMaintConcurrent` | 3 requests, 1 vehicle, 2 records, up to 4 events each, manual status changes | what locks, index and atomic commit keep true however requests interleave; and, while callers take turns, the lifecycle, no vehicle stranded in IN_MAINTENANCE and none taken out of it while worked on |
| `MCMaintLiveness` | 2 requests, 2 records, fairness | no request waits for ever |
| `MCMaintStranded` | 2 requests | a vehicle stays IN_MAINTENANCE with no work in progress |
| `MCTripsConcurrent` | 2 requests, 2 vehicles, 1 driver, 2 trips, schedules that overlap | what the unique number and the atomic commit keep true; and, while callers take turns, no overlap and the lifecycle |
| `MCTripsOverlap` | 2 requests | two active trips of a vehicle overlap when the calls interleave |
| `MCTripsMaintenance` | 1 request | a trip starts on a vehicle in maintenance |
| `MCFleet` | 2 requests; assignments alone over 2 vehicles, 3 drivers, 2 organizations, 3 rows, and with maintenance and trips over 1 vehicle, 2 drivers, 2 rows, 1 record, 1 trip | matching, tenant isolation and refinement of `AssignmentBook` in every interleaving; each component is, among the others, what its own module says; no trip without an assignment of its vehicle and driver |
| `MCAuthConcurrent` | 2 requests, 1 user, 2 tokens, a lock after 2 failures, clock 0..3 | counter and lock, rotation, deletion and cleanup under every interleaving |
| `MCAuthReuse` | 2 requests, 3 tokens | one refresh token is exchanged twice |
| `MCJobQueue` | a job of each kind alone, and two for one worker; 3 attempts, 1 stall forgiven; fairness | what the row says was done; refinement of `JobLedger`, so effects are bounded; every queued job ends |
| `MCFuelRecords` | 2 requests of one author, 2 vehicles, 1 endpoint | readings follow real time, no unwanted notification, success is complete |
| `MCPlatform` | see below | reminders come ahead; who is allowed was entitled; the dashboard agrees; an export is the latest; the migrations are the schema; the seed leaves nothing out |

**Rules while callers take turns.**  Some rules of maintenance and trips are
what the code implements for one caller at a time and do not survive
interleaving.  `MCMaintenance` and `MCTrips` choose `serial` once per behaviour:
where it is TRUE at most one request is in flight.  A property `XInTurn` is
`serial => X`; beside `MCMaintStranded` and `MCTripsOverlap` it shows that the
violation is due to interleaving alone.  In `MCTrips`, `MaxInterleaved` bounds
how many trips exist in the interleaved behaviours (the serial ones have all).

**The platform run.**  The daily scan, the guards, the dashboard, the audit
trail and the deployment share no state.  `MCPlatform` takes them as a disjoint
sum: `part` is chosen once and only the actions of that part happen, so that
the states are the sum and not the product of the parts'.  A part at rest has
one initial state.

**Bounds.**  `AssignmentIds`, `Records`, `TripNumbers`, `Tokens`, `Jobs`,
`Calls` bound the rows, `Requests` the handlers in flight, `MaxEvents` the
events of a record or trip, `MaxTime` and `LastHalfDay` the clocks,
`MaxFailures` the counter of wrong passwords; `VehicleInputs` and
`DriverInputs` are the statuses set by hand.  The races are between two
handlers on one row, or on two rows of one vehicle or driver; a third request
covers one that interferes with a race.  Two vehicles and three drivers give
every clash (same vehicle, same driver, other organization).  Four events are
one more than any legal log of a record, so that stale transitions can follow a
complete lifecycle.  In `MCFleet` the constant `alone` tells
two kinds of behaviour apart, as `serial` does elsewhere: assignments by
themselves, with all the clashes above, and the three components together
(`Together`), where what matters is a step of one that another does not
expect and not a race inside one.  Two assignments of one vehicle, one after
the other, a trip between them and a record that is started are enough for
every kind of step; the ends of a lifecycle write the same column and tables and
have the runs of their own module.  The statuses of one vehicle and one driver
change (`StatusChanges`), those of the vehicle and driver that race.  A lock of one, a lifetime of one and a retention of one on
a clock of three let a token expire and be cleaned up, and a lock be set, run
out and be set again; three failures are one more than the threshold.  Three
attempts and one stall are the smallest numbers for which the first, a middle
and the last attempt differ and a stall is forgiven once and not twice.  Six
half days hold an item that opens, is scanned on two days and falls due before
or after the hour.  Buffers of 1, 2 and 3 for up to 4 events are full before
the end; two runs of the seed are one interrupted and one repeated.  Bounds are guards of
the actions that accept a request, open a row or move a clock; the one
exception is `MaxFailures`, which keeps a failure from being counted, and the
run that has it checks no liveness.

**Deadlock** is checked in `MCFleet`, `MCMaintConcurrent`, `MCTripsConcurrent`,
`MCTripsOverlap` and `MCTripsMaintenance`.  Elsewhere the
bounded system legitimately comes to its end: every record is closed, every
request of the behaviour answered, every job ended.

**Fairness.**  `MCMaintLiveness`: statements that cannot be blocked are weakly
fair, because the event loop and the database run what is ready; the UPDATE and
its index entry are strongly fair, because each can be enabled and disabled
again by other transactions, but PostgreSQL queues the waiters of a row lock
and wakes those of a transaction when it ends.  `MCJobQueue`: a call that has
been started returns or throws (weak fairness of `Process`), and BullMQ serves
a queue in order, so that a job that waits while others are taken is taken
itself (strong fairness of `Take`).  Arrivals, crashes, `Abort` and the
enqueueing request have no fairness: a job is promised to end once it is in the
queue and not before, because the row of a request that dies between the two
stores stays PENDING.

**Mutants.**  Every property of a passing run has a plausible fault of the code
(a missing index, a dropped guard, an event left out, a role read from the
token, a window bound off by half a day, a swapped order of seeders) that
breaks it.  The operators commented "Plausible fault" are those; nothing else
uses them.

**Observations without a run of their own.**  These follow from the code as
modelled.  The first group is at odds with what a document says of the program
in some order of events:
- a stale check overwrites what another request committed, so that with two
  requests the lifecycles fail that `docs/maintenance.md:13-19` and
  `docs/fleet-management.md:75-81` draw (`LifecycleInTurn` of `Maintenance` and
  `Trips` is what remains of them, `TransitionsJustified` what holds always);
- an assignment is inserted for a vehicle or driver that has just ceased to be
  ACTIVE, since the statuses were read some calls before; by
  `docs/fleet-management.md:27` and `:66-67` only ACTIVE ones can get one;
- two fuel records of one vehicle that are in flight together are inserted in
  either order, so a reading may be below the highest one before it, which
  `docs/fuel-management.md:28` excludes; `OdometerFollowsRealTime` compares a
  reading with the records that were there when its request arrived;
- a restore that counted the other jobs before a start commits takes the
  vehicle out of IN_MAINTENANCE beside a job in progress, where
  `docs/maintenance.md:45-46` wants no other;
- a start followed by a completion brings a RETIRED vehicle back to ACTIVE, with
  a single request at a time; `docs/fleet-management.md:14` calls such a vehicle
  permanently removed from service;
- a vehicle that a manager sets to IN_MAINTENANCE by hand has no record of it.

No document that we know of speaks of these:
- two `endAssignment` calls both write `ended_at` (the book is unaffected,
  which is part of `ImplementsBook`);
- a user whose registration dies before the role is assigned keeps the e-mail;
- a row of a job whose caller dies before `queue.add` stays PENDING;
- on the last attempt, a webhook job that throws outside the catch leaves its
  row PROCESSING while BullMQ has given the job up;
- a complete second run of the seed stops in `integrations.seed.ts`: the demo
  API key is looked up by a hash that has just been generated, and inserted
  again under a name that is taken (`generated` in `Deployment`);
- `PermissionGuard` compares organizations only on routes that ask for a
  permission; every scoped route of `Routes` does (`AccessAssumption`).

**Hazards of which only a part is covered.**  Four properties hold in the
situations they name and say nothing of the others: `WorkedOnInTurn` of a
restore that counts while another start is open, `DeletedUserIsOut` of a
refresh that was past the lookup of its token when the user was deleted,
`OdometerFollowsRealTime` of two records in flight together, and the first part
of `DashboardAgrees` of a dashboard during whose queries something was written.
In the other situations what they say can fail in the code.

## 4. Theorems

The theorems hold for all constants that satisfy the named assumptions of the
modules.  `AssignmentsAssumption`, `MaintenanceAssumption`, `TripsAssumption`,
`AuthAssumption`, `JobQueueAssumption`, `KindsAssumption`, `FuelAssumption`,
`RemindersAssumption` and `AuditAssumption` say that inputs are of their types,
bounds are naturals and `None` is no id; the `NoneIsNoRow` of a module, and
`NoneIsNoOtherRow` of `Fleet`, that `None` is no row; `FleetAssumption` besides
that ACTIVE and IN_MAINTENANCE may be set by hand, as every status may in the code;
`AccessAssumption` that permissions are granted to the two roles the model
has, and what `Routes` shows of scoped routes.  Each is evaluated by TLC.

*`VehicleAssignments_proofs`.*  `OneActivePerVehicleAndDriver` needs only the
indexes, but `TenantIsolation` depends on what a request has checked in earlier
calls: `IInv` adds `RequestOK`, which says for each program counter which ids
have been looked up in which organization (an organization never changes, so a
stale check stays true).  `Refinement` maps a state to the set of pairs of its
active rows and shows that an INSERT is `Assign`, that an `EndWrite` of an
active row is `End` and of an ended one a stutter, and that nothing else moves
the book.

*`Maintenance_proofs`.*  `OneInProgressPerVehicle` is not inductive: a start
that has passed the index has not committed.  `LocksOK` adds that open
transactions hold different rows, that two starts past the index are of
different vehicles, and that such a start sees no other record IN_PROGRESS.
`LogsOK` adds, for the logs, that a request in flight aims at a transition that
some event of its record's log justifies (a log only grows, so a stale read
stays justified) and that a request about to announce has its event in the log.
`WellFormed` adds to the types which locals a program counter guarantees,
among them that a request aiming at COMPLETED carries a start time.

The rules in turn have a second layer on top of these, `TurnInv`.  `InTurn`
says that two requests are never in flight together; `Checked` that what a
request has read is still so: the transition it is about to write is allowed
from the status the record has now, and whether it restores the vehicle is
what that status says.  A stale read needs another request between the read
and the commit, so `Checked` is inductive in turn and false without it (its
transition part is what `TransitionsJustified` replaces by the log).  `Lends`
says what the transaction is going to write to the vehicle: a start
IN_MAINTENANCE, an end ACTIVE exactly when nobody else works on a vehicle that
is taken.  `NobodyStranded` and `KeptWhileWorkedOn` assume that IN_MAINTENANCE
is not among the statuses managers set by hand, as the runs do: a vehicle that
is put there by hand is there without a record, and when it is put there and
back while a start is under way, the start sees it taken, writes nothing and
commits beside a vehicle that is ACTIVE.

*`Trips_proofs`.*  As in maintenance, without locks: `TransitionOK` says that a
request about to commit aims at a status that some event of the log justifies
and carries the times this status needs, and that a request about to announce
has its event in the log (what was announced is part of `LogMatchesStatus`).
In turn, `Checked` adds that the transition is allowed from the present status
and that a creation past an overlap check has no overlapping active trip: the
INSERT keeps the schedules disjoint for that reason alone, and a commit because
it moves neither the schedule nor the vehicle or driver of a trip and makes none
active again.

*`Fleet_proofs`.*  `ImplementsComponents` says that hiding two of the three
components leaves a behaviour of the third.  A request that is busy in one is
idle in the other two, so that whatever it does to a shared table has to be a
step their environment may take.  For assignments and maintenance that is a
status set by hand: maintenance writes ACTIVE and IN_MAINTENANCE only, and to a
vehicle (`MaintenanceInv`: a request about to commit has a row and such a
status).  For trips it is that, or a step of the assignment book, which is the
refinement proved in `VehicleAssignments_proofs`.  `TripsWereAssigned` needs that
an assignment that was made stays in the table when it ends (`PairedGrows`):
the check of `createTrip` may be stale at the insert, but what it saw did
happen (`TripInv`).  The theorems of `Maintenance_proofs` and `Trips_proofs`
hold of any behaviour of `M!Spec` and `T!Spec`, so also here; this last step is
an instantiation that tlapm does not make, since it sees no theorem of a module
taken with INSTANCE.  Those of `VehicleAssignments_proofs` are at hand by EXTENDS.

*`Auth_proofs`.*  `IInv` adds to the properties that a parent has been issued,
so that no later token takes the place of one the cleanup deleted (`TokensOK`),
that a token has its user (`OwnersOK`), and that a request in flight has a
registered user and, if it came late, is before the look at a user who is
deleted (`RequestsOK`): nobody takes a deletion back.  The counter and its
history move together in every step that writes users.  `SessionsKept` is an
action property: a row the cleanup deletes is expired or revoked because the
retention is positive.

*`JobQueue_proofs`.*  `CompletedIsDone` is about two stores and the worker
between them: `IInv` says for each program counter what has been done by then
(at `markCompleted` the goal is achieved and, for a webhook, recorded) and what
a worker that has nothing left to do has left in the row.  Effects are counted
against attempts, stalls and whether the current attempt has had its effect.
`LedgerRefinement` maps the two stores to the ledger (`Says` is what a row tells,
`Standing` where BullMQ has the job): of the calls of a handler or worker, only
the insert, `queue.add`, the three `mark...`, the effect, and what ends an
attempt are steps of the ledger, and every other call is a stutter.  It needs
`Entered` besides `IInv`: a row is there from `createJobRecord` on and says
PENDING until its job is in the queue.

*`Platform_proofs`, the guards.*  `was` contains what is entitled now, as long as the request
is in flight (every write adds to it); `Established` says for each program
counter what the reads before it have shown, which is then in `was` for good.

*`FuelRecords_proofs`.*  `CallsOK` says what each program counter carries.
For the odometer: the records committed when a request arrived are a prefix of
the table, so that the highest reading it reads is at least theirs.  For
the notifications: whether the author had the type on at some moment since
arrival (`on`) is established by the read or the insert of the preferences.
`SuccessLeavesAll` has a layer of its own, `Progress`, of four parts for each
request: which route it is on and why it was left (`RouteOK`: nobody skips the
notification unless the author had the type off at some moment), and, from its
program counter on, that exactly one row (`RowOK`), the notification (`NoteOK`)
and the event with its deliveries (`EventOK`) are its own.  Endpoints only stop
listening, so those that listen at the publication are among the reached ones.

*`Platform_proofs`, the reminders.*  `Decided`: once the scan of a day is over, each item
that was in its window is reminded or that day is missed.  The day whose scan
is the last before the due date is in the window of any positive number of
days, so that this one day decides.

*`Platform_proofs`, the audit trail.*  `Buffered`: the buffer is the end of
everything reported since the process started, of the length the limit allows.
`list(limit)` is then the end of the buffer, and the number in a payload, under
whatever field name, tells that each row of an export is the one it should be.
The headers of a CSV are the union of all payloads' fields, and no payload has a
field named like one of the three fixed columns (`event`, `requestId`,
`occurredAt`); that is checked event by event.  The `requestId` of a row is
there exactly when the event was reported in a request.

*`Platform_proofs`, the seed.*  A row is `Kept` when it is in the database or,
an assignment, has been replaced by the application.  `WellOrdered`, proved of
each of the fifteen seeders, says that whatever a seeder looks up was written
by an earlier one or by an earlier statement of its own and is no assignment;
so no lookup ever fails, and a run that is past a seeder has kept all its rows
(`PastIsKept`, `WrittenIsKept`).  No migration and no reassignment removes
anything else.  The theorem is for any number of runs and reassignments, where
the model checker bounds both.

| Theorem | Property |
|---|---|
| `VehicleAssignments_proofs!TypeCorrect`, `UniqueAssignments`, `RowsStayInOrganization`, `Refinement` | `TypeOK`, `OneActivePerVehicleAndDriver`, `TenantIsolation`, `ImplementsBook` |
| `Maintenance_proofs!TypeCorrect`, `OneJobPerVehicle`, `TimestampsKept`, `LogsFollowStatus`, `StaleChecksJustify` | `TypeOK` (of the proofs alone), `OneInProgressPerVehicle`, `TimestampsMatchStatus`, `LogMatchesStatus`, `TransitionsJustified` |
| `Maintenance_proofs!LifecycleHolds`, `NobodyStranded`, `KeptWhileWorkedOn` | `LifecycleInTurn`, `NoStrandedInTurn`, `WorkedOnInTurn` |
| `Trips_proofs!TypeCorrect`, `TimesKept`, `LogsFollowStatus`, `StaleChecksJustify` | `TypeOK`, `TimesMatchStatus`, `LogMatchesStatus`, `TransitionsJustified` |
| `Trips_proofs!SchedulesDisjoint`, `LifecycleHolds` | `NoOverlapInTurn`, `LifecycleInTurn` |
| `Fleet_proofs!ComponentsImplemented` (from `AssignmentsImplemented`, `MaintenanceImplemented`, `TripsImplemented`), `TripsWereAssigned` | `ImplementsComponents`, `TripsFollowAssignments` |
| `Auth_proofs!TypeCorrect`, `LockoutExact`, `RotationRevokes`, `DeletedStaysOut`, `SessionsKept` | `TypeOK`, `LockMatchesFailures`, `RotatedIsRevoked`, `DeletedUserIsOut`, `SessionsEndByRevocation` |
| `JobQueue_proofs!TypeCorrect`, `CompletedMeansDone`, `ReturnSettles`, `EffectsAreBounded`, `LedgerRefinement` | `TypeOK`, `CompletedIsDone`, `ProcessedIsSettled`, `EffectsBounded` (of the proofs alone), `ImplementsLedger` |
| `FuelRecords_proofs!TypeCorrect`, `OdometerKept`, `OnlyWanted`, `SuccessLeavesAll` | `TypeOK`, `OdometerFollowsRealTime`, `NoUnwantedNotification`, `SuccessIsComplete` |
| `Platform_proofs!RemindersComeAhead`, `AllowedIsEntitled`, `ExportsAreLatest`, `SeedIsWhole` | `RemindedAhead`, `AllowedWasEntitled`, `ExportIsLatest`, `SeedLeavesNothingOut` |

The theorems `Inductive` of `Trips_proofs`, `Auth_proofs`, `JobQueue_proofs`
and `FuelRecords_proofs`, and `RemindersInductive` and `AccessInductive` of
`Platform_proofs`, are the invariants the others follow from.  `Access`,
`Reminders`, `AuditTrail` and `Deployment` have no `Spec` of their own for TLC;
`Platform_proofs` states it (`AccessSpec`, `RemindersSpec`, `AuditSpec`,
`DeploymentSpec`).

No run of its own checks the types of `Maintenance`: a status that is none is
caught in `MCFleet`, where what maintenance writes has to be a status managers
can set, and the theorem `TypeCorrect` covers the rest.

Only model-checked: `RequestsEnd` and `QueuedJobsEnd`, because liveness under
fairness is out of the prover's reach; `DashboardAgrees`, whose sums and
selections over arbitrary tables need induction over data; `MigratedIsSchema`,
which compares two fixed catalogues and has no constant to generalize over, so
that its run is already exhaustive.

## 5. Not modelled

Metrics, the request context, health, filters, interceptors and the bootstrap
carry no state another handler reads; the shared packages are types and
configuration.  Creating an organization, a vehicle, a driver, a fuel station,
an API key or a webhook endpoint is one unique INSERT that nothing interleaves
with; the later life of the row is modelled where somebody reads it.
`retryDelivery` and `deliverWithRetries` have no caller in `src`, and the
signature of a webhook is a pure function of its text.  Listings change no
state.  Formatting, DTO validation, HTTP, logging are left out, and so are
costs, addresses and notes, data no rule of the modelled lifecycles reads (the
dashboard's sums excepted).  The actual cost of a maintenance is written back
from a stale read like its timestamps; no rule says which of two costs is right.

PostgreSQL is modelled from the statements the repositories issue: single
statements are atomic, interactive transactions are READ COMMITTED.
Serialization failures and deadlock aborts of the database are `Abort`.
So is an error after the commit of a maintenance transition; which answer the
caller gets is left out, also where the code's `catch`
(`maintenance.service.ts:292-303`) covers what follows the commit and would
turn a unique index violation of the notification or webhook calls into a 409
about maintenance in progress.  BullMQ
is modelled as the processors use it.  Rows are deleted only by the cleanup and
by the removal of a grant.

## 6. Plan

What would add most next: abstract lifecycles that maintenance and trips
implement while callers take turns, and the costs and the registration of rows,
which section 5 leaves out.
