------------------------------- MODULE Reports -------------------------------
(***************************************************************************)
(* AnalyticsService and ReportService: a dashboard is computed from seven  *)
(* queries in flight at once (Promise.all, and one more inside), while the *)
(* fleet goes on.  The date range is applied by the database to the trips  *)
(* of the trip analytics and by the program to those of the fleet summary. *)
(***************************************************************************)
EXTENDS Integers, FiniteSets, Sequences
LOCAL INSTANCE FiniteSetsExt

CONSTANTS
    FleetVehicles,
    TripRows,       \* bound: the trips rows may be
    FuelRows,       \* bound: the fuel_records rows may be
    MaintenanceRows,\* bound: the maintenance_records rows may be
    Bounds,         \* the dates a range may start or end on, with NoDate
    NoDate,
    MaxWrites       \* bound: writes while a report is made

VARIABLES
    table,          \* the rows each query reads, as sequences
    report,         \* the request: range, queries under way, rows they returned
    writes          \* history: how often the tables changed, for the bound

reportsVars == <<table, report, writes>>

-----------------------------------------------------------------------------
Count(rows, test(_)) == Cardinality({i \in DOMAIN rows : test(rows[i])})
Total(rows, field(_)) == MapThenSumSet(LAMBDA i : field(rows[i]), DOMAIN rows)

(* ROUND_HALF_UP to the unit in which the amounts are counted.             *)
Quotient(n, d) == (2 * n + d) \div (2 * d)

(* parseReportDateRange: what it throws on.                                *)
InvalidRange(range) ==
    range.start # NoDate /\ range.end # NoDate /\ range.end < range.start

(* buildDateRangeFilter: the gte and lte of the queries.                   *)
Filter(rows, range) ==
    SelectSeq(rows, LAMBDA row : /\ range.start # NoDate => row.at >= range.start
                                 /\ range.end # NoDate => row.at <= range.end)

(* Plausible fault: the end of the range is taken to be outside it.        *)
isBeforeEndOfRange(value, range) ==
    ~(\/ range.start # NoDate /\ value < range.start
      \/ range.end # NoDate /\ value >= range.end)

isWithinDateRange(value, range) ==
    ~(\/ range.start # NoDate /\ value < range.start
      \/ range.end # NoDate /\ value > range.end)

countVehiclesByStatus(rows) ==
    [totalVehicles |-> Len(rows),
     activeVehicles |-> Count(rows, LAMBDA r : r.status = "ACTIVE"),
     vehiclesInMaintenance |-> Count(rows, LAMBDA r : r.status = "IN_MAINTENANCE"),
     retiredVehicles |-> Count(rows, LAMBDA r : r.status = "RETIRED")]

countDriversByStatus(rows) ==
    [totalDrivers |-> Len(rows),
     activeDrivers |-> Count(rows, LAMBDA r : r.status = "ACTIVE")]

ActiveTripStatuses == {"PLANNED", "DISPATCHED", "IN_PROGRESS"}

countTripsForFleetSummary(rows, range) ==
    LET within == SelectSeq(rows, LAMBDA r : isWithinDateRange(r.at, range))
    IN  [activeTrips |-> Count(within, LAMBDA r : r.status \in ActiveTripStatuses),
         completedTrips |-> Count(within, LAMBDA r : r.status = "COMPLETED"),
         cancelledTrips |-> Count(within, LAMBDA r : r.status = "CANCELLED")]

(* The totals of the snapshot; its odometers are not in the report.        *)
buildFuelAnalyticsSnapshot(rows) ==
    [totalLiters |-> Total(rows, LAMBDA r : r.liters), totalCost |-> Total(rows, LAMBDA r : r.cost)]

aggregateFuelCostByVehicle(rows) ==
    [v \in {rows[i].vehicleId : i \in DOMAIN rows} |->
        Total(SelectSeq(rows, LAMBDA r : r.vehicleId = v), LAMBDA r : r.cost)]

(* The first of the sorted vehicles: the order between equals is that of   *)
(* their first rows, which the report's reader cannot rely on.             *)
pickExtremeVehicleCost(costs, highest) ==
    IF DOMAIN costs = {} THEN <<>>
    ELSE LET v == CHOOSE w \in DOMAIN costs :
                    \A u \in DOMAIN costs :
                        IF highest THEN costs[u] <= costs[w] ELSE costs[u] >= costs[w]
         IN  <<v, costs[v]>>

buildOrganizationFuelAnalytics(rows, vehicleCount) ==
    LET snapshot == buildFuelAnalyticsSnapshot(rows)
        costs == aggregateFuelCostByVehicle(rows)
        shares == IF vehicleCount > 0 THEN vehicleCount ELSE Cardinality(DOMAIN costs)
    IN  [totalFuelCost |-> snapshot.totalCost,
         totalFuelPurchased |-> snapshot.totalLiters,
         averageCostPerVehicle |-> IF shares = 0 THEN <<>> ELSE <<Quotient(snapshot.totalCost, shares)>>,
         highestFuelCostVehicle |-> pickExtremeVehicleCost(costs, TRUE),
         lowestFuelCostVehicle |-> pickExtremeVehicleCost(costs, FALSE)]

buildMaintenanceAnalytics(rows) ==
    LET priced == SelectSeq(rows, LAMBDA r : r.actualCost # <<>>)
        total == Total(priced, LAMBDA r : r.actualCost[1])
        ofType(type) == Count(rows, LAMBDA r : r.maintenanceType = type)
    IN  [maintenanceCount |-> Len(rows),
         preventiveMaintenanceCount |-> ofType("PREVENTIVE"),
         correctiveMaintenanceCount |-> ofType("CORRECTIVE"),
         emergencyMaintenanceCount |-> ofType("EMERGENCY"),
         totalMaintenanceCost |-> total,
         averageMaintenanceCost |-> IF priced = <<>> THEN <<>> ELSE <<Quotient(total, Len(priced))>>]

calculateAverageTripDurationMinutes(rows) ==
    LET ended == SelectSeq(rows, LAMBDA r : r.duration # <<>>)
    IN  IF ended = <<>> THEN <<>>
        ELSE <<Quotient(Total(ended, LAMBDA r : r.duration[1]), Len(ended))>>

calculateTripCompletionRate(completed, cancelled) ==
    IF completed + cancelled = 0 THEN <<>> ELSE <<Quotient(100 * completed, completed + cancelled)>>

buildTripAnalytics(rows) ==
    LET completed == SelectSeq(rows, LAMBDA r : r.status = "COMPLETED")
        cancelled == SelectSeq(rows, LAMBDA r : r.status = "CANCELLED")
    IN  [tripCount |-> Len(rows),
         completedTripCount |-> Len(completed),
         cancelledTripCount |-> Len(cancelled),
         averageTripDurationMinutes |-> calculateAverageTripDurationMinutes(completed),
         tripCompletionRate |-> calculateTripCompletionRate(Len(completed), Len(cancelled))]

-----------------------------------------------------------------------------
(* The queries of a dashboard, and the table each of them reads.           *)
Queries ==
    [fleetVehicles |-> "vehicles", fleetDrivers |-> "drivers", fleetTrips |-> "trips",
     fuelRecords |-> "fuel", fuelVehicles |-> "vehicles",
     maintenance |-> "maintenance", trips |-> "trips"]

(* The queries that apply the range in the database.                       *)
InDateRange == {"fuelRecords", "maintenance", "trips"}

SeqsUpTo2(S) == {<<>>} \cup {<<a>> : a \in S} \cup {<<a, b>> : a \in S, b \in S}

ReportsInit ==
    /\ table \in [vehicles : {[v \in 1..Cardinality(FleetVehicles) |-> [status |-> "ACTIVE"]]},
                  drivers : {<<[status |-> "ACTIVE"]>>},
                  trips : SeqsUpTo2(TripRows), fuel : {<<row>> : row \in FuelRows},
                  maintenance : {<<row>> : row \in MaintenanceRows}]
    /\ report = [pc |-> "idle"]
    /\ writes = 0

(* organizationDashboard: each of its parts parses the same range.         *)
RequestDashboard(range) ==
    /\ report.pc = "idle"
    /\ report' = IF InvalidRange(range) THEN [pc |-> "refused"]
                 ELSE [pc |-> "reading", range |-> range, rows |-> <<>>, since |-> writes]
    /\ UNCHANGED <<table, writes>>

RunQuery(q) ==
    /\ report.pc = "reading" /\ q \notin DOMAIN report.rows
    /\ LET rows == table[Queries[q]]
           read == IF q \in InDateRange THEN Filter(rows, report.range) ELSE rows
       IN  report' = [report EXCEPT !.rows =
                        [x \in DOMAIN @ \cup {q} |-> IF x = q THEN read ELSE @[x]]]
    /\ UNCHANGED <<table, writes>>

(* fleetSummary, fuelAnalytics, maintenanceAnalytics and tripAnalytics.    *)
Dashboard(rows, range) ==
    [vehicles |-> countVehiclesByStatus(rows.fleetVehicles),
     drivers |-> countDriversByStatus(rows.fleetDrivers),
     fleetTrips |-> countTripsForFleetSummary(rows.fleetTrips, range),
     fuel |-> buildOrganizationFuelAnalytics(rows.fuelRecords, Len(rows.fuelVehicles)),
     maintenance |-> buildMaintenanceAnalytics(rows.maintenance),
     trips |-> buildTripAnalytics(rows.trips)]

AnswerDashboard ==
    /\ report.pc = "reading" /\ DOMAIN report.rows = DOMAIN Queries
    /\ report' = [pc |-> "answered", undisturbed |-> writes = report.since,
                  data |-> Dashboard(report.rows, report.range)]
    /\ UNCHANGED <<table, writes>>

Write(name, rows) ==
    /\ report.pc = "reading" /\ writes < MaxWrites
    /\ table' = [table EXCEPT ![name] = rows]
    /\ writes' = writes + 1
    /\ UNCHANGED report

(* What the rest of the fleet does meanwhile.                              *)
ReportsEnvironment ==
    \/ \E row \in TripRows : Write("trips", Append(table.trips, row))
    \/ \E row \in FuelRows : Write("fuel", Append(table.fuel, row))
    \/ \E i \in DOMAIN table.trips :
          /\ table.trips[i].status \in ActiveTripStatuses
          /\ Write("trips", [table.trips EXCEPT ![i].status = "CANCELLED"])
    \/ \E i \in DOMAIN table.vehicles, status \in {"IN_MAINTENANCE", "RETIRED"} :
          Write("vehicles", [table.vehicles EXCEPT ![i].status = status])

ReportsNext ==
    \/ \E start, end \in Bounds : RequestDashboard([start |-> start, end |-> end])
    \/ \E q \in DOMAIN Queries : RunQuery(q)
    \/ AnswerDashboard
    \/ ReportsEnvironment

-----------------------------------------------------------------------------
(* The figures of a dashboard agree.  When nothing was written while it    *)
(* was made, the trips the program counted within the range are those the  *)
(* database selected; always, the vehicles' statuses add up, the fuel cost *)
(* lies between the extremes, and the rates are those of the counts.       *)
DashboardAgrees ==
    report.pc = "answered" =>
        LET d == report.data
            fleet == d.fleetTrips
        IN  /\ report.undisturbed =>
                 /\ fleet.completedTrips = d.trips.completedTripCount
                 /\ fleet.cancelledTrips = d.trips.cancelledTripCount
                 /\ fleet.activeTrips + fleet.completedTrips + fleet.cancelledTrips
                       = d.trips.tripCount
            /\ d.vehicles.activeVehicles + d.vehicles.vehiclesInMaintenance
                 + d.vehicles.retiredVehicles = d.vehicles.totalVehicles
            /\ d.fuel.highestFuelCostVehicle # <<>> =>
                 /\ d.fuel.lowestFuelCostVehicle[2] <= d.fuel.highestFuelCostVehicle[2]
                 /\ d.fuel.highestFuelCostVehicle[2] <= d.fuel.totalFuelCost
            /\ d.trips.tripCompletionRate = <<>> <=>
                 d.trips.completedTripCount + d.trips.cancelledTripCount = 0
            /\ d.maintenance.preventiveMaintenanceCount + d.maintenance.correctiveMaintenanceCount
                 + d.maintenance.emergencyMaintenanceCount = d.maintenance.maintenanceCount
=============================================================================
