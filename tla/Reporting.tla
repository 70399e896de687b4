------------------------------ MODULE Reporting ------------------------------
(***************************************************************************)
(* Business intelligence: ProjectionOrchestrator, which rebuilds the read  *)
(* model from the twelve projections, the catalogue of dashboards, and     *)
(* ReportService. Months are fiscal years here, as in Accounting, and the  *)
(* window of a run is everything. Nothing but ProjectionOrchestrator       *)
(* writes the read model.                                                  *)
(***************************************************************************)
EXTENDS Selling, Intrastat, People

CONSTANTS
    Refreshed,      \* the projections that are run
    Uuids,          \* the keys of read model rows, in the order of the database
    TopLimit,       \* how many rows a top_n widget shows: ten
    ReportNames     \* names a report definition may be given

-----------------------------------------------------------------------------
(* Entities.                                                               *)

\* `seen` is no column: the result the rows come from.
ProjectionCursor(projection) ==
    [table |-> "cursor", status |-> "running", key |-> projection, rowsProjected |-> 0,
     lastError |-> None, lastProcessedAt |-> None, seen |-> {}]

ReadModelRow(projection, r) ==
    [table |-> "read_model", status |-> "stored", key |-> <<projection, r.key>>,
     projection |-> projection, payload |-> r.payload]

\* isActive is `status`.
ReportDefinition(name) ==
    [table |-> "report", status |-> "active", key |-> name, body |-> 0]

ReportSchedule(r, t) ==
    [table |-> "schedule", status |-> "active", report |-> r, nextRunAt |-> t]

\* Of a SupplierInvoice and of a StockLevel, what the projections read.
Purchased(supplier, period, net, tax) ==
    [table |-> "supplier_invoice", status |-> "registered", supplier |-> supplier,
     period |-> period, net |-> net, tax |-> tax, total |-> net + tax]
OnShelf(place, quantity) ==
    [table |-> "stock_level", status |-> "stored", key |-> place, quantity |-> quantity]

-----------------------------------------------------------------------------
(* The projections: rows of the source by key, each key with its summary.  *)
(* None looks at the status of a document, but to count by it.             *)

By(ids, KeyOf(_), Summary(_)) ==
    {[key |-> k, payload |-> Summary({d \in ids : KeyOf(d) = k})] : k \in {KeyOf(d) : d \in ids}}

Total(S, f(_)) == MapThenSumSet(f, S)

Gross(i)  == db[i].net + db[i].tax
Net(i)    == db[i].net
TaxOf(i)  == db[i].tax
Totals(S) == [count |-> Cardinality(S), subtotal |-> Total(S, Net), tax |-> Total(S, TaxOf),
              total |-> Total(S, Gross)]
Volume(S) == [count |-> Cardinality(S), total |-> Total(S, Gross)]

MonthlyInvoiceTotals == By(Rows("invoice"), LAMBDA i : db[i].year, Totals)

MonthlySupplierInvoiceTotals ==
    By(Rows("supplier_invoice"), LAMBDA s : db[s].period, Totals)

CustomerRevenueRanking == By(Rows("invoice"), LAMBDA i : db[i].customer, Volume)

SupplierSpendRanking == By(Rows("supplier_invoice"), LAMBDA s : db[s].supplier, Volume)

\* The IVA of a month's sales less that of its purchases.
IvaPeriodicBalance ==
    LET period(d) == IF db[d].table = "invoice" THEN db[d].year ELSE db[d].period
        signed(d) == IF db[d].table = "invoice" THEN db[d].tax ELSE -db[d].tax
    IN  By(Rows("invoice") \cup Rows("supplier_invoice"), period,
           LAMBDA S : [balance |-> Total(S, signed)])

\* The total of a quotation bears the IVA of its lines.
QuotationPipelineSummary ==
    LET value(q) == db[q].basket.net + Tax(db[q].basket)
    IN  By(Rows("quotation"), LAMBDA q : db[q].status,
           LAMBDA S : [count |-> Cardinality(S), total |-> Total(S, value),
                       avg   |-> ToCents(Total(S, value), Cardinality(S))])

DdtThroughput ==
    By(Rows("ddt"), LAMBDA d : "month",
       LAMBDA S : [s \in {db[d].status : d \in S} |-> Cardinality({d \in S : db[d].status = s})])

EmployeeAttendanceSummary ==
    By(Rows("attendance"), LAMBDA a : Head(db[a].key),
       LAMBDA S : [days |-> Cardinality(S), hours |-> Total(S, LAMBDA a : db[a].workedHours)])

LeaveBalanceSummary ==
    LET days(r) == db[r].until - db[r].from + 1
    IN  By(Rows("leave"), LAMBDA r : db[r].employee,
           LAMBDA S : [approved |-> Total({r \in S : db[r].status = "approved"}, days),
                       pending  |-> Total({r \in S : db[r].status \in {"draft", "submitted"}}, days)])

IntrastatMonthlySummary ==
    By(Rows("declaration"), LAMBDA x : db[x].period,
       LAMBDA S : [t \in {"cessioni", "acquisti"} |->
                      Total({x \in S : db[x].type = t}, LAMBDA x : db[x].totalValueCents)])

InventoryStockSnapshot ==
    By(Rows("stock_level"), LAMBDA s : db[s].key,
       LAMBDA S : [quantity |-> Total(S, LAMBDA s : db[s].quantity)])

ModelOf(projection) == {r \in Rows("read_model") : db[r].projection = projection}

BenchmarkAnonymous ==
    {[key |-> "summary",
      payload |-> [monthlyInvoiceCount |-> Cardinality(ModelOf("monthly_invoice_totals")),
                   ivaPeriods          |-> Cardinality(ModelOf("iva_periodic_balance")),
                   customerCount       |-> Cardinality(ModelOf("customer_revenue_ranking"))]]}

\* ProjectionRegistry.
Registry ==
    [monthly_invoice_totals          |-> MonthlyInvoiceTotals,
     monthly_supplier_invoice_totals |-> MonthlySupplierInvoiceTotals,
     iva_periodic_balance            |-> IvaPeriodicBalance,
     customer_revenue_ranking        |-> CustomerRevenueRanking,
     supplier_spend_ranking          |-> SupplierSpendRanking,
     inventory_stock_snapshot        |-> InventoryStockSnapshot,
     quotation_pipeline_summary      |-> QuotationPipelineSummary,
     ddt_throughput                  |-> DdtThroughput,
     intrastat_monthly_summary       |-> IntrastatMonthlySummary,
     employee_attendance_summary     |-> EmployeeAttendanceSummary,
     leave_balance_summary           |-> LeaveBalanceSummary,
     benchmark_anonymous             |-> BenchmarkAnonymous]

-----------------------------------------------------------------------------
(* ProjectionOrchestrator.run; runAll runs one after the other.            *)

CursorOf(p) == CHOOSE c \in DOMAIN req[p].base : req[p].base[c].table = "cursor"

\* The cursor of the projection is found or created, and saved as running.
StartRun(p) ==
    \E projection \in Refreshed :
        LET known == {c \in Rows("cursor") : db[c].key = projection}
        IN  \/ \E c \in known :
                Begin(p, {c}, <<Only(c, [db[c] EXCEPT !.status = "running", !.lastError = None])>>,
                      "project")
            \/ /\ known = {} /\ Free("cursor") # {}
               /\ LET c == New("cursor")
                  IN  Begin(p, {c}, <<Only(c, ProjectionCursor(projection))>>, "project")

\* projection.run reads the source; the result is in memory only.
Project(p) ==
    /\ req[p].pc = "project"
    /\ LET projection == req[p].base[CursorOf(p)].key
           found == SetToSeq(Registry[projection])
           ids   == NewIds("read_model", Len(found))
           fresh == [d \in ids |-> CHOOSE n \in DOMAIN found : SetToSeq(ids)[n] = d]
       IN  /\ Spare("read_model", Len(found))
           /\ req' = [req EXCEPT ![p] =
                         At(And([d \in ids |-> ReadModelRow(projection, found[fresh[d]])], @.base),
                            <<>>, "refresh")]
    /\ UNCHANGED <<db, now, contended, cut, calls>>

\* projection.run throws.
ProjectFailed(p) ==
    /\ Faults /\ req[p].pc = "project"
    /\ LET c == CursorOf(p)
       IN  GoOn(p, "project", {},
                <<Only(c, [req[p].base[c] EXCEPT !.status = "failed", !.lastError = "thrown"])>>,
                "idle")

\* Mutant: a row is replaced by that of its key, the others stay.
RefreshByKey(p) ==
    /\ req[p].pc = "refresh"
    /\ LET c      == CursorOf(p)
           cursor == req[p].base[c]
           fresh  == {d \in DOMAIN req[p].base : req[p].base[d].table = "read_model"}
           rows   == [d \in fresh |-> req[p].base[d]]
           old    == {d \in ModelOf(cursor.key) : \E x \in fresh : rows[x].key = db[d].key}
           swap   == And(rows, [d \in old |-> Absent("read_model")])
           done   == Only(c, [cursor EXCEPT !.status = "idle", !.lastProcessedAt = now,
                                 !.rowsProjected = Cardinality(fresh),
                                 !.seen = {rows[d] : d \in fresh}])
       IN  GoOn(p, "refresh", old, IF fresh = {} THEN <<done>> ELSE <<swap, done>>, "idle")

\* upsertRows: nothing for an empty result, or all rows of the projection
\* deleted and the new ones inserted in one transaction; then the cursor.
Refresh(p) ==
    /\ req[p].pc = "refresh"
    /\ LET c      == CursorOf(p)
           cursor == req[p].base[c]
           fresh  == {d \in DOMAIN req[p].base : req[p].base[d].table = "read_model"}
           rows   == [d \in fresh |-> req[p].base[d]]
           old    == ModelOf(cursor.key)
           swap   == And(rows, [d \in old |-> Absent("read_model")])
           done   == Only(c, [cursor EXCEPT !.status = "idle", !.lastProcessedAt = now,
                                 !.rowsProjected = Cardinality(fresh),
                                 !.seen = {rows[d] : d \in fresh}])
       IN  GoOn(p, "refresh", old, IF fresh = {} THEN <<done>> ELSE <<swap, done>>, "idle")

-----------------------------------------------------------------------------
(* ReportService: report definitions and their schedules.                  *)

\* A name that any report has, deleted or not, is refused.
CreateReport(p) ==
    /\ Free("report") # {}
    /\ \E name \in ReportNames :
        /\ \A r \in Rows("report") : db[r].key # name
        /\ LET r == New("report") IN Handle(p, {r}, <<Only(r, ReportDefinition(name))>>)

UpdateReport(p) ==
    \E r \in Rows("report") : Handle(p, {r}, <<Only(r, [db[r] EXCEPT !.body = 1])>>)

DeleteReport(p) ==
    \E r \in Rows("report") : Handle(p, {r}, <<Only(r, [db[r] EXCEPT !.status = "inactive"])>>)

\* Of any report, deleted or not.
CreateSchedule(p) ==
    /\ Free("schedule") # {}
    /\ \E r \in Rows("report") :
        LET s == New("schedule") IN Handle(p, {s}, <<Only(s, ReportSchedule(r, now + 1))>>)

PauseSchedule(p) ==
    \E s \in Rows("schedule") : Handle(p, {s}, <<Only(s, [db[s] EXCEPT !.status = "paused"])>>)

ResumeSchedule(p) ==
    \E s \in Rows("schedule") :
        Handle(p, {s}, <<Only(s, [db[s] EXCEPT !.status = "active", !.nextRunAt = now + 1])>>)

\* BiController.
ReportingStep(p) ==
    \/ StartRun(p) \/ Project(p) \/ ProjectFailed(p) \/ Refresh(p)
    \/ CreateReport(p) \/ UpdateReport(p) \/ DeleteReport(p)
    \/ CreateSchedule(p) \/ PauseSchedule(p) \/ ResumeSchedule(p)

-----------------------------------------------------------------------------
(* Dashboards: what their widgets show, as [projection, limit].            *)

Whole(S)    == {[projection |-> projection, limit |-> 1000] : projection \in S}
TopOf(S)    == {[projection |-> projection, limit |-> TopLimit] : projection \in S}
Rankings    == {"customer_revenue_ranking", "supplier_spend_ranking"}
Sales       == {"monthly_invoice_totals", "quotation_pipeline_summary", "ddt_throughput"}
Floor       == {"inventory_stock_snapshot", "leave_balance_summary"}

MarcoWidgets ==
    Whole(Sales \cup Floor \cup {"iva_periodic_balance", "intrastat_monthly_summary",
                                 "employee_attendance_summary"})
    \cup TopOf(Rankings)

SaraWidgets ==
    Whole(Sales \cup Floor \cup {"iva_periodic_balance", "intrastat_monthly_summary",
                                 "monthly_supplier_invoice_totals"})
    \cup TopOf(Rankings)

LucaWidgets ==
    Whole(Sales \cup Floor \cup {"employee_attendance_summary", "monthly_supplier_invoice_totals"})
    \cup TopOf(Rankings)

GiuliaWidgets ==
    Whole(Sales \cup Floor \cup {"employee_attendance_summary", "monthly_supplier_invoice_totals",
                                 "intrastat_monthly_summary", "iva_periodic_balance"})
    \cup TopOf({"customer_revenue_ranking"})

\* getDashboard, listDashboards.
Catalog == MarcoWidgets \cup SaraWidgets \cup LucaWidgets \cup GiuliaWidgets

Before(a, b) ==
    \E i, j \in DOMAIN Uuids : i < j /\ Uuids[i] = db[a].key[2] /\ Uuids[j] = db[b].key[2]

\* resolveDashboardData, listRows: the first rows in the order of their keys.
Shown(w) ==
    LET rows == ModelOf(w.projection)
    IN  {r \in rows : Cardinality({x \in rows : Before(x, r)}) < w.limit}

-----------------------------------------------------------------------------
(* What should hold of it.                                                 *)

\* Where a cursor says that its last run is done, the read model of its projection
\* is the result of that run and of no other ("full refresh semantics"), row by
\* row, whatever other projections, invoices and quotations did meanwhile and
\* whichever runs failed or were lost half way. An empty result leaves the rows of
\* the run before; of two runs of one projection at once this says nothing.
ReadModelOfLastRun ==
    \A c \in Rows("cursor") \ contended :
        db[c].status = "idle" /\ db[c].rowsProjected > 0 =>
            {db[r] : r \in ModelOf(db[c].key)} = db[c].seen
=============================================================================
