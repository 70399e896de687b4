----------------------------- MODULE BackOffice -----------------------------
(***************************************************************************)
(* Selling, accounting, treasury, personnel, customs, production, reports  *)
(* and companies together: one database, and any of their handlers at once. *)
(***************************************************************************)
EXTENDS Treasury, Shopfloor, Companies

Next ==
    \/ \E p \in Workers :
        \/ SellingStep(p) \/ AccountingStep(p) \/ TreasuryStep(p) \/ PeopleStep(p)
        \/ IntrastatStep(p) \/ ShopfloorStep(p) \/ ReportingStep(p) \/ CompanyStep(p)
        \/ Statements(p)
    \/ Quiet
Spec == Start /\ [][Next]_vars

-----------------------------------------------------------------------------
(* A database as the handlers leave it, but for rows in `hot`.             *)

Numbered == {"quotation", "sales_order", "ddt", "employee", "production_order", "work_order"}

\* Tables with rows that others refer to, or that are counted: none is ever deleted.
Lasting == Numbered \cup {"customer", "account", "attendance", "invoice", "journal", "bank_account",
                        "bank_transaction", "cursor"}

\* The columns this is about.
Columns(t) ==
    CASE t = "quotation"        -> {"key", "sentAt", "acceptedAt", "rejectedAt", "order", "updatedAt"}
      [] t = "sales_order"      -> {"key", "quotation"}
      [] t = "ddt"              -> {"key", "shippedAt", "deliveredAt", "invoice"}
      [] t = "employee"         -> {"key", "createdAt"}
      [] t = "production_order" -> {"key", "quantityProduced"}
      [] t = "work_order"       -> {"key", "productionOrder"}
      [] t = "customer"         -> {"splitPayment"}
      [] t = "account"          -> {"key", "parent", "seeded"}
      [] t = "attendance"       -> {"clockInAt", "clockOutAt", "breakMinutes", "workedHours"}
      [] t = "invoice"          -> {"key", "year", "customer", "lines", "net", "tax"}
      [] t = "journal"          -> {"invoice"}
      [] t = "bank_account"     -> {"psd2Provider", "lastTransactionCursor"}
      [] t = "bank_transaction" -> {"account"}
      [] t = "cursor"           -> {"key", "rowsProjected", "seen"}

Right(t, row) ==
    /\ t = "attendance" => HoursRight(row)
    /\ t = "quotation" => QuotationRight(row)
    /\ t = "ddt" => DdtRight(row)
    /\ t = "invoice" => AmountsRight(row)

\* An order that came from a quotation names one, a journal entry an invoice, and
\* so on.
Referring(rows) ==
    /\ \A o \in Stored(rows, "sales_order") :
           rows[o].quotation \in Stored(rows, "quotation") \cup {None}
    /\ \A i \in Stored(rows, "invoice") : rows[i].customer \in Stored(rows, "customer")
    /\ \A j \in Stored(rows, "journal") : rows[j].invoice \in Stored(rows, "invoice") \cup {None}
    /\ \A w \in Stored(rows, "work_order") :
           rows[w].productionOrder \in Stored(rows, "production_order")
    /\ \A t \in Stored(rows, "bank_transaction") : rows[t].account \in Stored(rows, "bank_account")

InOrder(rows, t) == {rows[d].key : d \in Stored(rows, t)} = 1 .. Cardinality(Stored(rows, t))

\* The invoices of a year, numbered one by one.
DatedIn(rows, y) == {i \in Stored(rows, "invoice") : rows[i].year = y}

NumberedIn(rows, y) ==
    {rows[i].key : i \in DatedIn(rows, y)} = (1 .. Cardinality(DatedIn(rows, y))) \X {y}

\* An account of the seed has its parent.
CodeIn(rows, c) == \E b \in Stored(rows, "account") : rows[b].key = c

UnderParent(rows, row) == row.seeded /\ row.parent # None => CodeIn(rows, row.parent)

OrdersOf(rows, q)  == {o \in Stored(rows, "sales_order") : rows[o].quotation = q}
EntriesOf(rows, i) == {j \in Stored(rows, "journal") : rows[j].invoice = i}

\* The entry of an accepted invoice balances and has its revenue and its IVA.
Registers(rows, entry, row) ==
    /\ entry.receivable = entry.revenue + entry.vat /\ entry.revenue = row.net
    /\ entry.vat = IF rows[row.customer].splitPayment THEN 0 ELSE row.tax

Registered(rows, i) ==
    IF rows[i].status = "accepted"
    THEN \E j \in EntriesOf(rows, i) : EntriesOf(rows, i) = {j} /\ Registers(rows, rows[j], rows[i])
    ELSE EntriesOf(rows, i) = {}

\* The transactions of a bank account: what its provider gives when it has a cursor,
\* none before.
ImportsOf(rows, a) == {t \in Stored(rows, "bank_transaction") : rows[t].account = a}

HasGiven(rows, a) ==
    IF Given(rows[a].psd2Provider) = 0 THEN ImportsOf(rows, a) = {}
    ELSE \E t \in ImportsOf(rows, a) : ImportsOf(rows, a) = {t}

Imported(rows, a) ==
    IF rows[a].lastTransactionCursor = None THEN ImportsOf(rows, a) = {} ELSE HasGiven(rows, a)

\* The read model of a projection, and of one whose last run is its cursor `c`.
ModelIn(rows, projection) ==
    {d \in Stored(rows, "read_model") : rows[d].projection = projection}

ResultIn(rows, projection) == {rows[d] : d \in ModelIn(rows, projection)}

Modelled(rows, c) ==
    rows[c].status = "idle" /\ rows[c].rowsProjected > 0 =>
        ResultIn(rows, rows[c].key) = rows[c].seen

\* One cursor for each projection, and read models as their last runs left them.
ModelsOK(rows, hot) ==
    /\ \A a, c \in Stored(rows, "cursor") : rows[a].key = rows[c].key => a = c
    /\ \A d \in Stored(rows, "read_model") : "projection" \in DOMAIN rows[d]
    /\ \A c \in Stored(rows, "cursor") \ hot : Modelled(rows, c)

Sound(rows, hot) ==
    /\ IsFiniteSet(DOMAIN rows) /\ None \notin DOMAIN rows
    /\ \A d \in DOMAIN rows : rows[d].status # "absent" /\ rows[d].table \in Lasting =>
           Columns(rows[d].table) \subseteq DOMAIN rows[d]
    /\ \A d \in DOMAIN rows \ hot : rows[d].status # "absent" => Right(rows[d].table, rows[d])
    /\ \A t \in Numbered : InOrder(rows, t)
    /\ \A y \in Years : NumberedIn(rows, y)
    /\ \A a \in Stored(rows, "account") : UnderParent(rows, rows[a])
    /\ \A e \in Stored(rows, "employee") : rows[e].createdAt \in 0 .. MaxCalls
    /\ Referring(rows)
    /\ \A q \in Stored(rows, "quotation") \ hot : OrdersOf(rows, q) = {rows[q].order} \ {None}
    /\ \A i \in Stored(rows, "invoice") \ hot : Registered(rows, i)

\* Null is no number, no stage of a deal and no projection, and a database to start from is as the
\* handlers leave one.
ASSUME BackOfficeAssumption ==
    /\ None \notin Nat
    /\ None \notin {"lead", "qualifying", "negotiation", "won", "lost", "delivered"} \cup Refreshed
    /\ \A scene \in Scenes :
        /\ Sound(scene, {})
        /\ \A a \in Stored(scene, "bank_account") : Imported(scene, a)
        /\ ModelsOK(scene, {})

-----------------------------------------------------------------------------
(* What should hold of all of it.                                          *)

\* Quotations, orders, transport documents, employees, production orders and
\* operations are numbered 1, 2, 3 ... without a gap: `count + 1`, or the last
\* number plus one, and the unique index together, whatever requests overlap or
\* fail, and whether an order was typed in or came from a quotation.
NumberedOneByOne ==
    \A t \in Numbered : {db[d].key : d \in Rows(t)} = 1 .. Count(t)
=============================================================================
