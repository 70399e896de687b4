----------------------------- MODULE Receiving -----------------------------
(***************************************************************************)
(* ProcurementService, from the purchase order to the supplier's invoice:  *)
(* the order's status, goods receipts and their inspection, invoices, and  *)
(* the three-way match of an invoice with order and receipts.              *)
(*                                                                         *)
(* Quantities are ten-thousandths, as in numeric(14,4); amounts are cents; *)
(* tolerances are tenths of a percent. The lines of orders and invoices    *)
(* never change once written. Those of receipts do, and GoodsReceipt       *)
(* cascades a save to them.                                                *)
(***************************************************************************)
EXTENDS Integers, Sequences, FiniteSets, SequencesExt, Documents

CONSTANTS
    Orders,         \* purchase orders
    OrderLines,     \* their lines
    Price,          \* order line -> unitCostCents
    Receipts,       \* ids of goods receipts
    Invoices,       \* supplier and number of the invoices that may come
    Deliveries,     \* what a receipt may say: order line -> received, accepted, rejected
    Verdicts,       \* what an inspection may say: order line -> accepted, rejected
    Bills,          \* what an invoice may say: its lines, as the database returns
                    \* them, and its total, a subtotal and a tax
    Tolerances,     \* what a match may be asked with; None where it says nothing
    None,           \* null and undefined
    Workers,        \* requests in flight together
    MaxCalls,       \* bound: requests received in a behaviour
    Faults          \* whether a request may lose its connection

Docs == Orders \cup Receipts \cup Invoices

ASSUME ReceivingAssumption ==
    /\ Orders \cap Receipts = {} /\ Orders \cap Invoices = {} /\ Receipts \cap Invoices = {}
    /\ None \notin Docs \cup OrderLines \cup Int
    /\ Price \in [OrderLines -> Nat]
    /\ MaxCalls \in Nat
    /\ Faults \in BOOLEAN

\* What is counted of each line of a receipt.
Columns == {"received", "accepted", "rejected"}

Counted(goods) == goods \in [DOMAIN goods -> [Columns -> Int]]

ASSUME QuantitiesAssumption ==
    /\ \A goods \in Deliveries : Counted(goods)
    /\ \A v \in Verdicts : v \in [DOMAIN v -> [{"accepted", "rejected"} -> Int]]

VARIABLES
    row,        \* the committed documents: order, receipt or invoice -> its columns
    lines,      \* the committed receipt lines: receipt -> order line -> quantities
    bill,       \* the committed lines and totals of the invoices
    req,        \* what each worker is doing
    seen,       \* what was accepted of the order lines, at every moment so far
    judged,     \* invoices whose match or dispute was ever committed
    contended,  \* documents that ever had two requests in flight
    calls       \* requests received so far

vars == <<row, lines, bill, req, seen, judged, contended, calls>>

-----------------------------------------------------------------------------
(* Status graphs.                                                          *)

OrderStatus == {"draft", "sent", "acknowledged", "partially_received", "received",
                "invoiced", "closed", "cancelled"}
ReceiptStatus == {"draft", "confirmed", "partially_inspected", "inspected", "rejected"}
InvoiceStatus == {"received", "matched", "approved", "disputed", "rejected", "paid", "cancelled"}

CanOrder(from, to) ==
    \/ from = "draft" /\ to \in {"sent", "cancelled"}
    \/ from = "sent" /\ to \in {"acknowledged", "partially_received", "received", "cancelled"}
    \/ from \in {"acknowledged", "partially_received"}
          /\ to \in {"partially_received", "received", "cancelled"}
    \/ from = "received" /\ to \in {"invoiced", "closed", "cancelled"}
    \/ from = "invoiced" /\ to \in {"closed", "cancelled"}

CanReceipt(from, to) ==
    \/ from = "draft" /\ to \in {"confirmed", "rejected"}
    \/ from \in {"confirmed", "partially_inspected"}
          /\ to \in {"partially_inspected", "inspected", "rejected"}

\* Mutant: an invoice nobody has compared with anything may be approved.
CanInvoiceUnjudged(from, to) ==
    \/ from = "received" /\ to \in {"matched", "disputed", "approved", "rejected", "cancelled"}
    \/ from = "matched" /\ to \in {"approved", "disputed", "cancelled"}
    \/ from = "disputed" /\ to \in {"approved", "rejected", "cancelled"}
    \/ from = "approved" /\ to \in {"paid", "cancelled"}

CanInvoice(from, to) ==
    \/ from = "received" /\ to \in {"matched", "disputed", "rejected", "cancelled"}
    \/ from = "matched" /\ to \in {"approved", "disputed", "cancelled"}
    \/ from = "disputed" /\ to \in {"approved", "rejected", "cancelled"}
    \/ from = "approved" /\ to \in {"paid", "cancelled"}

Can(d, from, to) ==
    \/ d \in Orders /\ CanOrder(from, to)
    \/ d \in Receipts /\ CanReceipt(from, to)
    \/ d \in Invoices /\ CanInvoice(from, to)

-----------------------------------------------------------------------------
(* The three-way match.                                                    *)

Distance(a, b) == IF a < b THEN b - a ELSE a - b

\* |actual - expected| <= |expected * pct / 100| + slack, times a thousand. A
\* percentage that is undefined makes the right-hand side NaN, and no number
\* is less than that: `{...DEFAULT_TOLERANCES, ...tolerances}` keeps it.
Within(expected, actual, pct, slack) ==
    pct # None /\ 1000 * Distance(expected, actual) <= Distance(expected * pct, 0) + slack

\* Amounts come as strings, which are never === 0; the accepted quantity is a number.
WithinCents(expected, actual, pct)    == Within(expected, actual, pct, 500)
WithinQuantity(expected, actual, pct) ==
    IF expected = 0 THEN actual = 0 ELSE Within(expected, actual, pct, 1000)

LineTax(l) == (l.amount * l.rate + 50) \div 100

\* The digits of n written after those of s.
Shift(n)     == CHOOSE t \in {10, 100, 1000, 10000, 100000} : n < t /\ (t = 10 \/ 10 * n >= t)
Beside(s, n) == s * Shift(n) + n

\* expectedTotal. The driver returns a bigint column as a string, so the `+` of
\* the reduce puts amounts and taxes side by side.
Total(b) == FoldLeft(LAMBDA s, l : Beside(Beside(s, l.amount), LineTax(l)), 0, b.lines)

QuantityMatches(l, accepted, tol) == WithinQuantity(accepted[l.line], l.quantity, tol.quantity)
PriceMatches(l, tol)              == WithinCents(Price[l.line], l.cost, tol.price)

\* Mutant: one line that agrees is enough.
DiscrepanciesOfAll(b, accepted, tol) ==
    LET ordered == {l \in Range(b.lines) : l.line \in OrderLines}
    IN  {k \in {"unmatched_line", "quantity", "price", "total"} :
            \/ k = "unmatched_line" /\ ordered = {}
            \/ k = "quantity" /\ \A l \in ordered : ~QuantityMatches(l, accepted, tol)
            \/ k = "price" /\ \A l \in ordered : ~PriceMatches(l, tol)
            \/ k = "total" /\ ~WithinCents(Total(b), b.total, tol.total)}

\* runThreeWayMatch: the kinds of the discrepancies it finds. A line of no
\* order (missing_po) counts as one that names no order.
Discrepancies(b, accepted, tol) ==
    LET ordered == {l \in Range(b.lines) : l.line \in OrderLines}
    IN  {k \in {"unmatched_line", "quantity", "price", "total"} :
            \/ k = "unmatched_line" /\ ordered # Range(b.lines)
            \/ k = "quantity" /\ \E l \in ordered : ~QuantityMatches(l, accepted, tol)
            \/ k = "price" /\ \E l \in ordered : ~PriceMatches(l, tol)
            \/ k = "total" /\ ~WithinCents(Total(b), b.total, tol.total)}

\* What the receipts in `table` accept of each order line, whatever their status.
Accepted(table) ==
    [l \in OrderLines |->
        MapThenSumSet(LAMBDA g : IF l \in DOMAIN table[g] THEN table[g][l].accepted ELSE 0,
                      DOMAIN table)]

-----------------------------------------------------------------------------
(* A worker. `paper` is the bill or the tolerances its request came with,  *)
(* `pc` the database call it makes next:                                   *)
(*   number   the count of nextGrNumber                                    *)
(*   insert   the INSERTs of a receipt or an invoice with its lines        *)
(*   goods    the read of the receipt lines (runMatch)                     *)
(*   lines    the saves of the lines an inspection names                   *)
(*   reload   the SELECT of the document's save()                          *)
(*   write    its UPDATEs and COMMIT                                       *)

Job(pc, doc, entity, goods, named, paper) ==
    [pc |-> pc, doc |-> doc, entity |-> entity, goods |-> goods, named |-> named,
     paper |-> paper, held |-> {}, dirty |-> {}, stale |-> <<>>, num |-> 0]

Idle == Job("idle", None, <<>>, <<>>, {}, None)

Busy(p) == req[p].pc # "idle"

\* A request arrives: the object it loads, already changed as far as the
\* handler changes it before its next database call.
Take(p, d, r) ==
    /\ ~Busy(p) /\ calls < MaxCalls
    /\ req' = [req EXCEPT ![p] = r]
    /\ calls' = calls + 1
    /\ contended' = IF d # None /\ (\E q \in Workers : Busy(q) /\ req[q].doc = d)
                    THEN contended \cup {d} ELSE contended
    /\ UNCHANGED <<row, lines, bill, seen, judged>>

Save(d, entity, goods) == Job("reload", d, entity, goods, {}, None)

Init ==
    /\ row = [d \in Orders |-> [status |-> "draft"]]
    /\ lines = <<>>
    /\ bill = <<>>
    /\ req = [p \in Workers |-> Idle]
    /\ seen = {Accepted(<<>>)}
    /\ judged = {}
    /\ contended = {}
    /\ calls = 0

-----------------------------------------------------------------------------
(* Requests.                                                               *)

\* transitionPurchaseOrder: send, acknowledge, cancel.
MoveOrder(p, d, to) ==
    /\ CanOrder(row[d].status, to)
    /\ Take(p, d, Save(d, [row[d] EXCEPT !.status = to], <<>>))

Incoming == {q \in Workers : Busy(q) /\ req[q].doc = None}

\* createGoodsReceipt reads the order once, before its transaction. The number
\* of receipts is bounded by their set.
CreateReceipt(p, d, goods) ==
    /\ Cardinality(DOMAIN lines) + Cardinality(Incoming) < Cardinality(Receipts)
    /\ row[d].status \notin {"cancelled", "closed"}
    /\ Take(p, None, Job("number", None, <<>>, goods, {}, None))

\* transitionGoodsReceipt: confirm, reject. The lines are loaded and saved too.
MoveReceipt(p, d, to) ==
    /\ CanReceipt(row[d].status, to)
    /\ Take(p, d, Save(d, [row[d] EXCEPT !.status = to], lines[d]))

\* The receipt's lines as the verdict v leaves them.
Judge(goods, v) ==
    [l \in DOMAIN goods |->
        IF l \in DOMAIN v
        THEN [goods[l] EXCEPT !.accepted = v[l].accepted, !.rejected = v[l].rejected]
        ELSE goods[l]]

\* Off by one ten-thousandth or less: at exactly one, both comparisons below
\* depend on how the binary fractions round, so either outcome is allowed.
Off(g)     == g.accepted + g.rejected - g.received
Near(g)    == Off(g) \in -1 .. 1
Settled(g) == Off(g) = 0

\* Mutants of Inspect: only the lines of this verdict are looked at; a receipt
\* is inspected whatever its status.
InspectNamed(p, d, v) ==
    LET goods == Judge(lines[d], v)
    IN  /\ row[d].status \in {"confirmed", "partially_inspected"}
        /\ DOMAIN v \subseteq DOMAIN goods
        /\ \A l \in DOMAIN v : Off(goods[l]) <= 1
        /\ \E next \in {"inspected", "partially_inspected"} :
              /\ next = "inspected" => \A l \in DOMAIN v : Near(goods[l])
              /\ next # "inspected" => \E l \in DOMAIN goods : ~Settled(goods[l])
              /\ Take(p, d, Job("lines", d, [row[d] EXCEPT !.status = next],
                                goods, DOMAIN v, None))

InspectAnyStatus(p, d, v) ==
    LET goods == Judge(lines[d], v)
    IN  /\ DOMAIN v \subseteq DOMAIN goods
        /\ \A l \in DOMAIN v : Off(goods[l]) <= 1
        /\ \E next \in {"inspected", "partially_inspected"} :
              /\ next = "inspected" => \A l \in DOMAIN goods : Near(goods[l])
              /\ next # "inspected" => \E l \in DOMAIN goods : ~Settled(goods[l])
              /\ Take(p, d, Job("lines", d, [row[d] EXCEPT !.status = next],
                                goods, DOMAIN v, None))

\* inspectGoodsReceipt.
Inspect(p, d, v) ==
    LET goods == Judge(lines[d], v)
    IN  /\ row[d].status \in {"confirmed", "partially_inspected"}
        /\ DOMAIN v \subseteq DOMAIN goods
        /\ \A l \in DOMAIN v : Off(goods[l]) <= 1
        /\ \E next \in {"inspected", "partially_inspected"} :
              /\ next = "inspected" => \A l \in DOMAIN goods : Near(goods[l])
              /\ next # "inspected" => \E l \in DOMAIN goods : ~Settled(goods[l])
              /\ Take(p, d, Job("lines", d, [row[d] EXCEPT !.status = next],
                                goods, DOMAIN v, None))

\* createSupplierInvoice looks for the supplier's number first.
CreateInvoice(p, d, b) ==
    /\ d \notin DOMAIN row
    /\ Take(p, d, Job("insert", d, <<>>, <<>>, {}, b))

\* runMatch. The order's lines do not change: they are read with the receipts'.
Match(p, d, tol) ==
    /\ row[d].status = "received"
    /\ Take(p, d, Job("goods", d, row[d], <<>>, {}, tol))

\* transitionSupplierInvoice: approve, dispute, reject, cancel.
MoveInvoice(p, d, to) ==
    /\ CanInvoice(row[d].status, to)
    /\ Take(p, d, Save(d, [row[d] EXCEPT !.status = to], <<>>))

-----------------------------------------------------------------------------
(* The database calls of a request.                                        *)

\* nextGrNumber counts what is committed.
Number(p) ==
    /\ req[p].pc = "number"
    /\ req' = [req EXCEPT ![p] =
           [@ EXCEPT !.pc = "insert", !.num = Cardinality(DOMAIN lines) + 1]]
    /\ UNCHANGED <<row, lines, bill, seen, judged, contended, calls>>

NumberTaken(p) == \E g \in DOMAIN lines : row[g].num = req[p].num

\* Mutant: a receipt begins with a status of another graph.
InsertReceived(p, g) ==
    /\ req[p].pc = "insert" /\ req[p].doc = None
    /\ g \notin DOMAIN row /\ ~NumberTaken(p)
    /\ row' = With(row, g, [status |-> "received", num |-> req[p].num])
    /\ lines' = With(lines, g, req[p].goods)
    /\ seen' = seen \cup {Accepted(lines')}
    /\ req' = [req EXCEPT ![p] = Idle]
    /\ UNCHANGED <<bill, judged, contended, calls>>

\* The rest of createGoodsReceipt: the receipt and its lines in one transaction.
InsertReceipt(p, g) ==
    /\ req[p].pc = "insert" /\ req[p].doc = None
    /\ g \notin DOMAIN row /\ ~NumberTaken(p)
    /\ row' = With(row, g, [status |-> "draft", num |-> req[p].num])
    /\ lines' = With(lines, g, req[p].goods)
    /\ seen' = seen \cup {Accepted(lines')}
    /\ req' = [req EXCEPT ![p] = Idle]
    /\ UNCHANGED <<bill, judged, contended, calls>>

\* The rest of createSupplierInvoice.
InsertInvoice(p) ==
    LET d == req[p].doc
    IN  /\ req[p].pc = "insert" /\ d # None /\ d \notin DOMAIN row
        /\ row' = With(row, d, [status |-> "received", discrepancies |-> {}])
        /\ bill' = With(bill, d, req[p].paper)
        /\ req' = [req EXCEPT ![p] = Idle]
        /\ UNCHANGED <<lines, seen, judged, contended, calls>>

\* runMatch judges the invoice it has loaded by the receipt lines of this moment.
ReadGoods(p) ==
    LET found == Discrepancies(bill[req[p].doc], Accepted(lines), req[p].paper)
    IN  /\ req[p].pc = "goods"
        /\ req' = [req EXCEPT ![p] = [@ EXCEPT !.pc = "reload",
               !.entity = [status |-> IF found = {} THEN "matched" ELSE "disputed",
                           discrepancies |-> found]]]
        /\ UNCHANGED <<row, lines, bill, seen, judged, contended, calls>>

\* Another transaction has written one of these lines and not ended.
LinesHeld(p, ls) ==
    \E q \in Workers \ {p} : req[q].doc = req[p].doc /\ req[q].held \cap ls # {}

\* The loop of an inspection, in its transaction: the lines it changes stay
\* locked. Requests that lock each other's lines are not told apart from ones
\* that lose their connection (PostgreSQL ends one of them).
SaveLines(p) ==
    LET r       == req[p]
        changed == {l \in r.named : r.goods[l] # lines[r.doc][l]}
    IN  /\ r.pc = "lines" /\ ~LinesHeld(p, changed)
        /\ req' = [req EXCEPT ![p] = [@ EXCEPT !.pc = "reload", !.held = changed]]
        /\ UNCHANGED <<row, lines, bill, seen, judged, contended, calls>>

\* save() compares every line it was loaded with, its own writes included.
Reload(p) ==
    LET r == req[p]
    IN  /\ r.pc = "reload"
        /\ req' = [req EXCEPT ![p] = [@ EXCEPT !.pc = "write",
               !.dirty = Dirty(r.entity, row[r.doc]),
               !.stale = [l \in DOMAIN r.goods |->
                             IF l \in r.held THEN DOMAIN r.goods[l]
                             ELSE Dirty(r.goods[l], lines[r.doc][l])]]]
        /\ UNCHANGED <<row, lines, bill, seen, judged, contended, calls>>

Judgement(r) == r.doc \in Invoices /\ "status" \in r.dirty
                   /\ r.entity.status \in {"matched", "disputed"}

Write(p) ==
    LET r == req[p]
        d == r.doc
    IN  /\ r.pc = "write" /\ ~LinesHeld(p, {l \in DOMAIN r.goods : r.stale[l] # {}})
        /\ row' = [row EXCEPT ![d] = Merge(@, r.entity, r.dirty)]
        /\ lines' = IF d \in Receipts
                    THEN [lines EXCEPT ![d] = [l \in DOMAIN @ |->
                             Merge(lines[d][l], r.goods[l], r.stale[l])]]
                    ELSE lines
        /\ seen' = seen \cup {Accepted(lines')}
        /\ judged' = IF Judgement(r) THEN judged \cup {d} ELSE judged
        /\ req' = [req EXCEPT ![p] = Idle]
        /\ UNCHANGED <<bill, contended, calls>>

\* An exception: what the request has not committed is rolled back.
Abort(p) ==
    /\ req' = [req EXCEPT ![p] = Idle]
    /\ UNCHANGED <<row, lines, bill, seen, judged, contended, calls>>

\* The unique indexes on (tenantId, grNumber) and on supplier and number.
Refused(p) ==
    /\ req[p].pc = "insert"
    /\ IF req[p].doc = None THEN NumberTaken(p) ELSE req[p].doc \in DOMAIN row
    /\ Abort(p)

ConnectionLost(p) == Faults /\ Busy(p) /\ Abort(p)

\* Nothing is in flight and no request comes, whether or not one could.
Quiet == (\A p \in Workers : ~Busy(p)) /\ UNCHANGED vars

Request(p) ==
    \/ \E d \in Orders :
          \/ \E to \in {"sent", "acknowledged", "cancelled"} : MoveOrder(p, d, to)
          \/ \E goods \in Deliveries : CreateReceipt(p, d, goods)
    \/ \E d \in Receipts \cap DOMAIN row :
          \/ \E to \in {"confirmed", "rejected"} : MoveReceipt(p, d, to)
          \/ \E v \in Verdicts : Inspect(p, d, v)
    \/ \E d \in Invoices, b \in Bills : CreateInvoice(p, d, b)
    \/ \E d \in Invoices \cap DOMAIN row :
          \/ \E tol \in Tolerances : Match(p, d, tol)
          \/ \E to \in {"approved", "disputed", "rejected", "cancelled"} : MoveInvoice(p, d, to)

Next ==
    \/ \E p \in Workers :
          \/ Request(p)
          \/ \E g \in Receipts : InsertReceipt(p, g)
          \/ Number(p) \/ InsertInvoice(p) \/ ReadGoods(p) \/ SaveLines(p)
          \/ Reload(p) \/ Write(p) \/ Refused(p) \/ ConnectionLost(p)
    \/ Quiet

Spec == Init /\ [][Next]_vars

-----------------------------------------------------------------------------
Statuses(d) == IF d \in Orders THEN OrderStatus
               ELSE IF d \in Receipts THEN ReceiptStatus ELSE InvoiceStatus

\* The committed documents have the statuses of their kind, every receipt its
\* lines and every invoice its bill (entities/goods-receipt.entity.ts,
\* entities/supplier-invoice.entity.ts, entities/purchase-order.entity.ts).
TypeOK ==
    /\ Orders \subseteq DOMAIN row /\ DOMAIN row \subseteq Docs
    /\ \A d \in DOMAIN row : row[d].status \in Statuses(d)
    /\ DOMAIN lines = DOMAIN row \cap Receipts
    /\ DOMAIN bill = DOMAIN row \cap Invoices
    /\ judged \subseteq DOMAIN bill
    /\ contended \subseteq Docs
    /\ calls \in 0 .. MaxCalls

(***************************************************************************)
(* Nothing is approved for payment unseen: an approved invoice was once    *)
(* committed as matched or disputed, whatever stale objects were saved     *)
(* over it in between (approveSupplierInvoice, runMatch).                  *)
(***************************************************************************)
ApprovalEarned == \A d \in DOMAIN bill : row[d].status = "approved" => d \in judged

DeliveredWith(d, accepted, tol) ==
    \A l \in Range(bill[d].lines) :
        l.line \in OrderLines /\ QuantityMatches(l, accepted, tol) /\ PriceMatches(l, tol)

Delivered(d) == \E tol \in Tolerances, accepted \in seen : DeliveredWith(d, accepted, tol)

(***************************************************************************)
(* A matched invoice agreed, line by line and within a tolerance somebody  *)
(* asked for, with what the receipts accepted at one moment and with the   *)
(* order's prices (runMatch, runThreeWayMatch). The receipts may have      *)
(* changed since.                                                          *)
(***************************************************************************)
MatchedDelivered == \A d \in DOMAIN bill : row[d].status = "matched" => Delivered(d)

\* "fully inspected if every line settled" (procurement.service.ts:880): so it
\* is while no two requests on the receipt overlap.
InspectedSettled ==
    \A g \in DOMAIN lines \ contended :
        row[g].status = "inspected" => \A l \in DOMAIN lines[g] : Near(lines[g][l])

\* The quantities of a receipt whose requests never overlapped change only while
\* it is being inspected, although every save of the receipt saves its lines (inspectGoodsReceipt).
VerdictStays ==
    [][\A g \in DOMAIN lines \ contended' :
          lines'[g] # lines[g] => row[g].status \in {"confirmed", "partially_inspected"}]_vars

Sum(b) == FoldLeft(LAMBDA s, l : s + l.amount + LineTax(l), 0, b.lines)

\* "SI.totalCents within tolerance of expected (subtotal x (1 + taxRate))"
\* (three-way-match.ts:9): a total that is the sum of the lines and their taxes
\* is no discrepancy. It is compared with their digits side by side.
ExactTotal ==
    \A d \in DOMAIN bill : bill[d].total = Sum(bill[d]) => "total" \notin row[d].discrepancies

=============================================================================
