------------------------------- MODULE Selling -------------------------------
(***************************************************************************)
(* SalesDepthService and the parts of SalesService without stock:          *)
(* customers, quotations, sales orders, transport documents (DDT), contact *)
(* activities; and SalesPipelineService, which reads them all.             *)
(*                                                                         *)
(* Amounts are cents. The clock counts periods of ninety days, the look-   *)
(* back of the pipeline. One tenant: every query names it.                 *)
(***************************************************************************)
EXTENDS Requests, FiniteSetsExt

CONSTANTS
    CustomerCodes,  \* codes a new customer may be given
    Baskets         \* what a quotation or an order may list: [net |-> cents, rate |-> percent]

-----------------------------------------------------------------------------
(* Entities.                                                               *)

Customer(code, split) ==
    [table |-> "customer", status |-> "active", key |-> code, splitPayment |-> split]

\* convertedToSalesOrderId is `order`; the three dates are the clock or None.
Quotation(n, c, basket, t) ==
    [table |-> "quotation", status |-> "draft", key |-> n, customer |-> c,
     basket |-> basket, issueDate |-> t, sentAt |-> None, acceptedAt |-> None,
     rejectedAt |-> None, order |-> None, updatedAt |-> t]

\* `quotation` is no column: where the order came from.
SalesOrder(n, c, basket, tax, q) ==
    [table |-> "sales_order", status |-> "draft", key |-> n, customer |-> c,
     basket |-> basket, tax |-> tax, quotation |-> q]

Ddt(n, c) ==
    [table |-> "ddt", status |-> "draft", key |-> n, customer |-> c,
     shippedAt |-> None, deliveredAt |-> None, invoice |-> None]

ContactActivity(c, t) ==
    [table |-> "activity", status |-> "logged", customer |-> c, occurredAt |-> t]

-----------------------------------------------------------------------------
(* Status graphs.                                                          *)

CanQuotation(from, to) ==
    \/ from = "draft" /\ to \in {"sent", "expired"}
    \/ from = "sent" /\ to \in {"revised", "accepted", "rejected", "expired"}
    \/ from = "revised" /\ to \in {"sent", "expired"}
    \/ from = "accepted" /\ to \in {"converted", "expired"}

CanDdt(from, to) ==
    \/ from = "draft" /\ to \in {"issued", "cancelled"}
    \/ from = "issued" /\ to \in {"in_transit", "delivered", "cancelled"}
    \/ from = "in_transit" /\ to \in {"delivered", "returned", "lost", "disputed"}
    \/ from = "delivered" /\ to \in {"invoiced", "disputed"}
    \/ from = "disputed" /\ to \in {"delivered", "returned", "lost"}

-----------------------------------------------------------------------------
(* Amounts. A quotation's tax is rounded to the cent, as an order's is.    *)

Tax(basket)              == (basket.net * basket.rate + 50) \div 100
OrderTax(basket, split)  == IF split THEN 0 ELSE Tax(basket)

-----------------------------------------------------------------------------
(* Customers, orders.                                                      *)

CreateCustomer(p) ==
    /\ Free("customer") # {}
    /\ \E code \in CustomerCodes, split \in BOOLEAN :
        /\ \A c \in Rows("customer") : db[c].key # code
        /\ LET d == New("customer")
           IN  Handle(p, {d}, <<Only(d, Customer(code, split))>>)

\* nextOrderNumber counts the orders before the INSERT.
CreateSalesOrder(p) ==
    /\ Free("sales_order") # {}
    /\ \E c \in Rows("customer"), basket \in Baskets :
        LET d == New("sales_order")
        IN  Handle(p, {d}, <<Only(d, SalesOrder(Count("sales_order") + 1, c, basket,
                                                OrderTax(basket, db[c].splitPayment), None))>>)

\* Mutant: a shipped order may be cancelled.
CanSalesOrderAlways(from, to) ==
    \/ from = "draft" /\ to = "confirmed"
    \/ from = "confirmed" /\ to = "shipped"
    \/ to = "cancelled"

\* The status of an order: OrderFulfilment has what confirming, cancelling and
\* shipping do to the stock.
CanSalesOrder(from, to) ==
    \/ from = "draft" /\ to = "confirmed"
    \/ from = "confirmed" /\ to = "shipped"
    \/ from \in {"draft", "confirmed", "partially_shipped", "cancelled"} /\ to = "cancelled"

MoveSalesOrder(p) ==
    \E d \in Rows("sales_order"), to \in {"confirmed", "shipped", "cancelled"} :
        /\ CanSalesOrder(db[d].status, to)
        /\ Handle(p, {d}, <<Only(d, [db[d] EXCEPT !.status = to])>>)

-----------------------------------------------------------------------------
(* Quotations.                                                             *)

CreateQuotation(p) ==
    /\ Free("quotation") # {}
    /\ \E c \in Rows("customer"), basket \in Baskets :
        LET d == New("quotation")
        IN  Handle(p, {d}, <<Only(d, Quotation(Count("quotation") + 1, c, basket, now))>>)

Dated(q, to) ==
    [q EXCEPT !.status = to, !.updatedAt = now,
              !.sentAt     = IF to = "sent" THEN now ELSE @,
              !.acceptedAt = IF to = "accepted" THEN now ELSE @,
              !.rejectedAt = IF to = "rejected" THEN now ELSE @]

\* transitionQuotation. No route asks it for "converted".
TransitionQuotation(p) ==
    \E d \in Rows("quotation"), to \in {"sent", "revised", "accepted", "rejected", "expired"} :
        /\ CanQuotation(db[d].status, to)
        /\ Handle(p, {d}, <<Only(d, Dated(db[d], to))>>)

\* The order a quotation becomes, and the quotation that says so.
Converted(p, d, o) ==
    And(Only(o, SalesOrder(Count("sales_order") + 1, req[p].base[d].customer,
                           req[p].base[d].basket, Tax(req[p].base[d].basket), d)),
        Only(d, [req[p].base[d] EXCEPT !.order = o, !.status = "converted", !.updatedAt = now]))

\* Mutant: a quotation that is converted may be converted again.
ConvertAgain(p) ==
    \/ /\ Free("sales_order") # {}
       /\ \E d \in Rows("quotation") :
            /\ db[d].status \in {"accepted", "converted"}
            /\ Begin(p, {d, New("sales_order")}, <<>>, "convert")
    \/ \E d, o \in DOMAIN req[p].base :
            /\ db[d].table = "quotation" /\ db[o].table = "sales_order"
            /\ GoOn(p, "convert", {}, <<Converted(p, d, o)>>, "idle")

\* convertQuotationToSalesOrder: the quotation is read and judged; then, in the
\* transaction, the orders are counted, the order inserted, the quotation saved.
Convert(p) ==
    \/ /\ Free("sales_order") # {}
       /\ \E d \in Rows("quotation") :
            /\ db[d].status = "accepted" /\ db[d].order = None
            /\ Begin(p, {d, New("sales_order")}, <<>>, "convert")
    \/ \E d, o \in DOMAIN req[p].base :
            /\ db[d].table = "quotation" /\ db[o].table = "sales_order"
            /\ GoOn(p, "convert", {}, <<Converted(p, d, o)>>, "idle")

-----------------------------------------------------------------------------
(* Transport documents, activities.                                        *)

CreateDdt(p) ==
    /\ Free("ddt") # {}
    /\ \E c \in Rows("customer") :
        LET d == New("ddt")
        IN  Handle(p, {d}, <<Only(d, Ddt(Count("ddt") + 1, c))>>)

\* transitionDdt to every status but "invoiced".
TransitionDdt(p) ==
    \E d \in Rows("ddt"),
       to \in {"issued", "in_transit", "delivered", "cancelled", "returned", "lost", "disputed"} :
        /\ CanDdt(db[d].status, to)
        /\ Handle(p, {d}, <<Only(d, [db[d] EXCEPT !.status = to,
               !.shippedAt   = IF to = "in_transit" THEN now ELSE @,
               !.deliveredAt = IF to = "delivered" THEN now ELSE @])>>)

\* Mutant: a document may be invoiced from whatever status.
InvoiceAnyDdt(p) ==
    \E d \in Rows("ddt"), i \in IdsOf("invoice") :
        Handle(p, {d}, <<Only(d, [db[d] EXCEPT !.status = "invoiced", !.invoice = i])>>)

\* invoiceDdt: the caller names the invoice, and nobody looks whether there is one.
InvoiceDdt(p) ==
    \E d \in Rows("ddt"), i \in IdsOf("invoice") :
        /\ CanDdt(db[d].status, "invoiced")
        /\ Handle(p, {d}, <<Only(d, [db[d] EXCEPT !.status = "invoiced", !.invoice = i])>>)

\* prepareInvoiceFromDdts: which documents one deferred invoice may cover. It
\* reads; what the client does with the answer comes later.
Billable(D) ==
    /\ D # {} /\ D \subseteq Rows("ddt")
    /\ \A d, e \in D : db[d].customer = db[e].customer
    /\ \A d \in D : db[d].status = "delivered"

LogActivity(p) ==
    /\ Free("activity") # {}
    /\ \E c \in Rows("customer") :
        LET d == New("activity") IN Handle(p, {d}, <<Only(d, ContactActivity(c, now))>>)

\* SalesController and SalesDepthController.
SellingStep(p) ==
    \/ CreateCustomer(p) \/ CreateSalesOrder(p) \/ MoveSalesOrder(p)
    \/ CreateQuotation(p) \/ TransitionQuotation(p) \/ Convert(p)
    \/ CreateDdt(p) \/ TransitionDdt(p) \/ InvoiceDdt(p)
    \/ LogActivity(p)

-----------------------------------------------------------------------------
(* The pipeline.                                                           *)

\* The latest quotation of a customer; of several of one day, any.
Latest(c) ==
    LET quotations == {q \in Rows("quotation") : db[q].customer = c}
    IN  {q \in quotations : \A r \in quotations : db[r].issueDate <= db[q].issueDate}

\* composeDeal: the stage of a quotation, None where the deal is left out.
Stage(q) ==
    LET s == db[q].status
        shipped == /\ db[q].order # None /\ Present(db[q].order)
                   /\ db[db[q].order].status \in {"shipped", "invoiced"}
    IN  IF s \in {"draft", "sent"} THEN "qualifying"
        ELSE IF s = "revised" THEN "negotiation"
        ELSE IF s = "accepted" THEN "won"
        ELSE IF s = "converted" THEN IF shipped THEN "delivered" ELSE "won"
        ELSE IF db[q].updatedAt < now - 1 THEN None
        ELSE "lost"

\* getPipeline, without filters: the deal of each customer, by its stages.
Stages(c) ==
    IF Latest(c) # {} THEN {Stage(q) : q \in Latest(c)} \ {None}
    ELSE IF \E a \in Rows("activity") : db[a].customer = c /\ db[a].occurredAt >= now - 1
    THEN {"lead"} ELSE {}

\* getCustomerTimeline: the kinds of event told of a quotation or a document.
Told(d) ==
    IF db[d].table = "quotation"
    THEN {"created"}
         \cup {k \in {"revised", "expired"} : db[d].status = k}
         \cup {k \in {"sent"} : db[d].sentAt # None}
         \cup {k \in {"accepted"} : db[d].acceptedAt # None}
         \cup {k \in {"rejected"} : db[d].rejectedAt # None}
         \cup {k \in {"converted"} : db[d].order # None}
    ELSE {k \in {"issued"} : db[d].status # "draft"}
         \cup {k \in {"in_transit"} : db[d].shippedAt # None}
         \cup {k \in {"delivered"} : db[d].deliveredAt # None}
         \cup {k \in {"invoiced"} : db[d].invoice # None}

-----------------------------------------------------------------------------
(* What should hold of it.                                                 *)

\* A quotation and a transport document with dates that fit their status.
QuotationRight(row) ==
    /\ row.status \in {"sent", "revised", "accepted", "rejected", "converted"} => row.sentAt # None
    /\ row.status \in {"accepted", "converted"} => row.acceptedAt # None
    /\ row.acceptedAt # None =>
           row.status \in {"accepted", "converted", "expired"} /\ row.sentAt # None
    /\ row.rejectedAt # None => row.status = "rejected"
    /\ row.status = "converted" <=> row.order # None

DdtRight(row) ==
    /\ row.status = "draft" => row.shippedAt = None /\ row.deliveredAt = None
    /\ row.status = "delivered" \/ row.invoice # None => row.deliveredAt # None

\* A quotation is converted exactly when it names an order and that order, and
\* no other, came from it: convertQuotationToSalesOrder never leaves an order
\* behind that its quotation does not know ("pins the SalesOrder id back").
\* Overlapping requests for the quotation can break it.
ConvertedOnce ==
    \A q \in Rows("quotation") \ contended :
        LET orders == {o \in Rows("sales_order") : db[o].quotation = q}
        IN  /\ db[q].status = "converted" <=> db[q].order # None
            /\ orders = {db[q].order} \ {None}

\* The timeline of a customer tells a story that can have happened: a quotation
\* was sent before it was revised, accepted or rejected, never both of these,
\* and accepted before it was converted; goods were issued before they moved
\* and delivered before they were invoiced.
TimelineTells ==
    /\ \A q \in Rows("quotation") \ contended :
        /\ Told(q) \cap {"revised", "accepted", "rejected"} # {} => "sent" \in Told(q)
        /\ ~({"accepted", "rejected"} \subseteq Told(q))
        /\ "converted" \in Told(q) => "accepted" \in Told(q)
    /\ \A d \in Rows("ddt") \ contended :
        /\ "invoiced" \in Told(d) => "delivered" \in Told(d)
        /\ Told(d) \cap {"in_transit", "delivered"} # {} => "issued" \in Told(d)

\* A deal that became an order stays won until the goods are shipped and
\* delivered from then on, whatever is asked of its quotation or of its order:
\* the stage of getPipeline looks at both.
DealsGoForward ==
    [][\A q \in Rows("quotation") :
          LET documents == {q, db[q].order}
              before    == IF db[q].status = "converted" THEN Stage(q) ELSE None
          IN  documents \cap contended' = {} =>
                /\ before = "won" => Stage(q)' \in {"won", "delivered"}
                /\ before = "delivered" => Stage(q)' = "delivered"]_vars
=============================================================================
