------------------------------ MODULE Sourcing ------------------------------
(***************************************************************************)
(* ProcurementService, up to the purchase order: purchase requisitions     *)
(* with their chain of approvals, requests for quotes with the quotes of   *)
(* the suppliers, and the conversion of either into a purchase order.      *)
(*                                                                         *)
(* A handler loads a document, checks its status, changes the object in    *)
(* memory and saves it. Between the load and the save any other request    *)
(* may run. `save` reads the row again and writes every field in which the *)
(* object, stale or not, differs from it. getRfq also loads the quotes and *)
(* RequestForQuote cascades a save to them, so the quotes an object holds  *)
(* are fields of the document like the others.                             *)
(***************************************************************************)
EXTENDS Integers, Sequences, FiniteSets

CONSTANTS
    Requisitions,   \* ids of purchase requisitions
    Rfqs,           \* ids of requests for quotes
    Suppliers,      \* suppliers an RFQ may be sent to
    Estimate,       \* requisition -> totalEstimateCents
    None,           \* null
    Workers,        \* requests in flight together
    MaxCalls,       \* bound: requests received in a behaviour
    Faults          \* whether a request may lose its connection

Docs == Requisitions \cup Rfqs

ASSUME SourcingAssumption ==
    /\ Requisitions \cap Rfqs = {}
    /\ None \notin Docs \cup Suppliers \cup {"received"}
    /\ Suppliers \cap {"status", "chain", "award", "po"} = {}
    /\ Estimate \in [Requisitions -> Nat]
    /\ MaxCalls \in Nat
    /\ Faults \in BOOLEAN

VARIABLES
    row,        \* the committed fields of each document
    orders,     \* the committed purchase orders: number, source and supplier
    req,        \* what each worker is doing
    signed,     \* requisition -> the levels whose approval was ever committed
    answered,   \* RFQ -> the suppliers whose quote was ever committed
    contended,  \* documents that ever had two requests in flight
    calls       \* requests received so far

vars == <<row, orders, req, signed, answered, contended, calls>>

-----------------------------------------------------------------------------
(* Documents.                                                              *)

RequisitionStatus == {"draft", "submitted", "approved", "rejected", "converted", "cancelled"}
RfqStatus == {"draft", "sent", "quotes_received", "awarded", "expired", "converted", "cancelled"}

CanRequisition(from, to) ==
    <<from, to>> \in {<<"draft", "submitted">>, <<"draft", "cancelled">>,
                      <<"submitted", "approved">>, <<"submitted", "rejected">>,
                      <<"submitted", "cancelled">>, <<"approved", "converted">>,
                      <<"approved", "cancelled">>, <<"rejected", "cancelled">>}

CanRfq(from, to) ==
    <<from, to>> \in {<<"draft", "sent">>, <<"draft", "cancelled">>,
                      <<"sent", "quotes_received">>, <<"sent", "expired">>, <<"sent", "cancelled">>,
                      <<"quotes_received", "awarded">>, <<"quotes_received", "expired">>,
                      <<"quotes_received", "cancelled">>, <<"awarded", "converted">>,
                      <<"awarded", "cancelled">>, <<"expired", "cancelled">>}

\* buildApprovalChain, in cents.
Chain(total) ==
    IF total < 50000 THEN <<>>
    ELSE IF total <= 500000 THEN <<"manager">>
    ELSE IF total <= 2500000 THEN <<"admin">>
    ELSE <<"admin", "founder">>

Levels(d) == DOMAIN Chain(Estimate[d])

\* A step of the chain; `at` stands for approver and time, so that two
\* approvals of one step never look the same to save().
Pending == [status |-> "pending", at |-> 0]
Step(s) == [status |-> s, at |-> calls + 1]

Complete(chain) == chain # <<>> /\ \A n \in DOMAIN chain : chain[n].status = "approved"

\* nextPendingApprovalRole: the first pending step, or 0.
NextPending(chain) ==
    LET pending == {n \in DOMAIN chain : chain[n].status = "pending"}
    IN  IF pending = {} THEN 0 ELSE CHOOSE n \in pending : \A m \in pending : n <= m

\* A quote is None until the RFQ is sent to the supplier.
NewRow(d) ==
    IF d \in Requisitions
    THEN [status |-> "draft", chain |-> [n \in Levels(d) |-> Pending], po |-> 0]
    ELSE [f \in {"status", "award", "po"} \cup Suppliers |->
             IF f = "status" THEN "draft" ELSE IF f = "po" THEN 0 ELSE None]

-----------------------------------------------------------------------------
(* A worker. `pc` is the database call it makes next:                      *)
(*   quote    the save of the supplier's quote (recordSupplierQuote)       *)
(*   check    the read of the quote to award (awardRfq)                    *)
(*   number   the count of nextPoNumber                                    *)
(*   insert   the INSERT of the purchase order                             *)
(*   reload   the SELECT of the document's save()                          *)
(*   write    its UPDATE, the inserts after it, and COMMIT                 *)
(* `doc` is None while a purchase order is created directly.               *)

Idle == [pc |-> "idle", doc |-> None, entity |-> <<>>, dirty |-> {},
         level |-> 0, supplier |-> None, ask |-> {}, num |-> 0]

Busy(p) == req[p].pc # "idle"

\* A request arrives: the object it loads, already changed as far as the
\* handler changes it before its next database call.
Take(p, d, r) ==
    /\ ~Busy(p) /\ calls < MaxCalls
    /\ req' = [req EXCEPT ![p] = r]
    /\ calls' = calls + 1
    /\ contended' = IF d \in Docs /\ (\E q \in Workers : Busy(q) /\ req[q].doc = d)
                    THEN contended \cup {d} ELSE contended
    /\ UNCHANGED <<row, orders, signed, answered>>

Save(d, entity) == [Idle EXCEPT !.pc = "reload", !.doc = d, !.entity = entity]
SaveFor(s, pc, d, entity) == [Save(d, entity) EXCEPT !.pc = pc, !.supplier = s]

Init ==
    /\ row = [d \in Docs |-> NewRow(d)]
    /\ orders = <<>>
    /\ req = [p \in Workers |-> Idle]
    /\ signed = [d \in Requisitions |-> {}]
    /\ answered = [d \in Rfqs |-> {}]
    /\ contended = {}
    /\ calls = 0

-----------------------------------------------------------------------------
(* Requisitions.                                                           *)

\* submitRequisition; a chain without steps is approved at once.
Submit(p, d) ==
    /\ CanRequisition(row[d].status, "submitted")
    /\ Take(p, d, Save(d, [row[d] EXCEPT !.status =
                              IF row[d].chain = <<>> THEN "approved" ELSE "submitted"]))

\* Mutant of Approve: the last signature is not awaited.
ApproveFirstSuffices(p, d) ==
    LET n     == NextPending(row[d].chain)
        chain == [row[d].chain EXCEPT ![n] = Step("approved")]
    IN  /\ row[d].status \in {"submitted", "approved"}
        /\ n # 0
        /\ CanRequisition(row[d].status, "approved")
        /\ Take(p, d, [Save(d, [row[d] EXCEPT !.chain = chain, !.status = "approved"])
                          EXCEPT !.level = n])

\* approveRequisition: the first pending step, whoever signs it.
Approve(p, d) ==
    LET n     == NextPending(row[d].chain)
        chain == [row[d].chain EXCEPT ![n] = Step("approved")]
    IN  /\ row[d].status \in {"submitted", "approved"}
        /\ n # 0
        /\ Complete(chain) => CanRequisition(row[d].status, "approved")
        /\ Take(p, d, [Save(d, [row[d] EXCEPT !.chain = chain,
                                   !.status = IF Complete(chain) THEN "approved" ELSE @])
                          EXCEPT !.level = n])

RejectRequisition(p, d) ==
    LET n     == NextPending(row[d].chain)
        chain == IF n = 0 THEN row[d].chain ELSE [row[d].chain EXCEPT ![n] = Step("rejected")]
    IN  /\ CanRequisition(row[d].status, "rejected")
        /\ Take(p, d, Save(d, [row[d] EXCEPT !.chain = chain, !.status = "rejected"]))

CancelRequisition(p, d) ==
    /\ CanRequisition(row[d].status, "cancelled")
    /\ Take(p, d, Save(d, [row[d] EXCEPT !.status = "cancelled"]))

\* Mutant: a converted requisition may be converted again.
ConvertTwice(p, d) ==
    /\ row[d].status \in {"approved", "converted"}
    /\ Take(p, d, [Save(d, row[d]) EXCEPT !.pc = "number"])

\* convertRequisitionToPo, and convertRfqToPo below: the document is read
\* before the transaction begins and changed after the order is inserted.
ConvertRequisition(p, d) ==
    /\ row[d].status = "approved" /\ row[d].po = 0
    /\ Take(p, d, [Save(d, row[d]) EXCEPT !.pc = "number"])

-----------------------------------------------------------------------------
(* Requests for quotes.                                                    *)

\* Mutant: the status of a requisition's graph.
SendRfqSubmitted(p, d, ask) ==
    /\ CanRfq(row[d].status, "sent")
    /\ Take(p, d, [Save(d, [row[d] EXCEPT !.status = "submitted"]) EXCEPT !.ask = ask])

SendRfq(p, d, ask) ==
    /\ CanRfq(row[d].status, "sent")
    /\ Take(p, d, [Save(d, [row[d] EXCEPT !.status = "sent"]) EXCEPT !.ask = ask])

RecordQuote(p, d, s) ==
    /\ row[d].status \in {"sent", "quotes_received"}
    /\ Take(p, d, SaveFor(s, "quote", d, row[d]))

\* awardRfq reads the quote after the RFQ; it may have changed since.
Award(p, d, s) ==
    /\ CanRfq(row[d].status, "awarded")
    /\ Take(p, d, SaveFor(s, "check", d, [row[d] EXCEPT !.status = "awarded", !.award = s]))

CancelRfq(p, d) ==
    /\ CanRfq(row[d].status, "cancelled")
    /\ Take(p, d, Save(d, [row[d] EXCEPT !.status = "cancelled"]))

ConvertRfq(p, d) ==
    /\ row[d].status = "awarded" /\ row[d].award # None /\ row[d].po = 0
    /\ Take(p, d, SaveFor(row[d].award, "number", d, row[d]))

\* createPurchaseOrder: nothing is converted, whatever requisition it names.
CreateOrder(p) == Take(p, None, [Idle EXCEPT !.pc = "number"])

\* The quote is saved on its own; only the first one moves the RFQ on.
SaveQuote(p) ==
    LET d == req[p].doc
        s == req[p].supplier
    IN  /\ req[p].pc = "quote"
        /\ row[d][s] # None
        /\ row' = [row EXCEPT ![d][s] = "received"]
        /\ answered' = [answered EXCEPT ![d] = @ \cup {s}]
        /\ req' = [req EXCEPT ![p] =
                      IF @.entity.status = "sent"
                      THEN [@ EXCEPT !.pc = "reload", !.entity.status = "quotes_received"]
                      ELSE Idle]
        /\ UNCHANGED <<orders, signed, contended, calls>>

\* Mutant: any solicited supplier may be awarded.
CheckQuoteAsked(p) ==
    /\ req[p].pc = "check"
    /\ row[req[p].doc][req[p].supplier] # None
    /\ req' = [req EXCEPT ![p].pc = "reload"]
    /\ UNCHANGED <<row, orders, signed, answered, contended, calls>>

CheckQuote(p) ==
    /\ req[p].pc = "check"
    /\ row[req[p].doc][req[p].supplier] = "received"
    /\ req' = [req EXCEPT ![p].pc = "reload"]
    /\ UNCHANGED <<row, orders, signed, answered, contended, calls>>

-----------------------------------------------------------------------------
(* Purchase orders and the save of the document.                           *)

\* nextPoNumber counts what is committed.
Number(p) ==
    /\ req[p].pc = "number"
    /\ req' = [req EXCEPT ![p].pc = "insert", ![p].num = Len(orders) + 1]
    /\ UNCHANGED <<row, orders, signed, answered, contended, calls>>

\* Another transaction has inserted the same number and not ended.
NumberHeld(p) == \E q \in Workers \ {p} : req[q].pc \in {"reload", "write"} /\ req[q].num = req[p].num
NumberTaken(p) == \E n \in DOMAIN orders : orders[n].num = req[p].num

Order(p) == [num |-> req[p].num, from |-> req[p].doc, supplier |-> req[p].supplier]

\* Mutant: the number is not unique.
InsertAnyNumber(p) ==
    /\ req[p].pc = "insert"
    /\ IF req[p].doc = None
       THEN orders' = Append(orders, Order(p)) /\ req' = [req EXCEPT ![p] = Idle]
       ELSE /\ req' = [req EXCEPT ![p].pc = "reload",
                                  ![p].entity = [@ EXCEPT !.status = "converted",
                                                          !.po = req[p].num]]
            /\ UNCHANGED orders
    /\ UNCHANGED <<row, signed, answered, contended, calls>>

\* The unique index on (tenantId, poNumber) makes the INSERT wait.
Insert(p) ==
    /\ req[p].pc = "insert" /\ ~NumberHeld(p) /\ ~NumberTaken(p)
    /\ IF req[p].doc = None
       THEN orders' = Append(orders, Order(p)) /\ req' = [req EXCEPT ![p] = Idle]
       ELSE /\ req' = [req EXCEPT ![p].pc = "reload",
                                  ![p].entity = [@ EXCEPT !.status = "converted",
                                                          !.po = req[p].num]]
            /\ UNCHANGED orders
    /\ UNCHANGED <<row, signed, answered, contended, calls>>

\* A save with `quotes` loaded as an empty array detaches the quotes it finds
\* (sets their rfqId to null, which the column forbids).
Orphans(p) == {s \in Suppliers \cap DOMAIN req[p].entity :
                  req[p].entity[s] = None /\ row[req[p].doc][s] # None}

Reload(p) ==
    /\ req[p].pc = "reload" /\ Orphans(p) = {}
    /\ req' = [req EXCEPT
           ![p].pc = "write",
           ![p].dirty = {f \in DOMAIN req[p].entity : req[p].entity[f] # row[req[p].doc][f]}]
    /\ UNCHANGED <<row, orders, signed, answered, contended, calls>>

\* A quote of the same supplier was inserted meanwhile: unique violation.
AlreadyAsked(p) == {s \in req[p].ask : row[req[p].doc][s] # None}

Write(p) ==
    LET d == req[p].doc
        r == req[p]
    IN  /\ r.pc = "write" /\ AlreadyAsked(p) = {}
        /\ row' = [row EXCEPT ![d] = [f \in DOMAIN @ |->
                      IF f \in r.ask THEN "pending"
                      ELSE IF f \in r.dirty THEN r.entity[f] ELSE row[d][f]]]
        /\ orders' = IF r.num = 0 THEN orders ELSE Append(orders, Order(p))
        /\ signed' = IF r.level = 0 THEN signed ELSE [signed EXCEPT ![d] = @ \cup {r.level}]
        /\ req' = [req EXCEPT ![p] = Idle]
        /\ UNCHANGED <<answered, contended, calls>>

\* An exception: what the request has not committed is rolled back.
Abort(p) ==
    /\ req' = [req EXCEPT ![p] = Idle]
    /\ UNCHANGED <<row, orders, signed, answered, contended, calls>>

Refused(p) ==
    /\ \/ req[p].pc = "quote"  /\ row[req[p].doc][req[p].supplier] = None
       \/ req[p].pc = "check"  /\ row[req[p].doc][req[p].supplier] # "received"
       \/ req[p].pc = "insert" /\ NumberTaken(p)
       \/ req[p].pc = "reload" /\ Orphans(p) # {}
       \/ req[p].pc = "write"  /\ AlreadyAsked(p) # {}
    /\ Abort(p)

ConnectionLost(p) == Faults /\ Busy(p) /\ Abort(p)

\* The bound on calls is reached and nothing is in flight.
Drained == calls = MaxCalls /\ (\A p \in Workers : ~Busy(p)) /\ UNCHANGED vars

Next ==
    \/ \E p \in Workers :
          \/ \E d \in Requisitions :
                \/ Submit(p, d) \/ Approve(p, d) \/ RejectRequisition(p, d)
                \/ CancelRequisition(p, d) \/ ConvertRequisition(p, d)
          \/ \E d \in Rfqs :
                \/ \E ask \in (SUBSET Suppliers) \ {{}} : SendRfq(p, d, ask)
                \/ \E s \in Suppliers : RecordQuote(p, d, s) \/ Award(p, d, s)
                \/ CancelRfq(p, d) \/ ConvertRfq(p, d)
          \/ CreateOrder(p)
          \/ SaveQuote(p) \/ CheckQuote(p) \/ Number(p) \/ Insert(p)
          \/ Reload(p) \/ Write(p) \/ Refused(p) \/ ConnectionLost(p)
    \/ Drained

Spec == Init /\ [][Next]_vars

-----------------------------------------------------------------------------
Statuses(d) == IF d \in Requisitions THEN RequisitionStatus ELSE RfqStatus

\* The variables hold documents of the right shape, committed and in memory
\* (entities/purchase-requisition.entity.ts, entities/request-for-quote.entity.ts).
TypeOK ==
    /\ DOMAIN row = Docs
    /\ \A d \in Docs : DOMAIN row[d] = DOMAIN NewRow(d) /\ row[d].status \in Statuses(d)
    /\ \A n \in DOMAIN orders : orders[n].from \in Docs \cup {None}
    /\ \A p \in Workers : req[p].entity # <<>> => DOMAIN req[p].entity = DOMAIN NewRow(req[p].doc)
    /\ DOMAIN signed = Requisitions /\ \A d \in Requisitions : signed[d] \subseteq Levels(d)
    /\ answered \in [Rfqs -> SUBSET Suppliers]
    /\ contended \subseteq Docs
    /\ calls \in 0 .. MaxCalls

Approved(d) == row[d].status \in {"approved", "converted"}
OrdersFrom(d) == {n \in DOMAIN orders : orders[n].from = d}

(***************************************************************************)
(* Nobody's approval is skipped: a requisition is approved, and ordered,   *)
(* only after an approval of every level of its chain was committed,       *)
(* whatever stale objects are saved over it in between                     *)
(* (approveRequisition, convertRequisitionToPo).                           *)
(***************************************************************************)
EveryLevelSigned ==
    \A d \in Requisitions : Approved(d) \/ OrdersFrom(d) # {} => signed[d] = Levels(d)

\* An RFQ is awarded to, and ordered from, only a supplier that answered it
\* (awardRfq, convertRfqToPo).
AwardAnswered ==
    \A d \in Rfqs : /\ row[d].award # None => row[d].award \in answered[d]
                    /\ \A n \in OrdersFrom(d) : orders[n].supplier \in answered[d]

\* Orders are numbered 1, 2, 3, ... in the order they are committed, although
\* each number is a count taken earlier on another connection (nextPoNumber).
NumbersConsecutive == \A n \in DOMAIN orders : orders[n].num = n

(***************************************************************************)
(* A document whose requests never overlapped, however the requests on     *)
(* others did and wherever one was lost, has a purchase order exactly when *)
(* it is converted, and then the one it names, no other.                   *)
(***************************************************************************)
OneOrder ==
    \A d \in Docs \ contended :
        /\ Cardinality(OrdersFrom(d)) = IF row[d].status = "converted" THEN 1 ELSE 0
        /\ {orders[n].num : n \in OrdersFrom(d)} = {row[d].po} \ {0}

\* "Promote RFQ to QUOTES_RECEIVED on first received quote"
\* (procurement.service.ts:593): such an RFQ has a received quote. The RFQ was
\* loaded with its quotes, still pending, and its save writes them back.
FirstQuoteKept ==
    \A d \in Rfqs : row[d].status = "quotes_received" => \E s \in Suppliers : row[d][s] = "received"
=============================================================================
