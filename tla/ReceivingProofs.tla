-------------------------- MODULE ReceivingProofs --------------------------
(***************************************************************************)
(* Proofs about Receiving for every set of orders, receipts, invoices,     *)
(* deliveries, bills, tolerances and requests in flight:                   *)
(*                                                                         *)
(*   PapersTyped     documents keep the statuses of their kind, receipts   *)
(*                   their lines and invoices their bills                  *)
(*   NothingUnseen   no invoice is approved that was never matched nor     *)
(*                   disputed                                              *)
(*   NothingUndelivered  a matched invoice agreed with what the receipts   *)
(*                   accepted and with the order's prices                  *)
(*   SettledWhenInspected, VerdictsStay  the lines of an inspected receipt *)
(*                   add up, and quantities change only in an inspection   *)
(***************************************************************************)
EXTENDS Receiving, TLAPS

Judged == {"matched", "disputed", "approved"}

Backed(d) == d \in DOMAIN bill /\ Delivered(d)

\* A committed document, and an object that save() will merge into it. Only an
\* object that is about to be judged is ahead of `judged`.
RowOK(d) ==
    /\ "status" \in DOMAIN row[d]
    /\ row[d]["status"] \in Statuses(d)
    /\ row[d]["status"] \in Judged => d \in judged
    /\ row[d]["status"] = "matched" => Backed(d)

EntityOK(d, e) ==
    /\ "status" \in DOMAIN e
    /\ e["status"] \in Statuses(d)
    /\ e["status"] = "approved" => d \in judged
    /\ e["status"] = "matched" => Backed(d)

\* What a request holds, and at which database call.
JobOK(r) ==
    /\ DOMAIN r = DOMAIN Idle
    /\ r.pc \in {"idle", "number", "insert", "goods", "lines", "reload", "write"}
    /\ r.pc = "number" => r.doc = None
    /\ r.pc = "insert" => r.doc \in Invoices \cup {None}
    /\ r.pc = "goods" => r.doc \in Invoices /\ r.paper \in Tolerances
    /\ r.pc \in {"goods", "lines", "reload", "write"} =>
          r.doc \in DOMAIN row /\ EntityOK(r.doc, r.entity)

PaperInv ==
    /\ TypeOK
    /\ \A d \in DOMAIN row : RowOK(d)
    /\ DOMAIN req = Workers /\ \A p \in Workers : JobOK(req[p])
    /\ Accepted(lines) \in seen
-----------------------------------------------------------------------------
LEMMA JobFields ==
    /\ DOMAIN Idle = {"pc", "doc", "entity", "goods", "named", "paper", "held", "dirty", "stale", "num"}
    /\ \A pc, doc, entity, goods, named, paper :
          LET r == Job(pc, doc, entity, goods, named, paper)
          IN  DOMAIN r = DOMAIN Idle /\ r.pc = pc /\ r.doc = doc /\ r.entity = entity
             /\ r.paper = paper /\ r.goods = goods
  BY DEF Idle, Job

\* "approved" is a status of invoices alone.
LEMMA JudgedInvoice == ASSUME NEW d \in Docs, NEW s \in Statuses(d), s \in Judged
                       PROVE  d \in Invoices
  BY ReceivingAssumption DEF Statuses, OrderStatus, ReceiptStatus, Judged, Docs

LEMMA StatusMoves ==
    ASSUME NEW d \in Docs, NEW from, NEW to, Can(d, from, to)
    PROVE  to \in Statuses(d)
  BY ReceivingAssumption DEF Can, CanOrder, CanReceipt, CanInvoice, Statuses,
     OrderStatus, ReceiptStatus, InvoiceStatus

\* A bill is not changed, nor what was once accepted forgotten.
Kept ==
    /\ \A d \in DOMAIN bill : d \in DOMAIN bill' /\ bill'[d] = bill[d]
    /\ seen \subseteq seen'

LEMMA BackedStays == ASSUME Kept, NEW d, Backed(d) PROVE Backed(d)'
  <1>1. bill'[d] = bill[d] /\ d \in DOMAIN bill' BY DEF Kept, Backed
  <1>2. PICK tol \in Tolerances, accepted \in seen : DeliveredWith(d, accepted, tol)
    BY DEF Backed, Delivered
  <1>3. DeliveredWith(d, accepted, tol)' BY <1>1, <1>2 DEF DeliveredWith
  <1>4. accepted \in seen' BY DEF Kept
  <1>5. Delivered(d)' BY <1>3, <1>4 DEF Delivered
  <1> QED BY <1>1, <1>5 DEF Backed

\* A step that changes one worker's request only.
LEMMA OneJob ==
    ASSUME PaperInv, NEW p \in Workers, NEW r, req' = [req EXCEPT ![p] = r], JobOK(r),
           UNCHANGED <<row, lines, bill, seen, judged>>,
           contended' \subseteq Docs, calls' \in 0 .. MaxCalls
    PROVE  PaperInv'
  <1>1. \A q \in Workers : req'[q] = IF q = p THEN r ELSE req[q] BY DEF PaperInv
  <1>2. TypeOK' BY DEF PaperInv, TypeOK
  <1>0. \A d : Backed(d)' = Backed(d) BY DEF Backed, Delivered, DeliveredWith
  <1>3. \A d \in DOMAIN row' : RowOK(d)' BY <1>0 DEF PaperInv, RowOK
  <1>4. \A q \in Workers : JobOK(req[q])' BY <1>0, <1>1 DEF PaperInv, JobOK, EntityOK
  <1>5. DOMAIN req' = Workers /\ Accepted(lines') \in seen' BY DEF PaperInv
  <1> QED BY <1>2, <1>3, <1>4, <1>5 DEF PaperInv

LEMMA Arrives ==
    ASSUME PaperInv, NEW p \in Workers, NEW d \in Docs \cup {None}, NEW r, Take(p, d, r), JobOK(r)
    PROVE  PaperInv'
  <1>1. calls' \in 0 .. MaxCalls BY ReceivingAssumption DEF Take, PaperInv, TypeOK
  <1>2. contended' \subseteq Docs BY DEF Take, PaperInv, TypeOK
  <1> QED BY <1>1, <1>2, OneJob DEF Take

\* The status of a loaded document is changed along the graph, and it is saved.
LEMMA StatusSaved ==
    ASSUME PaperInv, NEW p \in Workers, NEW d \in DOMAIN row, NEW to, NEW pc, NEW goods,
           NEW named, NEW paper, to \in Statuses(d) \ {"matched"}, to = "approved" => d \in judged,
           pc \in {"lines", "reload"},
           Take(p, d, Job(pc, d, [row[d] EXCEPT !.status = to], goods, named, paper))
    PROVE  PaperInv'
  <1> DEFINE e == [row[d] EXCEPT !.status = to]
             r == Job(pc, d, e, goods, named, paper)
  <1>1. "status" \in DOMAIN e /\ e["status"] = to BY DEF PaperInv, RowOK
  <1>2. EntityOK(d, e) BY <1>1 DEF EntityOK
  <1>3. DOMAIN r = DOMAIN Idle /\ r.pc = pc /\ r.doc = d /\ r.entity = e BY JobFields
  <1> HIDE DEF e, r
  <1>4. JobOK(r) BY <1>2, <1>3 DEF JobOK
  <1>5. d \in Docs BY DEF PaperInv, TypeOK
  <1> QED BY <1>4, <1>5, Arrives DEF e, r

LEMMA RequestArrives == ASSUME PaperInv, NEW p \in Workers, Request(p) PROVE PaperInv'
  <1>0. Orders \subseteq DOMAIN row /\ DOMAIN row \subseteq Docs BY DEF PaperInv, TypeOK
  <1>1. ASSUME NEW d \in Orders, NEW to \in {"sent", "acknowledged", "cancelled"}, MoveOrder(p, d, to)
        PROVE  PaperInv'
    <2>1. to \in Statuses(d) BY DEF Statuses, OrderStatus
    <2> QED BY <1>0, <1>1, <2>1, StatusSaved DEF MoveOrder, Save
  <1>2. ASSUME NEW d \in Orders, NEW goods \in Deliveries, CreateReceipt(p, d, goods)
        PROVE  PaperInv'
    <2> DEFINE r == Job("number", None, <<>>, goods, {}, None)
    <2>1. DOMAIN r = DOMAIN Idle /\ r.pc = "number" /\ r.doc = None BY JobFields
    <2> HIDE DEF r
    <2>2. JobOK(r) BY <2>1 DEF JobOK
    <2> QED BY <1>2, <2>2, Arrives DEF CreateReceipt, r
  <1>3. ASSUME NEW d \in Receipts \cap DOMAIN row, NEW to \in {"confirmed", "rejected"},
               MoveReceipt(p, d, to)
        PROVE  PaperInv'
    <2>1. to \in Statuses(d) BY ReceivingAssumption DEF Statuses, ReceiptStatus
    <2> QED BY <1>0, <1>3, <2>1, StatusSaved DEF MoveReceipt, Save
  <1>4. ASSUME NEW d \in Receipts \cap DOMAIN row, NEW v \in Verdicts, Inspect(p, d, v)
        PROVE  PaperInv'
    <2> DEFINE goods == Judge(lines[d], v)
    <2>1. PICK next \in {"inspected", "partially_inspected"} :
              Take(p, d, Job("lines", d, [row[d] EXCEPT !.status = next], goods, DOMAIN v, None))
      BY <1>4 DEF Inspect
    <2> HIDE DEF goods
    <2>2. next \in Statuses(d) BY ReceivingAssumption DEF Statuses, ReceiptStatus
    <2> QED BY <1>0, <2>1, <2>2, StatusSaved
  <1>5. ASSUME NEW d \in Invoices, NEW b \in Bills, CreateInvoice(p, d, b)
        PROVE  PaperInv'
    <2> DEFINE r == Job("insert", d, <<>>, <<>>, {}, b)
    <2>1. DOMAIN r = DOMAIN Idle /\ r.pc = "insert" /\ r.doc = d BY JobFields
    <2> HIDE DEF r
    <2>2. JobOK(r) BY <2>1 DEF JobOK
    <2>3. d \in Docs BY DEF Docs
    <2> QED BY <1>5, <2>2, <2>3, Arrives DEF CreateInvoice, r
  <1>6. ASSUME NEW d \in Invoices \cap DOMAIN row, NEW tol \in Tolerances, Match(p, d, tol)
        PROVE  PaperInv'
    <2> DEFINE r == Job("goods", d, row[d], <<>>, {}, tol)
    <2>1. DOMAIN r = DOMAIN Idle /\ r.pc = "goods" /\ r.doc = d /\ r.entity = row[d] BY JobFields
    <2>2. EntityOK(d, row[d]) BY DEF PaperInv, RowOK, EntityOK, Judged
    <2>4. r.paper = tol BY JobFields
    <2> HIDE DEF r
    <2>3. JobOK(r) BY <2>1, <2>2, <2>4 DEF JobOK
    <2> QED BY <1>0, <1>6, <2>3, Arrives DEF Match, r
  <1>7. ASSUME NEW d \in Invoices \cap DOMAIN row,
               NEW to \in {"approved", "disputed", "rejected", "cancelled"}, MoveInvoice(p, d, to)
        PROVE  PaperInv'
    <2>1. to \in Statuses(d) BY ReceivingAssumption DEF Statuses, InvoiceStatus
    <2>2. to = "approved" => d \in judged
      BY <1>7 DEF MoveInvoice, CanInvoice, PaperInv, RowOK, Judged
    <2> QED BY <1>0, <1>7, <2>1, <2>2, StatusSaved DEF MoveInvoice, Save
  <1> QED BY <1>1, <1>2, <1>3, <1>4, <1>5, <1>6, <1>7 DEF Request

-----------------------------------------------------------------------------
(* The database calls.                                                     *)

LEMMA IdleJob == PaperInv => JobOK(Idle)
  BY JobFields DEF JobOK, Idle

\* A step of a request towards its next call, its object possibly changed.
LEMMA NextCall ==
    ASSUME PaperInv, NEW p \in Workers, NEW r, req' = [req EXCEPT ![p] = r], JobOK(r),
           UNCHANGED <<row, lines, bill, seen, judged, contended, calls>>
    PROVE  PaperInv'
  <1>1. contended' \subseteq Docs /\ calls' \in 0 .. MaxCalls BY DEF PaperInv, TypeOK
  <1> QED BY <1>1, OneJob

\* runThreeWayMatch finds nothing: every line agrees.
LEMMA CleanDelivers ==
    ASSUME NEW b, NEW accepted, NEW tol, Discrepancies(b, accepted, tol) = {}
    PROVE  \A l \in Range(b.lines) :
              l.line \in OrderLines /\ QuantityMatches(l, accepted, tol) /\ PriceMatches(l, tol)
  <1> DEFINE ordered == {l \in Range(b.lines) : l.line \in OrderLines}
  <1>1. \A k \in {"unmatched_line", "quantity", "price", "total"} :
            ~ (\/ k = "unmatched_line" /\ ordered # Range(b.lines)
               \/ k = "quantity" /\ \E l \in ordered : ~QuantityMatches(l, accepted, tol)
               \/ k = "price" /\ \E l \in ordered : ~PriceMatches(l, tol)
               \/ k = "total" /\ ~WithinCents(Total(b), b.total, tol.total))
    BY DEF Discrepancies
  <1>2. ordered = Range(b.lines) BY <1>1
  <1>3. \A l \in ordered : QuantityMatches(l, accepted, tol) BY <1>1
  <1>4. \A l \in ordered : PriceMatches(l, tol) BY <1>1
  <1> QED BY <1>2, <1>3, <1>4

LEMMA Progresses ==
    ASSUME PaperInv, NEW p \in Workers,
           Number(p) \/ ReadGoods(p) \/ SaveLines(p) \/ Reload(p) \/ Refused(p) \/ ConnectionLost(p)
    PROVE  PaperInv'
  <1> DEFINE r == req[p]
  <1>0. JobOK(r) BY DEF PaperInv
  <1>1. CASE Number(p)
    <2> DEFINE n == Cardinality(DOMAIN lines) + 1
               s == [r EXCEPT !.pc = "insert", !.num = n]
    <2>1. r.pc = "number" BY <1>1 DEF Number
    <2> HIDE DEF n, r
    <2>2. DOMAIN s = DOMAIN r /\ s.pc = "insert" /\ s.doc = r.doc
      BY <1>0, JobFields DEF JobOK
    <2> HIDE DEF s
    <2>3. JobOK(s) BY <1>0, <2>1, <2>2 DEF JobOK
    <2> QED BY <1>1, <2>3, NextCall DEF Number, s, n, r
  <1>2. CASE ReadGoods(p)
    <2> DEFINE found == Discrepancies(bill[req[p].doc], Accepted(lines), req[p].paper)
               to    == IF found = {} THEN "matched" ELSE "disputed"
               e     == [status |-> to, discrepancies |-> found]
               s     == [r EXCEPT !.pc = "reload", !.entity = e]
    <2>1. r.pc = "goods" /\ req' = [req EXCEPT ![p] = s] BY <1>2 DEF ReadGoods
    <2>8. to = "matched" => Backed(r.doc)
      <3> SUFFICES ASSUME found = {} PROVE Backed(r.doc) OBVIOUS
      <3>1. r.doc \in DOMAIN bill /\ r.paper \in Tolerances
        BY <1>0, <2>1 DEF JobOK, PaperInv, TypeOK
      <3>2. DeliveredWith(r.doc, Accepted(lines), r.paper)
        BY CleanDelivers DEF DeliveredWith
      <3> QED BY <3>1, <3>2 DEF Backed, Delivered, PaperInv
    <2> HIDE DEF found
    <2>2. to \in {"matched", "disputed"} OBVIOUS
    <2> HIDE DEF to
    <2>3. "status" \in DOMAIN e /\ e["status"] = to OBVIOUS
    <2> HIDE DEF e, r
    <2>4. DOMAIN s = DOMAIN r /\ s.pc = "reload" /\ s.doc = r.doc /\ s.entity = e
      BY <1>0, JobFields DEF JobOK
    <2> HIDE DEF s
    <2>5. to \in Statuses(r.doc)
      BY <1>0, <2>1, <2>2, ReceivingAssumption DEF JobOK, Statuses, InvoiceStatus
    <2>6. EntityOK(r.doc, e) BY <2>2, <2>3, <2>5, <2>8 DEF EntityOK
    <2>7. JobOK(s) BY <1>0, <2>1, <2>4, <2>6 DEF JobOK
    <2> QED BY <1>2, <2>1, <2>7, NextCall DEF ReadGoods
  <1>3. CASE SaveLines(p)
    <2> DEFINE changed == {l \in r.named : r.goods[l] # lines[r.doc][l]}
               s       == [r EXCEPT !.pc = "reload", !.held = changed]
    <2>1. r.pc = "lines" /\ req' = [req EXCEPT ![p] = s] BY <1>3 DEF SaveLines
    <2> HIDE DEF changed, r
    <2>2. DOMAIN s = DOMAIN r /\ s.pc = "reload" /\ s.doc = r.doc /\ s.entity = r.entity
      BY <1>0, JobFields DEF JobOK
    <2> HIDE DEF s
    <2>3. JobOK(s) BY <1>0, <2>1, <2>2 DEF JobOK
    <2> QED BY <1>3, <2>1, <2>3, NextCall DEF SaveLines
  <1>4. CASE Reload(p)
    <2> DEFINE ds == Dirty(r.entity, row[r.doc])
               ls == [l \in DOMAIN r.goods |->
                         IF l \in r.held THEN DOMAIN r.goods[l]
                         ELSE Dirty(r.goods[l], lines[r.doc][l])]
               s  == [r EXCEPT !.pc = "write", !.dirty = ds, !.stale = ls]
    <2>1. r.pc = "reload" /\ req' = [req EXCEPT ![p] = s] BY <1>4 DEF Reload
    <2> HIDE DEF ds, ls, r
    <2>2. DOMAIN s = DOMAIN r /\ s.pc = "write" /\ s.doc = r.doc /\ s.entity = r.entity
      BY <1>0, JobFields DEF JobOK
    <2> HIDE DEF s
    <2>3. JobOK(s) BY <1>0, <2>1, <2>2 DEF JobOK
    <2> QED BY <1>4, <2>1, <2>3, NextCall DEF Reload
  <1>5. CASE Refused(p) \/ ConnectionLost(p)
    BY <1>5, IdleJob, NextCall DEF Refused, ConnectionLost, Abort
  <1> QED BY <1>1, <1>2, <1>3, <1>4, <1>5

\* What a request holds stays in order while documents are added and judged.
LEMMA JobsStay ==
    ASSUME PaperInv, NEW p \in Workers, req' = [req EXCEPT ![p] = Idle],
           DOMAIN row \subseteq DOMAIN row', judged \subseteq judged', Kept
    PROVE  DOMAIN req' = Workers /\ \A q \in Workers : JobOK(req[q])'
  <1>1. JobOK(Idle)' BY JobFields DEF JobOK, Idle
  <1>2. ASSUME NEW q \in Workers, q # p PROVE JobOK(req[q])'
    <2>1. req'[q] = req[q] /\ JobOK(req[q]) BY <1>2 DEF PaperInv
    <2> QED BY <2>1, BackedStays DEF JobOK, EntityOK
  <1>3. req'[p] = Idle BY DEF PaperInv
  <1>4. JobOK(req[p])' BY <1>1, <1>3 DEF JobOK, EntityOK, Idle
  <1> QED BY <1>2, <1>4 DEF PaperInv

\* A document with a fresh status is inserted.
LEMMA Inserted ==
    ASSUME PaperInv, NEW p \in Workers, NEW g \in Receipts \cup Invoices, g \notin DOMAIN row,
           NEW e, "status" \in DOMAIN e, e["status"] \in Statuses(g), e["status"] \notin Judged,
           Kept, Accepted(lines') \in seen', row' = With(row, g, e), req' = [req EXCEPT ![p] = Idle],
           DOMAIN lines' = DOMAIN lines \cup (Receipts \cap {g}),
           DOMAIN bill' = DOMAIN bill \cup (Invoices \cap {g}),
           UNCHANGED <<judged, contended, calls>>
    PROVE  PaperInv'
  <1>1. DOMAIN row' = DOMAIN row \cup {g} BY DEF With
  <1>2. \A d \in DOMAIN row' : row'[d] = IF d = g THEN e ELSE row[d] BY <1>1 DEF With
  <1>3. \A d \in DOMAIN row' : RowOK(d)'
    BY <1>1, <1>2, BackedStays DEF PaperInv, RowOK, Judged
  <1>4. TypeOK' BY <1>1, <1>3, ReceivingAssumption DEF PaperInv, TypeOK, Docs, RowOK
  <1>5. DOMAIN req' = Workers /\ \A q \in Workers : JobOK(req[q])'
    BY <1>1, JobsStay
  <1> QED BY <1>3, <1>4, <1>5 DEF PaperInv

LEMMA Inserts ==
    ASSUME PaperInv, NEW p \in Workers
    PROVE  /\ (\E g \in Receipts : InsertReceipt(p, g)) => PaperInv'
           /\ InsertInvoice(p) => PaperInv'
  <1>1. ASSUME NEW g \in Receipts, InsertReceipt(p, g) PROVE PaperInv'
    <2> DEFINE n == req[p].num
               e == [status |-> "draft", num |-> n]
    <2> HIDE DEF n
    <2>1. "status" \in DOMAIN e /\ e["status"] = "draft" OBVIOUS
    <2>2. row' = With(row, g, e) BY <1>1 DEF InsertReceipt, n
    <2> HIDE DEF e
    <2>3. "draft" \in Statuses(g) /\ "draft" \notin Judged
      BY ReceivingAssumption DEF Statuses, ReceiptStatus, Judged
    <2>4. DOMAIN lines' = DOMAIN lines \cup (Receipts \cap {g}) BY <1>1 DEF InsertReceipt, With
    <2>5. DOMAIN bill' = DOMAIN bill \cup (Invoices \cap {g})
      BY <1>1, ReceivingAssumption DEF InsertReceipt
    <2>6. Kept /\ Accepted(lines') \in seen' BY <1>1 DEF InsertReceipt, Kept
    <2> QED BY <1>1, <2>1, <2>2, <2>3, <2>4, <2>5, <2>6, Inserted DEF InsertReceipt
  <1>2. ASSUME InsertInvoice(p) PROVE PaperInv'
    <2> DEFINE g == req[p].doc
               e == [status |-> "received", discrepancies |-> {}]
    <2>1. "status" \in DOMAIN e /\ e["status"] = "received" OBVIOUS
    <2>2. row' = With(row, g, e) BY <1>2 DEF InsertInvoice
    <2> HIDE DEF e
    <2>3. g \in Invoices BY <1>2 DEF InsertInvoice, PaperInv, JobOK
    <2>4. "received" \in Statuses(g) /\ "received" \notin Judged
      BY <2>3, ReceivingAssumption DEF Statuses, InvoiceStatus, Judged
    <2>5. DOMAIN bill' = DOMAIN bill \cup (Invoices \cap {g}) BY <1>2, <2>3 DEF InsertInvoice, With
    <2>6. DOMAIN lines' = DOMAIN lines \cup (Receipts \cap {g})
      BY <1>2, <2>3, ReceivingAssumption DEF InsertInvoice
    <2>7. /\ g \notin DOMAIN row /\ req' = [req EXCEPT ![p] = Idle]
          /\ UNCHANGED <<judged, contended, calls>>
      BY <1>2 DEF InsertInvoice
    <2>8. Kept
      <3>1. g \notin DOMAIN bill BY <1>2 DEF InsertInvoice, PaperInv, TypeOK
      <3>2. bill' = With(bill, g, req[p].paper) /\ seen' = seen BY <1>2 DEF InsertInvoice
      <3> HIDE DEF g
      <3> QED BY <3>1, <3>2 DEF Kept, With
    <2>9. Accepted(lines') \in seen' BY <1>2 DEF InsertInvoice, PaperInv
    <2> HIDE DEF g
    <2> QED BY <2>8, <2>9, <2>1, <2>2, <2>3, <2>4, <2>5, <2>6, <2>7, Inserted
  <1> QED BY <1>1, <1>2

LEMMA Writes == ASSUME PaperInv, NEW p \in Workers, Write(p) PROVE PaperInv'
  <1>0. PICK r : r = req[p] OBVIOUS
  <1>1. PICK d, e, x : d = r.doc /\ e = r.entity /\ x = Merge(row[d], e, r.dirty) OBVIOUS
  <1>2. /\ d \in DOMAIN row /\ d \in Docs
        /\ EntityOK(d, e) /\ RowOK(d)
    BY <1>0, <1>1 DEF Write, PaperInv, JobOK, TypeOK
  <1>3. /\ row' = [row EXCEPT ![d] = x]
        /\ judged' = IF Judgement(r) THEN judged \cup {d} ELSE judged
        /\ req' = [req EXCEPT ![p] = Idle]
        /\ UNCHANGED <<bill, contended, calls>>
    BY <1>0, <1>1 DEF Write
  <1>4. DOMAIN lines' = DOMAIN lines /\ Kept /\ Accepted(lines') \in seen' BY DEF Write, Kept
  <1>5. /\ "status" \in DOMAIN x
        /\ x["status"] = IF "status" \in r.dirty THEN e["status"] ELSE row[d]["status"]
    BY <1>1, <1>2 DEF RowOK, Merge
  <1>6. x["status"] \in Statuses(d) BY <1>2, <1>5 DEF RowOK, EntityOK
  <1>7. Judgement(r) => d \in Invoices BY <1>1 DEF Judgement
  <1>8. x["status"] \in Judged => d \in judged'
    <2>1. CASE "status" \notin r.dirty BY <1>2, <1>3, <1>5, <2>1 DEF RowOK
    <2>2. CASE "status" \in r.dirty
      <3>1. x["status"] \in Judged => d \in Invoices BY <1>2, <1>6, JudgedInvoice
      <3>2. x["status"] \in {"matched", "disputed"} => Judgement(r)
        BY <1>1, <1>5, <2>2, <3>1 DEF Judgement, Judged
      <3> QED BY <1>2, <1>3, <1>5, <2>2, <3>2 DEF EntityOK, Judged
    <2> QED BY <2>1, <2>2
  <1>9. x["status"] = "matched" => Backed(d)'
    <2>1. x["status"] = "matched" => Backed(d) BY <1>2, <1>5 DEF RowOK, EntityOK
    <2> QED BY <2>1, <1>4, BackedStays
  <1>10. DOMAIN row' = DOMAIN row /\ \A y \in DOMAIN row : row'[y] = IF y = d THEN x ELSE row[y]
    BY <1>3
  <1>11. judged \subseteq judged' BY <1>3
  <1>12. \A y \in DOMAIN row' : RowOK(y)'
    <2>1. RowOK(d)' BY <1>2, <1>5, <1>6, <1>8, <1>9, <1>10 DEF RowOK
    <2>2. ASSUME NEW y \in DOMAIN row, y # d PROVE RowOK(y)'
      <3>1. row'[y] = row[y] /\ RowOK(y) BY <1>10, <2>2 DEF PaperInv
      <3> QED BY <3>1, <1>4, <1>11, BackedStays DEF RowOK
    <2> QED BY <1>10, <2>1, <2>2
  <1>13. judged' \subseteq DOMAIN bill'
    BY <1>2, <1>3, <1>7 DEF PaperInv, TypeOK
  <1>14. TypeOK' BY <1>3, <1>4, <1>10, <1>12, <1>13 DEF PaperInv, TypeOK, RowOK
  <1>15. DOMAIN req' = Workers /\ \A q \in Workers : JobOK(req[q])'
    BY <1>3, <1>4, <1>10, <1>11, JobsStay
  <1> QED BY <1>4, <1>12, <1>14, <1>15 DEF PaperInv

-----------------------------------------------------------------------------
LEMMA ReceivingInit == Init => PaperInv
  <1> SUFFICES ASSUME Init PROVE PaperInv OBVIOUS
  <1>1. \A d \in Orders : RowOK(d)
    BY DEF Init, RowOK, Statuses, OrderStatus, Judged
  <1>2. JobOK(Idle) BY JobFields DEF JobOK, Idle
  <1>3. TypeOK BY <1>1, ReceivingAssumption DEF Init, TypeOK, Docs, RowOK
  <1> QED BY <1>1, <1>2, <1>3 DEF Init, PaperInv

LEMMA ReceivingNext == PaperInv /\ [Next]_vars => PaperInv'
  <1> SUFFICES ASSUME PaperInv, [Next]_vars PROVE PaperInv' OBVIOUS
  <1>1. CASE UNCHANGED vars
    BY <1>1 DEF vars, PaperInv, TypeOK, RowOK, JobOK, EntityOK, Backed, Delivered, DeliveredWith
  <1>2. ASSUME NEW p \in Workers, Request(p) PROVE PaperInv' BY <1>2, RequestArrives
  <1>3. ASSUME NEW p \in Workers, (\E g \in Receipts : InsertReceipt(p, g)) \/ InsertInvoice(p)
        PROVE  PaperInv'
    BY <1>3, Inserts
  <1>4. ASSUME NEW p \in Workers, Write(p) PROVE PaperInv' BY <1>4, Writes
  <1>5. CASE Quiet BY <1>1, <1>5 DEF Quiet
  <1> QED BY <1>1, <1>2, <1>3, <1>4, <1>5, Progresses DEF Next

\* Documents keep the statuses of their kind, receipts their lines, invoices
\* their bills (TypeOK), whatever is saved over them.
THEOREM PapersTyped == Spec => []TypeOK
  <1>1. PaperInv => TypeOK BY DEF PaperInv
  <1> QED BY <1>1, ReceivingInit, ReceivingNext, PTL DEF Spec

\* Nothing is approved for payment unseen (approveSupplierInvoice): an approved
\* invoice was once committed as matched or disputed.
THEOREM NothingUnseen == Spec => []ApprovalEarned
  <1>1. PaperInv => ApprovalEarned
    BY DEF PaperInv, TypeOK, RowOK, Judged, ApprovalEarned
  <1> QED BY <1>1, ReceivingInit, ReceivingNext, PTL DEF Spec

\* A matched invoice agreed with the order's prices and with what the receipts
\* accepted at one moment (runMatch), although it is read and saved in three
\* separate steps.
THEOREM NothingUndelivered == Spec => []MatchedDelivered
  <1>1. PaperInv => MatchedDelivered
    BY DEF PaperInv, TypeOK, RowOK, Backed, MatchedDelivered
  <1> QED BY <1>1, ReceivingInit, ReceivingNext, PTL DEF Spec

-----------------------------------------------------------------------------
(* Receipts that no two requests had in hand.                              *)

\* A receipt that a request has loaded with its lines.
Holds(r) == r.pc \in {"lines", "reload", "write"} /\ r.doc \in Receipts

\* Such a request changes quantities only of a receipt that may be inspected, says
\* "inspected" only when its lines add up, and is going to write all that differs.
GoodsFit(rows, table, r) ==
    LET g == r.doc
    IN  /\ r.goods # table[g] => rows[g]["status"] \in {"confirmed", "partially_inspected"}
        /\ r.entity["status"] = "inspected" => \A l \in DOMAIN r.goods : Near(r.goods[l])
        /\ r.pc = "write" =>
            /\ r.entity["status"] # rows[g]["status"] => "status" \in r.dirty
            /\ \A l \in DOMAIN r.goods : \A f \in Columns \ r.stale[l] :
                   r.goods[l][f] = table[g][l][f]

\* The lines a request has in hand, of a new receipt or of one that is stored.
GoodsOK(rows, table, hot, r) ==
    /\ r.pc = "idle" => r.doc = None
    /\ r.pc \in {"number", "insert"} /\ r.doc = None => Counted(r.goods)
    /\ Holds(r) => /\ DOMAIN r.goods = DOMAIN table[r.doc] /\ Counted(r.goods)
                   /\ r.doc \in hot \/ GoodsFit(rows, table, r)

\* Two requests do not have the same document in hand, unless it is contended.
Apart(hot, q, r) == q.doc = r.doc => q.doc = None \/ q.doc \in hot

GoodsInv ==
    /\ \A g \in DOMAIN lines : Counted(lines[g])
    /\ \A p \in Workers : GoodsOK(row, lines, contended, req[p])
    /\ \A p, q \in Workers : p # q => Apart(contended, req[p], req[q])
    /\ InspectedSettled

LEMMA MergedCounts ==
    ASSUME NEW a \in [Columns -> Int], NEW b \in [Columns -> Int], NEW ds
    PROVE  /\ Merge(a, b, ds) \in [Columns -> Int]
           /\ (\A f \in Columns \ ds : b[f] = a[f]) => Merge(a, b, ds) = b
           /\ \A f \in Columns \ Dirty(b, a) : b[f] = a[f]
           /\ \A f \in Columns \ DOMAIN b : b[f] = a[f]
  BY DEF Merge, Dirty

LEMMA JudgedCounts ==
    ASSUME NEW goods, Counted(goods), NEW v \in Verdicts
    PROVE  DOMAIN Judge(goods, v) = DOMAIN goods /\ Counted(Judge(goods, v))
  <1>1. DOMAIN Judge(goods, v) = DOMAIN goods BY DEF Judge
  <1>2. ASSUME NEW l \in DOMAIN goods PROVE Judge(goods, v)[l] \in [Columns -> Int]
    <2>1. goods[l] \in [Columns -> Int] BY DEF Counted
    <2>2. CASE l \notin DOMAIN v BY <2>1, <2>2 DEF Judge
    <2>3. CASE l \in DOMAIN v
      <3>1. PICK a, b : a = v[l].accepted /\ b = v[l].rejected OBVIOUS
      <3>2. v[l] \in [{"accepted", "rejected"} -> Int] BY <2>3, QuantitiesAssumption
      <3>3. a \in Int /\ b \in Int BY <3>1, <3>2
      <3>4. Judge(goods, v)[l] = [goods[l] EXCEPT !["accepted"] = a, !["rejected"] = b]
        BY <2>3, <3>1 DEF Judge
      <3> QED BY <2>1, <3>3, <3>4 DEF Columns
    <2> QED BY <2>2, <2>3
  <1>3. Judge(goods, v) \in [DOMAIN goods -> [Columns -> Int]] BY <1>2 DEF Judge
  <1> QED BY <1>1, <1>3 DEF Counted

\* A step that changes one worker's request only.
LEMMA OneGoods ==
    ASSUME PaperInv, GoodsInv, NEW p \in Workers, NEW r, req' = [req EXCEPT ![p] = r],
           UNCHANGED <<row, lines>>, contended \subseteq contended',
           GoodsOK(row, lines, contended', r),
           \A q \in Workers \ {p} : Apart(contended', r, req[q])
    PROVE  GoodsInv'
  <1>1. \A q \in Workers : req'[q] = IF q = p THEN r ELSE req[q] BY DEF PaperInv
  <1> DEFINE hotter == contended'
  <1>0. contended \subseteq hotter /\ GoodsOK(row, lines, hotter, r)
        /\ \A q \in Workers \ {p} : Apart(hotter, r, req[q])
    OBVIOUS
  <1> HIDE DEF hotter
  <1>2. \A q \in Workers : GoodsOK(row, lines, hotter, req[q])
    BY <1>0 DEF GoodsInv, GoodsOK
  <1>3. \A q \in Workers : GoodsOK(row, lines, hotter, req'[q]) BY <1>0, <1>1, <1>2
  <1>4. \A q, s \in Workers : q # s => Apart(hotter, req'[q], req'[s])
    <2>1. \A q, s \in Workers : q # s => Apart(hotter, req[q], req[s])
      BY <1>0 DEF GoodsInv, Apart
    <2>2. \A q \in Workers \ {p} : Apart(hotter, req[q], r) BY <1>0 DEF Apart
    <2> QED BY <1>0, <1>1, <2>1, <2>2
  <1>5. InspectedSettled' BY <1>0 DEF GoodsInv, InspectedSettled, hotter
  <1> QED BY <1>3, <1>4, <1>5 DEF GoodsInv, hotter

\* A request arrives.
LEMMA GoodsArrive ==
    ASSUME PaperInv, GoodsInv, NEW p \in Workers, NEW d \in Docs \cup {None}, NEW r, Take(p, d, r),
           r.doc = d, GoodsOK(row, lines, contended, r)
    PROVE  GoodsInv'
  <1>1. contended \subseteq contended' BY DEF Take
  <1>2. \A q \in Workers \ {p} : Apart(contended', r, req[q])
    <2> SUFFICES ASSUME NEW q \in Workers \ {p}, d = req[q].doc, d # None
                 PROVE  d \in contended'
      BY DEF Apart
    <2>1. Busy(q) BY DEF Busy, GoodsInv, GoodsOK
    <2> QED BY <2>1 DEF Take
  <1>3. GoodsOK(row, lines, contended', r) BY <1>1 DEF GoodsOK
  <1> QED BY <1>1, <1>2, <1>3, OneGoods DEF Take

\* The lines are loaded and saved with the receipt, or are none of its business.
LEMMA GoodsElsewhere ==
    ASSUME NEW pc, pc \in {"reload", "goods", "insert"}, NEW d \in Docs \ Receipts, NEW e,
           NEW goods, NEW paper
    PROVE  LET r == Job(pc, d, e, goods, {}, paper)
           IN  r.doc = d /\ GoodsOK(row, lines, contended, r)
  <1> DEFINE r == Job(pc, d, e, goods, {}, paper)
  <1>1. r.pc = pc /\ r.doc = d BY JobFields
  <1>2. d # None /\ d \notin Receipts BY ReceivingAssumption
  <1> HIDE DEF r
  <1>3. r.doc = d /\ GoodsOK(row, lines, contended, r) BY <1>1, <1>2 DEF GoodsOK, Holds
  <1> QED BY <1>3 DEF r

LEMMA GoodsLoaded ==
    ASSUME PaperInv, GoodsInv, NEW d \in Receipts \cap DOMAIN row, NEW to, NEW pc, NEW goods,
           NEW named, pc \in {"lines", "reload"},
           DOMAIN goods = DOMAIN lines[d], Counted(goods),
           goods # lines[d] => row[d].status \in {"confirmed", "partially_inspected"},
           to = "inspected" => \A l \in DOMAIN goods : Near(goods[l])
    PROVE  LET r == Job(pc, d, [row[d] EXCEPT !.status = to], goods, named, None)
           IN  r.doc = d /\ GoodsOK(row, lines, contended, r)
  <1> DEFINE e == [row[d] EXCEPT !.status = to]
             r == Job(pc, d, e, goods, named, None)
  <1>1. e["status"] = to BY DEF PaperInv, RowOK
  <1>2. r.pc = pc /\ r.doc = d /\ r.entity = e /\ r.goods = goods BY JobFields
  <1> HIDE DEF e, r
  <1>3. GoodsFit(row, lines, r) BY <1>1, <1>2 DEF GoodsFit
  <1>4. GoodsOK(row, lines, contended, r) BY <1>2, <1>3 DEF GoodsOK
  <1> QED BY <1>2, <1>4 DEF e, r

LEMMA RequestGoods == ASSUME PaperInv, GoodsInv, NEW p \in Workers, Request(p) PROVE GoodsInv'
  <1>0. /\ Orders \cup Invoices \subseteq Docs \ Receipts /\ Receipts \subseteq Docs
        /\ \A d \in Receipts \cap DOMAIN row : Counted(lines[d])
    BY ReceivingAssumption DEF Docs, PaperInv, TypeOK, GoodsInv
  <1>1. ASSUME NEW d \in Orders, NEW to \in {"sent", "acknowledged", "cancelled"}, MoveOrder(p, d, to)
        PROVE  GoodsInv'
    BY <1>0, <1>1, GoodsElsewhere, GoodsArrive DEF MoveOrder, Save
  <1>2. ASSUME NEW d \in Orders, NEW goods \in Deliveries, CreateReceipt(p, d, goods)
        PROVE  GoodsInv'
    <2> DEFINE r == Job("number", None, <<>>, goods, {}, None)
    <2>1. r.pc = "number" /\ r.doc = None /\ r.goods = goods BY JobFields
    <2>2. Take(p, None, r) BY <1>2 DEF CreateReceipt
    <2> HIDE DEF r
    <2>3. GoodsOK(row, lines, contended, r)
      BY <2>1, ReceivingAssumption, QuantitiesAssumption DEF GoodsOK, Holds
    <2> QED BY <2>1, <2>2, <2>3, GoodsArrive
  <1>3. ASSUME NEW d \in Receipts \cap DOMAIN row, NEW to \in {"confirmed", "rejected"},
               MoveReceipt(p, d, to)
        PROVE  GoodsInv'
    BY <1>0, <1>3, GoodsLoaded, GoodsArrive DEF MoveReceipt, Save
  <1>4. ASSUME NEW d \in Receipts \cap DOMAIN row, NEW v \in Verdicts, Inspect(p, d, v)
        PROVE  GoodsInv'
    <2>1. PICK goods : goods = Judge(lines[d], v) OBVIOUS
    <2>2. DOMAIN goods = DOMAIN lines[d] /\ Counted(goods) BY <1>0, <2>1, JudgedCounts
    <2>3. PICK next \in {"inspected", "partially_inspected"} :
              /\ next = "inspected" => \A l \in DOMAIN goods : Near(goods[l])
              /\ Take(p, d, Job("lines", d, [row[d] EXCEPT !.status = next], goods, DOMAIN v, None))
      BY <1>4, <2>1 DEF Inspect
    <2>4. row[d].status \in {"confirmed", "partially_inspected"} BY <1>4 DEF Inspect
    <2> QED BY <1>0, <2>2, <2>3, <2>4, GoodsLoaded, GoodsArrive
  <1>5. ASSUME NEW d \in Invoices, NEW b \in Bills, CreateInvoice(p, d, b)
        PROVE  GoodsInv'
    BY <1>0, <1>5, GoodsElsewhere, GoodsArrive DEF CreateInvoice
  <1>6. ASSUME NEW d \in Invoices \cap DOMAIN row, NEW tol \in Tolerances, Match(p, d, tol)
        PROVE  GoodsInv'
    BY <1>0, <1>6, GoodsElsewhere, GoodsArrive DEF Match
  <1>7. ASSUME NEW d \in Invoices \cap DOMAIN row,
               NEW to \in {"approved", "disputed", "rejected", "cancelled"}, MoveInvoice(p, d, to)
        PROVE  GoodsInv'
    BY <1>0, <1>7, GoodsElsewhere, GoodsArrive DEF MoveInvoice, Save
  <1> QED BY <1>1, <1>2, <1>3, <1>4, <1>5, <1>6, <1>7 DEF Request

LEMMA NextGoods ==
    ASSUME PaperInv, GoodsInv, NEW p \in Workers, NEW r, req' = [req EXCEPT ![p] = r],
           r.doc = req[p].doc, GoodsOK(row, lines, contended, r),
           UNCHANGED <<row, lines, contended>>
    PROVE  GoodsInv'
  <1>1. \A q \in Workers \ {p} : Apart(contended', r, req[q])
    BY DEF GoodsInv, Apart
  <1>2. GoodsOK(row, lines, contended', r) /\ contended \subseteq contended' OBVIOUS
  <1> QED BY <1>1, <1>2, OneGoods

LEMMA IdleGoods ==
    /\ GoodsOK(row, lines, contended, Idle)
    /\ \A hot, q : Apart(hot, Idle, q) /\ Apart(hot, q, Idle)
  <1>1. Idle.pc = "idle" /\ Idle.doc = None BY DEF Idle, Job
  <1> HIDE DEF Idle
  <1>2. GoodsOK(row, lines, contended, Idle) BY <1>1 DEF GoodsOK, Holds
  <1> QED BY <1>1, <1>2 DEF Apart

LEMMA AbortGoods ==
    ASSUME PaperInv, GoodsInv, NEW p \in Workers, Abort(p)
    PROVE  GoodsInv'
  <1>1. \A q \in Workers \ {p} : Apart(contended', Idle, req[q]) BY IdleGoods
  <1>2. GoodsOK(row, lines, contended', Idle) /\ contended \subseteq contended'
    BY IdleGoods DEF Abort
  <1> QED BY <1>1, <1>2, OneGoods DEF Abort

LEMMA ProgressGoods ==
    ASSUME PaperInv, GoodsInv, NEW p \in Workers,
           Number(p) \/ ReadGoods(p) \/ SaveLines(p) \/ Reload(p) \/ Refused(p) \/ ConnectionLost(p)
    PROVE  GoodsInv'
  <1>0. PICK r : r = req[p] OBVIOUS
  <1>9. DOMAIN r = DOMAIN Idle /\ GoodsOK(row, lines, contended, r)
    BY <1>0 DEF PaperInv, JobOK, GoodsInv
  <1>1. CASE Number(p)
    <2> DEFINE n == Cardinality(DOMAIN lines) + 1
               s == [r EXCEPT !.pc = "insert", !.num = n]
    <2>1. r.pc = "number" /\ req' = [req EXCEPT ![p] = s] /\ UNCHANGED <<row, lines, contended>>
      BY <1>0, <1>1 DEF Number
    <2>2. r.doc = None BY <1>0, <2>1 DEF PaperInv, JobOK
    <2> HIDE DEF n
    <2>3. s.pc = "insert" /\ s.doc = r.doc /\ s.goods = r.goods BY <1>9, JobFields
    <2> HIDE DEF s
    <2>4. GoodsOK(row, lines, contended, s) BY <1>9, <2>1, <2>2, <2>3 DEF GoodsOK, Holds
    <2> QED BY <1>0, <2>1, <2>3, <2>4, NextGoods
  <1>2. CASE ReadGoods(p)
    <2>1. PICK e : /\ r.pc = "goods" /\ UNCHANGED <<row, lines, contended>>
                   /\ req' = [req EXCEPT ![p] = [r EXCEPT !.pc = "reload", !.entity = e]]
      BY <1>0, <1>2 DEF ReadGoods
    <2> DEFINE s == [r EXCEPT !.pc = "reload", !.entity = e]
    <2>2. r.doc \in Invoices BY <1>0, <2>1 DEF PaperInv, JobOK
    <2>3. s.pc = "reload" /\ s.doc = r.doc BY <1>9, JobFields
    <2>4. req' = [req EXCEPT ![p] = s] BY <2>1
    <2> HIDE DEF s
    <2>5. GoodsOK(row, lines, contended, s)
      BY <2>2, <2>3, ReceivingAssumption DEF GoodsOK, Holds
    <2> QED BY <1>0, <2>1, <2>3, <2>4, <2>5, NextGoods
  <1>3. CASE SaveLines(p)
    <2>1. PICK held : /\ r.pc = "lines" /\ UNCHANGED <<row, lines, contended>>
                      /\ req' = [req EXCEPT ![p] = [r EXCEPT !.pc = "reload", !.held = held]]
      BY <1>0, <1>3 DEF SaveLines
    <2> DEFINE s == [r EXCEPT !.pc = "reload", !.held = held]
    <2>2. s.pc = "reload" /\ s.doc = r.doc /\ s.goods = r.goods /\ s.entity = r.entity
      BY <1>9, JobFields
    <2>3. req' = [req EXCEPT ![p] = s] BY <2>1
    <2> HIDE DEF s
    <2>4. GoodsOK(row, lines, contended, s) BY <1>9, <2>1, <2>2 DEF GoodsOK, Holds, GoodsFit
    <2> QED BY <1>0, <2>1, <2>2, <2>3, <2>4, NextGoods
  <1>4. CASE Reload(p)
    <2> DEFINE ds == Dirty(r.entity, row[r.doc])
               ls == [l \in DOMAIN r.goods |->
                         IF l \in r.held THEN DOMAIN r.goods[l]
                         ELSE Dirty(r.goods[l], lines[r.doc][l])]
               s  == [r EXCEPT !.pc = "write", !.dirty = ds, !.stale = ls]
    <2>1. /\ r.pc = "reload" /\ req' = [req EXCEPT ![p] = s]
          /\ UNCHANGED <<row, lines, contended>>
      BY <1>0, <1>4 DEF Reload
    <2>2. r.entity["status"] # row[r.doc]["status"] => "status" \in ds
      BY <1>0, <2>1 DEF PaperInv, JobOK, EntityOK, Dirty
    <2>3. ASSUME Holds(r), NEW l \in DOMAIN r.goods, NEW f \in Columns \ ls[l]
          PROVE  r.goods[l][f] = lines[r.doc][l][f]
      <3>1. DOMAIN r.goods = DOMAIN lines[r.doc] /\ Counted(r.goods)
        BY <1>9, <2>3 DEF GoodsOK
      <3>2. Counted(lines[r.doc])
        BY <1>0, <2>3 DEF Holds, PaperInv, JobOK, TypeOK, GoodsInv
      <3>3. r.goods[l] \in [Columns -> Int] /\ lines[r.doc][l] \in [Columns -> Int]
        BY <3>1, <3>2 DEF Counted
      <3>4. ls[l] \in {DOMAIN r.goods[l], Dirty(r.goods[l], lines[r.doc][l])} OBVIOUS
      <3> HIDE DEF ls
      <3> QED BY <2>3, <3>3, <3>4, MergedCounts
    <2> HIDE DEF ds, ls
    <2>4. /\ s.pc = "write" /\ s.doc = r.doc /\ s.goods = r.goods /\ s.entity = r.entity
          /\ s.dirty = ds /\ s.stale = ls
      BY <1>9, JobFields
    <2> HIDE DEF s
    <2>5. GoodsOK(row, lines, contended, s)
      BY <1>9, <2>1, <2>2, <2>3, <2>4 DEF GoodsOK, Holds, GoodsFit
    <2> QED BY <1>0, <2>1, <2>4, <2>5, NextGoods
  <1>5. CASE Refused(p) \/ ConnectionLost(p)
    BY <1>5, AbortGoods DEF Refused, ConnectionLost
  <1> QED BY <1>1, <1>2, <1>3, <1>4, <1>5

\* A request ends; documents that others have in hand stay as they were, or are contended.
LEMMA EndedGoods ==
    ASSUME PaperInv, GoodsInv, NEW p \in Workers, req' = [req EXCEPT ![p] = Idle],
           contended' = contended, \A g \in DOMAIN lines' : Counted(lines'[g]),
           \A g \in DOMAIN lines : DOMAIN lines'[g] = DOMAIN lines[g],
           \A g \in DOMAIN lines \ contended :
               (\E q \in Workers \ {p} : req[q].doc = g) =>
                   lines'[g] = lines[g] /\ row'[g] = row[g],
           InspectedSettled'
    PROVE  GoodsInv'
  <1>1. \A q \in Workers : req'[q] = IF q = p THEN Idle ELSE req[q] BY DEF PaperInv
  <1>2. ASSUME NEW q \in Workers \ {p} PROVE GoodsOK(row', lines', contended, req[q])
    <2>1. GoodsOK(row, lines, contended, req[q]) BY DEF GoodsInv
    <2>2. Holds(req[q]) => req[q].doc \in DOMAIN lines BY DEF PaperInv, JobOK, TypeOK, Holds
    <2>3. Holds(req[q]) /\ req[q].doc \notin contended =>
              GoodsFit(row', lines', req[q])
      BY <2>1, <2>2 DEF GoodsOK, GoodsFit
    <2> QED BY <2>1, <2>2, <2>3 DEF GoodsOK
  <1>3. GoodsOK(row', lines', contended, Idle)
    <2>1. Idle.pc = "idle" /\ Idle.doc = None BY DEF Idle, Job
    <2> HIDE DEF Idle
    <2> QED BY <2>1 DEF GoodsOK, Holds
  <1>4. \A q \in Workers : GoodsOK(row', lines', contended', req'[q]) BY <1>1, <1>2, <1>3
  <1>5. \A q, s \in Workers : q # s => Apart(contended', req'[q], req'[s])
    BY <1>1, IdleGoods DEF GoodsInv
  <1> QED BY <1>4, <1>5 DEF GoodsInv

LEMMA InsertGoods ==
    ASSUME PaperInv, GoodsInv, NEW p \in Workers
    PROVE  /\ (\E g \in Receipts : InsertReceipt(p, g)) => GoodsInv'
           /\ InsertInvoice(p) => GoodsInv'
  <1>0. DOMAIN lines = DOMAIN row \cap Receipts BY DEF PaperInv, TypeOK
  <1>1. ASSUME NEW g \in Receipts, InsertReceipt(p, g) PROVE GoodsInv'
    <2>1. PICK goods, e : /\ goods = req[p].goods /\ e = [status |-> "draft", num |-> req[p].num]
                          /\ row' = With(row, g, e) /\ lines' = With(lines, g, goods)
      BY <1>1 DEF InsertReceipt
    <2>2. Counted(goods) /\ e.status = "draft" /\ g \notin DOMAIN row
      BY <1>1, <2>1 DEF InsertReceipt, GoodsInv, GoodsOK
    <2>3. /\ DOMAIN lines' = DOMAIN lines \cup {g}
          /\ \A x \in DOMAIN lines' : lines'[x] = IF x = g THEN goods ELSE lines[x]
          /\ \A x \in DOMAIN lines : row'[x] = row[x] /\ x # g
          /\ row'[g] = e
      BY <1>0, <2>1, <2>2 DEF With
    <2>4. InspectedSettled' BY <1>1, <2>2, <2>3 DEF InsertReceipt, InspectedSettled, GoodsInv
    <2>5. \A x \in DOMAIN lines' : Counted(lines'[x]) BY <2>2, <2>3 DEF GoodsInv
    <2> QED BY <1>1, <2>3, <2>4, <2>5, EndedGoods DEF InsertReceipt
  <1>2. ASSUME InsertInvoice(p) PROVE GoodsInv'
    <2>1. PICK d, e : row' = With(row, d, e) /\ d \notin DOMAIN row
      BY <1>2 DEF InsertInvoice
    <2>2. \A x \in DOMAIN lines : row'[x] = row[x] BY <1>0, <2>1 DEF With
    <2>3. /\ lines' = lines /\ contended' = contended /\ req' = [req EXCEPT ![p] = Idle]
      BY <1>2 DEF InsertInvoice
    <2>4. InspectedSettled' BY <2>2, <2>3 DEF InspectedSettled, GoodsInv
    <2>5. \A x \in DOMAIN lines' : Counted(lines'[x]) BY <2>3 DEF GoodsInv
    <2> QED BY <2>2, <2>3, <2>4, <2>5, EndedGoods
  <1> QED BY <1>1, <1>2

\* The save of a receipt that nobody else had in hand leaves its lines and its status
\* as the request has them.
LEMMA ReceiptSaved ==
    ASSUME PaperInv, GoodsInv, NEW p \in Workers, Write(p), req[p].doc \in Receipts
    PROVE  LET r == req[p]
               d == r.doc
           IN  /\ d \in DOMAIN lines /\ DOMAIN lines'[d] = DOMAIN lines[d] /\ Counted(lines'[d])
               /\ \A x \in DOMAIN lines : x # d => lines'[x] = lines[x]
               /\ DOMAIN lines' = DOMAIN lines
               /\ d \notin contended =>
                     /\ lines'[d] = r.goods /\ row'[d]["status"] = r.entity["status"]
                     /\ lines'[d] # lines[d] =>
                            row[d]["status"] \in {"confirmed", "partially_inspected"}
                     /\ r.entity["status"] = "inspected" =>
                            \A l \in DOMAIN r.goods : Near(r.goods[l])
  <1>0. PICK r, d : r = req[p] /\ d = r.doc OBVIOUS
  <1>1. r.pc = "write" /\ d \in Receipts /\ Holds(r) /\ GoodsOK(row, lines, contended, r)
    BY <1>0 DEF Write, Holds, GoodsInv
  <1>2. d \in DOMAIN row /\ d \in DOMAIN lines /\ RowOK(d) /\ EntityOK(d, r.entity)
    BY <1>0, <1>1 DEF PaperInv, JobOK, TypeOK
  <1>3. DOMAIN r.goods = DOMAIN lines[d] /\ Counted(r.goods) /\ Counted(lines[d])
    BY <1>0, <1>1, <1>2 DEF GoodsOK, GoodsInv
  <1>4. PICK merged :
            /\ merged = [l \in DOMAIN lines[d] |-> Merge(lines[d][l], r.goods[l], r.stale[l])]
            /\ lines' = [lines EXCEPT ![d] = merged]
    BY <1>0, <1>1 DEF Write
  <1>5. lines'[d] = merged /\ DOMAIN merged = DOMAIN lines[d] BY <1>2, <1>4
  <1>6. \A l \in DOMAIN lines[d] :
            /\ r.goods[l] \in [Columns -> Int] /\ lines[d][l] \in [Columns -> Int]
            /\ merged[l] = Merge(lines[d][l], r.goods[l], r.stale[l])
    BY <1>3, <1>4 DEF Counted
  <1>7. \A l \in DOMAIN lines[d] :
            /\ merged[l] \in [Columns -> Int]
            /\ (\A f \in Columns \ r.stale[l] : r.goods[l][f] = lines[d][l][f]) =>
                   merged[l] = r.goods[l]
    BY <1>6, MergedCounts
  <1>8. Counted(merged)
    <2>1. merged \in [DOMAIN lines[d] -> [Columns -> Int]] BY <1>4, <1>5, <1>7
    <2> QED BY <1>5, <2>1 DEF Counted
  <1>9. ASSUME d \notin contended
        PROVE  /\ merged = r.goods /\ row'[d]["status"] = r.entity["status"]
               /\ merged # lines[d] => row[d]["status"] \in {"confirmed", "partially_inspected"}
               /\ r.entity["status"] = "inspected" =>
                      \A l \in DOMAIN r.goods : Near(r.goods[l])
    <2>1. GoodsFit(row, lines, r) BY <1>0, <1>1, <1>9 DEF GoodsOK
    <2>2. \A l \in DOMAIN lines[d] : merged[l] = r.goods[l]
      BY <1>0, <1>1, <1>3, <1>7, <2>1 DEF GoodsFit
    <2>3. merged = r.goods BY <1>3, <1>4, <1>5, <2>2 DEF Counted
    <2>4. PICK x : x = Merge(row[d], r.entity, r.dirty) /\ row' = [row EXCEPT ![d] = x]
      BY <1>0 DEF Write
    <2>5. x["status"] = IF "status" \in r.dirty THEN r.entity["status"] ELSE row[d]["status"]
      BY <1>2, <2>4 DEF RowOK, Merge
    <2>6. row'[d]["status"] = r.entity["status"]
      BY <1>0, <1>1, <1>2, <2>1, <2>4, <2>5 DEF GoodsFit
    <2> QED BY <1>0, <2>1, <2>3, <2>6 DEF GoodsFit
  <1> QED BY <1>0, <1>2, <1>4, <1>5, <1>8, <1>9

LEMMA WriteGoods == ASSUME PaperInv, GoodsInv, NEW p \in Workers, Write(p) PROVE GoodsInv'
  <1>0. PICK r, d : r = req[p] /\ d = r.doc OBVIOUS
  <1>1. /\ req' = [req EXCEPT ![p] = Idle] /\ contended' = contended
        /\ \A x \in DOMAIN row : x # d => row'[x] = row[x]
    BY <1>0 DEF Write
  <1>2. DOMAIN lines = DOMAIN row \cap Receipts /\ d # None
    BY <1>0, ReceivingAssumption DEF PaperInv, JobOK, TypeOK, Write
  <1>3. \A q \in Workers \ {p} : req[q].doc = d => d \in contended
    BY <1>0, <1>2 DEF GoodsInv, Apart
  <1>4. CASE d \notin Receipts
    <2>1. lines' = lines /\ \A x \in DOMAIN lines : row'[x] = row[x]
      BY <1>0, <1>1, <1>2, <1>4 DEF Write
    <2>2. InspectedSettled' BY <1>1, <2>1 DEF InspectedSettled, GoodsInv
    <2>3. \A x \in DOMAIN lines' : Counted(lines'[x]) BY <2>1 DEF GoodsInv
    <2> QED BY <1>1, <2>1, <2>2, <2>3, EndedGoods
  <1>5. CASE d \in Receipts
    <2>1. /\ d \in DOMAIN lines /\ DOMAIN lines'[d] = DOMAIN lines[d] /\ Counted(lines'[d])
          /\ \A x \in DOMAIN lines : x # d => lines'[x] = lines[x]
          /\ DOMAIN lines' = DOMAIN lines
          /\ d \notin contended =>
                /\ lines'[d] = r.goods /\ row'[d]["status"] = r.entity["status"]
                /\ r.entity["status"] = "inspected" =>
                       \A l \in DOMAIN r.goods : Near(r.goods[l])
      BY <1>0, <1>5, ReceiptSaved
    <2>2. ASSUME NEW x \in DOMAIN lines' \ contended', row'[x].status = "inspected",
                 NEW l \in DOMAIN lines'[x]
          PROVE  Near(lines'[x][l])
      <3>1. CASE x = d BY <1>1, <2>1, <2>2, <3>1
      <3>2. CASE x # d
        BY <1>1, <1>2, <2>1, <2>2, <3>2 DEF GoodsInv, InspectedSettled
      <3> QED BY <3>1, <3>2
    <2>3. InspectedSettled' BY <2>2 DEF InspectedSettled, Near, Off
    <2>4. \A x \in DOMAIN lines' : Counted(lines'[x]) BY <2>1 DEF GoodsInv
    <2>5. \A x \in DOMAIN lines : DOMAIN lines'[x] = DOMAIN lines[x] BY <2>1
    <2>6. \A x \in DOMAIN lines \ contended :
              (\E q \in Workers \ {p} : req[q].doc = x) =>
                  lines'[x] = lines[x] /\ row'[x] = row[x]
      BY <1>1, <1>2, <1>3, <2>1
    <2> QED BY <1>1, <2>3, <2>4, <2>5, <2>6, EndedGoods
  <1> QED BY <1>4, <1>5

-----------------------------------------------------------------------------
LEMMA GoodsInit == Init => GoodsInv
  <1> SUFFICES ASSUME Init PROVE GoodsInv OBVIOUS
  <1>1. \A p \in Workers : req[p] = Idle BY DEF Init
  <1>2. lines = <<>> /\ DOMAIN lines = {} BY DEF Init
  <1>3. \A p \in Workers : GoodsOK(row, lines, contended, req[p]) BY <1>1, IdleGoods
  <1>4. \A p, q \in Workers : Apart(contended, req[p], req[q]) BY <1>1, IdleGoods
  <1> QED BY <1>2, <1>3, <1>4 DEF GoodsInv, InspectedSettled

LEMMA GoodsNext == PaperInv /\ GoodsInv /\ [Next]_vars => GoodsInv'
  <1> SUFFICES ASSUME PaperInv, GoodsInv, [Next]_vars PROVE GoodsInv' OBVIOUS
  <1>1. CASE UNCHANGED vars
    BY <1>1 DEF vars, GoodsInv, InspectedSettled, Near, Off
  <1>2. ASSUME NEW p \in Workers, Request(p) PROVE GoodsInv' BY <1>2, RequestGoods
  <1>3. ASSUME NEW p \in Workers, (\E g \in Receipts : InsertReceipt(p, g)) \/ InsertInvoice(p)
        PROVE  GoodsInv'
    BY <1>3, InsertGoods
  <1>4. ASSUME NEW p \in Workers, Write(p) PROVE GoodsInv' BY <1>4, WriteGoods
  <1>5. CASE Quiet BY <1>1, <1>5 DEF Quiet
  <1> QED BY <1>1, <1>2, <1>3, <1>4, <1>5, ProgressGoods DEF Next

\* "fully inspected if every line settled" (procurement.service.ts:880): every line of
\* an inspected receipt adds up, unless two requests had the receipt in hand at once.
THEOREM SettledWhenInspected == Spec => []InspectedSettled
  <1>1. GoodsInv => InspectedSettled BY DEF GoodsInv
  <1> QED BY <1>1, ReceivingInit, ReceivingNext, GoodsInit, GoodsNext, PTL DEF Spec

\* The quantities of a receipt change only while it is being inspected, although every
\* save of it saves its lines (inspectGoodsReceipt), unless two requests had it in hand.
THEOREM VerdictsStay == Spec => VerdictStays
  <1> DEFINE Inspects == \A g \in DOMAIN lines \ contended' :
          lines'[g] # lines[g] => row[g].status \in {"confirmed", "partially_inspected"}
  <1>1. PaperInv /\ GoodsInv /\ [Next]_vars => [Inspects]_vars
    <2> SUFFICES ASSUME PaperInv, GoodsInv, Next,
                        NEW g \in DOMAIN lines \ contended', lines'[g] # lines[g]
                 PROVE  row[g].status \in {"confirmed", "partially_inspected"}
      OBVIOUS
    <2>1. CASE \E p \in Workers : Write(p)
      <3>1. PICK p \in Workers : Write(p) BY <2>1
      <3>2. req[p].doc \in Receipts /\ contended' = contended BY <3>1 DEF Write
      <3> QED BY <3>1, <3>2, ReceiptSaved
    <2>2. ASSUME NEW p \in Workers, NEW x \in Receipts, InsertReceipt(p, x) PROVE FALSE
      <3>1. x \notin DOMAIN lines /\ lines' = With(lines, x, req[p].goods)
        BY <2>2 DEF InsertReceipt, PaperInv, TypeOK
      <3> QED BY <3>1 DEF With
    <2>3. ASSUME NEW p \in Workers,
                 \/ Request(p) \/ Number(p) \/ InsertInvoice(p) \/ ReadGoods(p) \/ SaveLines(p)
                 \/ Reload(p) \/ Refused(p) \/ ConnectionLost(p)
          PROVE  FALSE
      BY <2>3 DEF Request, MoveOrder, CreateReceipt, MoveReceipt, Inspect, CreateInvoice, Match,
         MoveInvoice, Take, Number, InsertInvoice, ReadGoods, SaveLines, Reload, Refused,
         ConnectionLost, Abort
    <2>4. ~Quiet BY DEF Quiet, vars
    <2> QED BY <2>1, <2>2, <2>3, <2>4 DEF Next
  <1> QED BY <1>1, ReceivingInit, ReceivingNext, GoodsInit, GoodsNext, PTL DEF Spec, VerdictStays
=============================================================================
