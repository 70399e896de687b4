--------------------------- MODULE SourcingProofs ---------------------------
(***************************************************************************)
(* Proofs about Sourcing for every set of documents, estimates, suppliers  *)
(* and requests in flight, with overlaps and failures anywhere:            *)
(*                                                                         *)
(*   DocumentsTyped   documents keep their shape, in the table and in      *)
(*                    memory                                               *)
(*   NobodySkipped    no requisition is approved or ordered before every   *)
(*                    level of its chain has signed                        *)
(*   AwardsAnswered   no RFQ is awarded to or ordered from a supplier that *)
(*                    has not answered                                     *)
(*   OrdersNumbered   purchase orders are numbered without gap             *)
(*   OrderedOnce      a document has the one order it names                *)
(***************************************************************************)
EXTENDS Sourcing, FiniteSetTheorems, SequenceTheorems, TLAPS

\* The fields a document d, or an object loaded from it, may have.
DocumentOK(d, e) ==
    /\ DOMAIN e = DOMAIN NewRow(d)
    /\ e["status"] \in Statuses(d)
    /\ d \in Requisitions => DOMAIN e["chain"] = Levels(d)
    /\ d \in Rfqs => e["award"] \in Suppliers \cup {None}

\* What a request holds, and at which database call.
RequestOK(r) ==
    /\ DOMAIN r = DOMAIN Idle
    /\ r.doc \in Docs => DocumentOK(r.doc, r.entity)
    /\ r.doc \notin Docs => r.entity = <<>>
    /\ r.doc \in Docs \cup {None}
    /\ r.pc \in {"quote", "check"} => r.doc \in Rfqs
    /\ r.pc \in {"reload", "write"} => r.doc \in Docs
    /\ r.pc = "quote" => r.supplier \in Suppliers
    /\ r.supplier \in Suppliers \cup {None}
    /\ r.ask \subseteq Suppliers
    /\ r.num \in Nat

OrderRecords == [num : Nat, from : Docs \cup {None}, supplier : Suppliers \cup {None}]

ShapeInv ==
    /\ DOMAIN row = Docs /\ \A d \in Docs : DocumentOK(d, row[d])
    /\ orders \in Seq(OrderRecords)
    /\ DOMAIN req = Workers /\ \A p \in Workers : RequestOK(req[p])
    /\ DOMAIN signed = Requisitions /\ \A d \in Requisitions : signed[d] \subseteq Levels(d)
    /\ answered \in [Rfqs -> SUBSET Suppliers]
    /\ contended \subseteq Docs
    /\ calls \in 0 .. MaxCalls

(***************************************************************************)
(* What signatures say of a document and of the objects loaded from it: an *)
(* approval an object carries was committed, or is the one its own request *)
(* is about to commit.                                                     *)
(***************************************************************************)
SignedIn(d, e, s) ==
    /\ \A n \in Levels(d) : e["chain"][n].status = "approved" => n \in s
    /\ e["status"] \in {"approved", "converted"} => Levels(d) \subseteq s

RequestSigned(r) ==
    r.doc \in Requisitions =>
        /\ SignedIn(r.doc, r.entity, signed[r.doc] \cup {r.level})
        /\ r.level \in Levels(r.doc) \cup {0}
        /\ r.pc \in {"number", "insert"} \/ r.num # 0 => Levels(r.doc) \subseteq signed[r.doc]

SignInv ==
    /\ ShapeInv
    /\ \A d \in Requisitions : SignedIn(d, row[d], signed[d])
    /\ \A n \in DOMAIN orders : orders[n].from \in Requisitions =>
           Levels(orders[n].from) \subseteq signed[orders[n].from]
    /\ \A p \in Workers : RequestSigned(req[p])
-----------------------------------------------------------------------------
(* Chains have at most two levels.                                         *)

LEMMA LevelsAre == ASSUME NEW d \in Requisitions
                   PROVE  Levels(d) \in {{}, {1}, {1, 2}}
  <1>1. Estimate[d] \in Nat BY SourcingAssumption
  <1> QED BY <1>1 DEF Levels, Chain

LEMMA NextPendingIs == ASSUME NEW d \in Requisitions, NEW chain, DOMAIN chain = Levels(d)
                       PROVE  NextPending(chain) \in Levels(d) \cup {0}
  <1> DEFINE pending == {n \in DOMAIN chain : chain[n].status = "pending"}
  <1>1. CASE pending = {} BY <1>1 DEF NextPending
  <1>2. CASE pending # {}
    <2>1. \E n \in pending : \A m \in pending : n <= m BY <1>2, LevelsAre
    <2> QED BY <1>2, <2>1 DEF NextPending
  <1> QED BY <1>1, <1>2

\* The fields of documents.
LEMMA Fields ==
    /\ \A d \in Requisitions : DOMAIN NewRow(d) = {"status", "chain", "po"}
    /\ \A d \in Rfqs : DOMAIN NewRow(d) = {"status", "award", "po"} \cup Suppliers
    /\ \A d \in Docs : "status" \in DOMAIN NewRow(d) /\ "po" \in DOMAIN NewRow(d)
  BY SourcingAssumption DEF NewRow, Docs

\* A step that changes one worker's request only.
LEMMA OneRequest ==
    ASSUME SignInv, NEW p \in Workers, NEW r, req' = [req EXCEPT ![p] = r],
           RequestOK(r), RequestSigned(r), UNCHANGED <<row, orders, signed, answered>>,
           contended' \subseteq Docs, calls' \in 0 .. MaxCalls
    PROVE  SignInv'
  <1>1. \A q \in Workers : req'[q] = IF q = p THEN r ELSE req[q] BY DEF SignInv, ShapeInv
  <1>2. ShapeInv' BY <1>1 DEF SignInv, ShapeInv
  <1>3. \A q \in Workers : RequestSigned(req[q])' BY <1>1 DEF SignInv, RequestSigned
  <1> QED BY <1>2, <1>3 DEF SignInv

LEMMA SourcingInit == Init => SignInv
  <1> SUFFICES ASSUME Init PROVE SignInv OBVIOUS
  <1>1. \A d \in Requisitions : DocumentOK(d, row[d]) /\ SignedIn(d, row[d], signed[d])
    BY SourcingAssumption DEF Init, Docs, DocumentOK, SignedIn, NewRow, Statuses, RequisitionStatus, Pending
  <1>2. \A d \in Rfqs : DocumentOK(d, row[d])
    BY SourcingAssumption DEF Init, Docs, DocumentOK, NewRow, Statuses, RfqStatus
  <1>3. RequestOK(Idle) /\ RequestSigned(Idle)
    BY SourcingAssumption DEF RequestOK, RequestSigned, Idle, Docs
  <1>4. ShapeInv
    BY <1>1, <1>2, <1>3, SourcingAssumption DEF Init, ShapeInv, Docs
  <1> QED BY <1>1, <1>3, <1>4 DEF Init, SignInv

-----------------------------------------------------------------------------
(* Requests arriving: the object loaded carries the signatures of the row. *)

LEMMA Taken ==
    ASSUME SignInv, NEW p \in Workers, NEW d, NEW r, Take(p, d, r),
           RequestOK(r), RequestSigned(r)
    PROVE  SignInv'
  <1>1. calls' \in 0 .. MaxCalls BY SourcingAssumption DEF Take, SignInv, ShapeInv
  <1>2. contended' \subseteq Docs BY DEF Take, SignInv, ShapeInv
  <1> QED BY <1>1, <1>2, OneRequest DEF Take

\* The request records, field by field.
LEMMA SaveIs ==
    ASSUME NEW d, NEW e
    PROVE  Save(d, e) = [pc |-> "reload", doc |-> d, entity |-> e, dirty |-> {},
                         level |-> 0, supplier |-> None, ask |-> {}, num |-> 0]
  <1> DEFINE i == Idle
  <1>1. i = [pc |-> "idle", doc |-> None, entity |-> <<>>, dirty |-> {},
             level |-> 0, supplier |-> None, ask |-> {}, num |-> 0]
    BY DEF Idle
  <1>2. Save(d, e) = [i EXCEPT !.pc = "reload", !.doc = d, !.entity = e] BY DEF Save
  <1> HIDE DEF i
  <1> QED BY <1>1, <1>2

LEMMA SaveLevel ==
    ASSUME NEW d, NEW e, NEW n
    PROVE  [Save(d, e) EXCEPT !.level = n]
             = [pc |-> "reload", doc |-> d, entity |-> e, dirty |-> {},
                level |-> n, supplier |-> None, ask |-> {}, num |-> 0]
  <1>1. ASSUME NEW r, r = Save(d, e)
        PROVE  [r EXCEPT !.level = n]
                 = [pc |-> "reload", doc |-> d, entity |-> e, dirty |-> {},
                    level |-> n, supplier |-> None, ask |-> {}, num |-> 0]
    BY <1>1, SaveIs
  <1> QED BY <1>1

LEMMA SaveAt ==
    ASSUME NEW d, NEW e, NEW c
    PROVE  [Save(d, e) EXCEPT !.pc = c]
             = [pc |-> c, doc |-> d, entity |-> e, dirty |-> {},
                level |-> 0, supplier |-> None, ask |-> {}, num |-> 0]
  <1>1. ASSUME NEW r, r = Save(d, e)
        PROVE  [r EXCEPT !.pc = c]
                 = [pc |-> c, doc |-> d, entity |-> e, dirty |-> {},
                    level |-> 0, supplier |-> None, ask |-> {}, num |-> 0]
    BY <1>1, SaveIs
  <1> QED BY <1>1

LEMMA SaveAsk ==
    ASSUME NEW d, NEW e, NEW a
    PROVE  [Save(d, e) EXCEPT !.ask = a]
             = [pc |-> "reload", doc |-> d, entity |-> e, dirty |-> {},
                level |-> 0, supplier |-> None, ask |-> a, num |-> 0]
  <1>1. ASSUME NEW r, r = Save(d, e)
        PROVE  [r EXCEPT !.ask = a]
                 = [pc |-> "reload", doc |-> d, entity |-> e, dirty |-> {},
                    level |-> 0, supplier |-> None, ask |-> a, num |-> 0]
    BY <1>1, SaveIs
  <1> QED BY <1>1

LEMMA SaveForIs ==
    ASSUME NEW d, NEW e, NEW c, NEW s
    PROVE  SaveFor(s, c, d, e)
             = [pc |-> c, doc |-> d, entity |-> e, dirty |-> {},
                level |-> 0, supplier |-> s, ask |-> {}, num |-> 0]
  <1> DEFINE r == [Save(d, e) EXCEPT !.pc = c]
  <1>1. r = [pc |-> c, doc |-> d, entity |-> e, dirty |-> {},
             level |-> 0, supplier |-> None, ask |-> {}, num |-> 0]
    BY SaveAt
  <1> HIDE DEF r
  <1>2. [r EXCEPT !.supplier = s]
          = [pc |-> c, doc |-> d, entity |-> e, dirty |-> {},
             level |-> 0, supplier |-> s, ask |-> {}, num |-> 0]
    BY <1>1
  <1>3. SaveFor(s, c, d, e) = [r EXCEPT !.supplier = s] BY DEF r, SaveFor
  <1> QED BY <1>2, <1>3

LEMMA LevelZero == ASSUME NEW d, NEW e PROVE [Save(d, e) EXCEPT !.level = 0] = Save(d, e)
  BY SaveIs, SaveLevel

\* Saving a requisition with the same chain and a status that needs no more
\* signatures than it had.
LEMMA RequisitionSaved ==
    ASSUME SignInv, NEW p \in Workers, NEW d \in Requisitions, NEW e, NEW n \in Levels(d) \cup {0},
           DocumentOK(d, e), SignedIn(d, e, signed[d] \cup {n}),
           Take(p, d, [Save(d, e) EXCEPT !.level = n])
    PROVE  SignInv'
  <1> DEFINE r == [Save(d, e) EXCEPT !.level = n]
  <1>0. Levels(d) \subseteq Nat BY LevelsAre
  <1>1. r = [pc |-> "reload", doc |-> d, entity |-> e, dirty |-> {},
             level |-> n, supplier |-> None, ask |-> {}, num |-> 0]
    BY SaveLevel
  <1>2. RequestOK(r) BY <1>1, SourcingAssumption DEF RequestOK, Docs, Idle
  <1>3. RequestSigned(r) BY <1>1 DEF RequestSigned
  <1> HIDE DEF r
  <1> QED BY <1>2, <1>3, Taken DEF r

LEMMA Requisition == ASSUME SignInv, NEW d \in Requisitions
                     PROVE  /\ DocumentOK(d, row[d])
                            /\ SignedIn(d, row[d], signed[d])
                            /\ DOMAIN row[d] = {"status", "chain", "po"}
                            /\ row[d].status \in RequisitionStatus
                            /\ DOMAIN row[d].chain = Levels(d)
  BY Fields DEF SignInv, ShapeInv, DocumentOK, Docs, Statuses

\* Saving a requisition whose status alone changes.
LEMMA StatusSaved ==
    ASSUME SignInv, NEW p \in Workers, NEW d \in Requisitions, NEW s \in RequisitionStatus,
           s \in {"approved", "converted"} => Levels(d) = {},
           Take(p, d, Save(d, [row[d] EXCEPT !.status = s]))
    PROVE  SignInv'
  <1> DEFINE e == [row[d] EXCEPT !.status = s]
  <1>1. /\ DOMAIN e = DOMAIN row[d] /\ e["status"] = s /\ e["chain"] = row[d]["chain"]
    BY Requisition
  <1>2. DocumentOK(d, e) /\ SignedIn(d, e, signed[d] \cup {0})
    BY <1>1, Requisition DEF DocumentOK, SignedIn, Statuses
  <1>3. Take(p, d, [Save(d, e) EXCEPT !.level = 0]) BY LevelZero
  <1> HIDE DEF e
  <1> QED BY <1>2, <1>3, RequisitionSaved

LEMMA RequisitionArrives ==
    ASSUME SignInv, NEW p \in Workers, NEW d \in Requisitions,
           Submit(p, d) \/ Approve(p, d) \/ RejectRequisition(p, d)
             \/ CancelRequisition(p, d) \/ ConvertRequisition(p, d)
    PROVE  SignInv'
  <1> USE Requisition
  <1>1. CASE Submit(p, d)
    <2>1. row[d].chain = <<>> => Levels(d) = {} OBVIOUS
    <2> QED BY <1>1, <2>1, StatusSaved DEF Submit, RequisitionStatus
  <1>2. CASE CancelRequisition(p, d)
    BY <1>2, StatusSaved DEF CancelRequisition, RequisitionStatus
  <1>3. CASE RejectRequisition(p, d)
    <2> DEFINE n     == NextPending(row[d].chain)
               chain == IF n = 0 THEN row[d].chain
                        ELSE [row[d].chain EXCEPT ![n] = Step("rejected")]
               e     == [row[d] EXCEPT !.chain = chain, !.status = "rejected"]
    <2>1. DOMAIN chain = Levels(d) OBVIOUS
    <2>2. \A m \in Levels(d) : chain[m].status = "approved" => row[d].chain[m].status = "approved"
      BY DEF Step
    <2>3. DOMAIN e = DOMAIN row[d] /\ e["status"] = "rejected" /\ e["chain"] = chain OBVIOUS
    <2>4. DocumentOK(d, e)
      BY <2>1, <2>3 DEF DocumentOK, Statuses, RequisitionStatus
    <2>5. SignedIn(d, e, signed[d] \cup {0}) BY <2>2, <2>3 DEF SignedIn
    <2>6. Take(p, d, [Save(d, e) EXCEPT !.level = 0]) BY <1>3, LevelZero DEF RejectRequisition
    <2> HIDE DEF e
    <2> QED BY <2>4, <2>5, <2>6, RequisitionSaved
  <1>4. CASE Approve(p, d)
    <2> DEFINE n     == NextPending(row[d].chain)
               chain == [row[d].chain EXCEPT ![n] = Step("approved")]
               s     == IF Complete(chain) THEN "approved" ELSE row[d].status
               e     == [row[d] EXCEPT !.chain = chain, !.status = s]
    <2>1. n \in Levels(d) BY <1>4, NextPendingIs DEF Approve
    <2>2. DOMAIN chain = Levels(d) OBVIOUS
    <2>3. \A m \in Levels(d) \ {n} : chain[m] = row[d].chain[m] OBVIOUS
    <2>4. DOMAIN e = DOMAIN row[d] /\ e["status"] = s /\ e["chain"] = chain OBVIOUS
    <2>5. \A m \in Levels(d) : chain[m].status = "approved" => m \in signed[d] \cup {n}
      BY <2>3 DEF SignedIn
    <2>6. Complete(chain) => Levels(d) \subseteq signed[d] \cup {n}
      BY <2>2, <2>5 DEF Complete
    <2> HIDE DEF chain
    <2>7. DocumentOK(d, e)
      BY <2>2, <2>4 DEF DocumentOK, Statuses, RequisitionStatus
    <2>8. SignedIn(d, e, signed[d] \cup {n}) BY <2>4, <2>5, <2>6 DEF SignedIn
    <2>9. Take(p, d, [Save(d, e) EXCEPT !.level = n]) BY <1>4 DEF Approve, chain
    <2> HIDE DEF e, n
    <2> QED BY <2>1, <2>7, <2>8, <2>9, RequisitionSaved
  <1>5. CASE ConvertRequisition(p, d)
    <2> DEFINE r == [Save(d, row[d]) EXCEPT !.pc = "number"]
    <2>1. r = [pc |-> "number", doc |-> d, entity |-> row[d], dirty |-> {},
               level |-> 0, supplier |-> None, ask |-> {}, num |-> 0]
      BY SaveAt
    <2>2. RequestOK(r) BY <2>1, SourcingAssumption DEF RequestOK, Docs, Idle
    <2>3. Levels(d) \subseteq signed[d] BY <1>5 DEF ConvertRequisition, SignedIn
    <2>4. RequestSigned(r) BY <2>1, <2>3 DEF RequestSigned, SignedIn
    <2>5. Take(p, d, r) BY <1>5 DEF ConvertRequisition
    <2> HIDE DEF r
    <2> QED BY <2>2, <2>4, <2>5, Taken
  <1> QED BY <1>1, <1>2, <1>3, <1>4, <1>5
-----------------------------------------------------------------------------
(* Requests on RFQs carry no signature; only their shape matters.          *)

LEMMA Rfq == ASSUME SignInv, NEW d \in Rfqs
             PROVE  /\ d \in Docs /\ d \notin Requisitions
                    /\ DocumentOK(d, row[d])
                    /\ {"status", "award", "po"} \subseteq DOMAIN row[d]
                    /\ Suppliers \subseteq DOMAIN row[d]
                    /\ row[d].status \in RfqStatus
                    /\ Statuses(d) = RfqStatus
  BY Fields, SourcingAssumption DEF SignInv, ShapeInv, DocumentOK, Docs, Statuses

\* An object of an RFQ that takes another status, and perhaps an award.
LEMMA RfqMoved == ASSUME SignInv, NEW d \in Rfqs, NEW s \in RfqStatus
                  PROVE  DocumentOK(d, [row[d] EXCEPT !.status = s])
  BY Rfq DEF DocumentOK

LEMMA RfqAwarded ==
    ASSUME SignInv, NEW d \in Rfqs, NEW s \in RfqStatus, NEW a \in Suppliers
    PROVE  DocumentOK(d, [row[d] EXCEPT !.status = s, !.award = a])
  BY Rfq DEF DocumentOK

LEMMA RfqTaken ==
    ASSUME SignInv, NEW p \in Workers, NEW d \in Rfqs, NEW e, DocumentOK(d, e),
           NEW c \in {"quote", "check", "number", "reload"},
           NEW s \in Suppliers \cup {None}, c = "quote" => s \in Suppliers,
           NEW a \in SUBSET Suppliers,
           NEW r, r = [pc |-> c, doc |-> d, entity |-> e, dirty |-> {},
                       level |-> 0, supplier |-> s, ask |-> a, num |-> 0],
           Take(p, d, r)
    PROVE  SignInv'
  <1>1. RequestOK(r) BY Rfq DEF RequestOK, Idle
  <1>2. RequestSigned(r) BY Rfq DEF RequestSigned
  <1> QED BY <1>1, <1>2, Taken

LEMMA RfqArrives ==
    ASSUME SignInv, NEW p \in Workers, NEW d \in Rfqs,
           \/ \E ask \in (SUBSET Suppliers) \ {{}} : SendRfq(p, d, ask)
           \/ \E s \in Suppliers : RecordQuote(p, d, s) \/ Award(p, d, s)
           \/ CancelRfq(p, d)
           \/ ConvertRfq(p, d)
    PROVE  SignInv'
  <1>1. ASSUME NEW ask \in SUBSET Suppliers, SendRfq(p, d, ask) PROVE SignInv'
    <2> DEFINE e == [row[d] EXCEPT !.status = "sent"]
               r == [Save(d, e) EXCEPT !.ask = ask]
    <2>1. DocumentOK(d, e) BY RfqMoved DEF RfqStatus
    <2>2. Take(p, d, r) BY <1>1 DEF SendRfq
    <2>3. r = [pc |-> "reload", doc |-> d, entity |-> e, dirty |-> {},
               level |-> 0, supplier |-> None, ask |-> ask, num |-> 0]
      BY SaveAsk
    <2> HIDE DEF e, r
    <2> QED BY <2>1, <2>2, <2>3, RfqTaken
  <1>2. ASSUME NEW s \in Suppliers, RecordQuote(p, d, s) PROVE SignInv'
    <2> DEFINE e == row[d]
               r == SaveFor(s, "quote", d, e)
    <2>1. DocumentOK(d, e) BY Rfq
    <2>2. Take(p, d, r) BY <1>2 DEF RecordQuote
    <2>3. r = [pc |-> "quote", doc |-> d, entity |-> e, dirty |-> {},
               level |-> 0, supplier |-> s, ask |-> {}, num |-> 0]
      BY SaveForIs
    <2> HIDE DEF e, r
    <2> QED BY <2>1, <2>2, <2>3, RfqTaken
  <1>3. ASSUME NEW s \in Suppliers, Award(p, d, s) PROVE SignInv'
    <2> DEFINE e == [row[d] EXCEPT !.status = "awarded", !.award = s]
               r == SaveFor(s, "check", d, e)
    <2>1. DocumentOK(d, e) BY RfqAwarded DEF RfqStatus
    <2>2. Take(p, d, r) BY <1>3 DEF Award
    <2>3. r = [pc |-> "check", doc |-> d, entity |-> e, dirty |-> {},
               level |-> 0, supplier |-> s, ask |-> {}, num |-> 0]
      BY SaveForIs
    <2> HIDE DEF e, r
    <2> QED BY <2>1, <2>2, <2>3, RfqTaken
  <1>4. CASE CancelRfq(p, d)
    <2> DEFINE e == [row[d] EXCEPT !.status = "cancelled"]
    <2>1. DocumentOK(d, e) BY RfqMoved DEF RfqStatus
    <2>2. Take(p, d, Save(d, e)) BY <1>4 DEF CancelRfq
    <2> HIDE DEF e
    <2> QED BY <2>1, <2>2, SaveIs, RfqTaken
  <1>5. CASE ConvertRfq(p, d)
    <2> DEFINE e == row[d]
               s == e["award"]
               r == SaveFor(s, "number", d, e)
    <2>1. DocumentOK(d, e) BY Rfq
    <2>2. s \in Suppliers BY <1>5, Rfq DEF ConvertRfq, DocumentOK
    <2>3. Take(p, d, r)
      BY <1>5 DEF ConvertRfq
    <2>4. r = [pc |-> "number", doc |-> d, entity |-> e, dirty |-> {},
               level |-> 0, supplier |-> s, ask |-> {}, num |-> 0]
      BY SaveForIs
    <2> HIDE DEF e, s, r
    <2> QED BY <2>1, <2>2, <2>3, <2>4, RfqTaken
  <1> QED BY <1>1, <1>2, <1>3, <1>4, <1>5
-----------------------------------------------------------------------------
(* The database calls of a request.                                        *)

LEMMA Worker ==
    ASSUME SignInv, NEW p \in Workers
    PROVE  /\ RequestOK(req[p]) /\ RequestSigned(req[p])
           /\ DOMAIN req = Workers
           /\ DOMAIN req[p] = {"pc", "doc", "entity", "dirty", "level", "supplier", "ask", "num"}
  BY DEF SignInv, ShapeInv, RequestOK, Idle

LEMMA OneWorker ==
    ASSUME SignInv, NEW p \in Workers, DOMAIN req' = Workers,
           \A q \in Workers \ {p} : req'[q] = req[q],
           RequestOK(req'[p]), RequestSigned(req[p])',
           UNCHANGED <<row, orders, signed, answered, contended, calls>>
    PROVE  SignInv'
  <1>1. \A q \in Workers : RequestOK(req'[q])
    BY DEF SignInv, ShapeInv
  <1>2. ShapeInv' BY <1>1 DEF SignInv, ShapeInv
  <1>3. \A q \in Workers : RequestSigned(req[q])' BY DEF SignInv, RequestSigned
  <1> QED BY <1>2, <1>3 DEF SignInv

LEMMA IdleOK == RequestOK(Idle) /\ RequestSigned(Idle) /\ RequestSigned(Idle)'
  BY SourcingAssumption DEF RequestOK, RequestSigned, Idle, Docs

LEMMA Aborted == ASSUME SignInv, NEW p \in Workers, Abort(p) PROVE SignInv'
  <1>1. req'[p] = Idle BY Worker DEF Abort
  <1>2. RequestSigned(req[p])' BY <1>1, IdleOK DEF RequestSigned
  <1> QED BY <1>1, <1>2, IdleOK, Worker, OneWorker DEF Abort

LEMMA QuoteChecked == ASSUME SignInv, NEW p \in Workers, CheckQuote(p) PROVE SignInv'
  <1>1. /\ DOMAIN req' = Workers /\ \A q \in Workers \ {p} : req'[q] = req[q]
        /\ req'[p] = [req[p] EXCEPT !.pc = "reload"]
    BY Worker DEF CheckQuote
  <1>2. req[p].doc \in Rfqs /\ req[p].doc \in Docs BY Worker DEF CheckQuote, RequestOK, Docs
  <1>3. RequestOK(req'[p]) BY <1>1, <1>2, Worker DEF RequestOK, Idle
  <1>4. RequestSigned(req[p])' BY <1>1, <1>2, Worker, SourcingAssumption DEF RequestSigned
  <1> QED BY <1>1, <1>3, <1>4, OneWorker DEF CheckQuote

LEMMA Numbered == ASSUME SignInv, NEW p \in Workers, Number(p) PROVE SignInv'
  <1>1. /\ DOMAIN req' = Workers /\ \A q \in Workers \ {p} : req'[q] = req[q]
        /\ req'[p] = [req[p] EXCEPT !.pc = "insert", !.num = Len(orders) + 1]
    BY Worker DEF Number
  <1>2. Len(orders) \in Nat BY DEF SignInv, ShapeInv
  <1>3. RequestOK(req'[p]) BY <1>1, <1>2, Worker DEF RequestOK, Idle
  <1>4. /\ req'[p].doc = req[p].doc /\ req'[p].entity = req[p].entity
        /\ req'[p].level = req[p].level /\ signed' = signed /\ req[p].pc = "number"
    BY <1>1, Worker DEF Number
  <1>5. RequestSigned(req[p])' BY <1>4, Worker DEF RequestSigned
  <1> QED BY <1>1, <1>3, <1>5, OneWorker DEF Number

LEMMA Reloaded == ASSUME SignInv, NEW p \in Workers, Reload(p) PROVE SignInv'
  <1> DEFINE dirty == {f \in DOMAIN req[p].entity : req[p].entity[f] # row[req[p].doc][f]}
  <1>1. /\ DOMAIN req' = Workers /\ \A q \in Workers \ {p} : req'[q] = req[q]
        /\ req'[p] = [req[p] EXCEPT !.pc = "write", !.dirty = dirty]
    BY Worker DEF Reload
  <1> HIDE DEF dirty
  <1>2. RequestOK(req'[p]) BY <1>1, Worker DEF RequestOK, Idle, Reload
  <1>3. RequestSigned(req[p])' BY <1>1, Worker DEF RequestSigned, Reload
  <1> QED BY <1>1, <1>2, <1>3, OneWorker DEF Reload

\* An order for a requisition is made only when every level has signed.
LEMMA OrderTyped == ASSUME SignInv, NEW p \in Workers
                    PROVE  /\ Order(p) \in OrderRecords
                           /\ orders \in Seq(OrderRecords)
                           /\ Append(orders, Order(p)) \in Seq(OrderRecords)
                           /\ \A n \in DOMAIN Append(orders, Order(p)) :
                                 LET o == Append(orders, Order(p))[n]
                                 IN  o = Order(p) \/ \E m \in DOMAIN orders : o = orders[m]
  <1>1. Order(p) \in OrderRecords BY Worker DEF Order, OrderRecords, RequestOK
  <1>2. orders \in Seq(OrderRecords) BY DEF SignInv, ShapeInv
  <1> QED BY <1>1, <1>2

LEMMA Inserted == ASSUME SignInv, NEW p \in Workers, Insert(p) PROVE SignInv'
  <1>1. CASE req[p].doc = None
    <2>1. /\ orders' = Append(orders, Order(p)) /\ req' = [req EXCEPT ![p] = Idle]
          /\ UNCHANGED <<row, signed, answered, contended, calls>>
      BY <1>1 DEF Insert
    <2>2. \A q \in Workers : req'[q] = IF q = p THEN Idle ELSE req[q] BY <2>1, Worker
    <2>3. ShapeInv' BY <2>1, <2>2, IdleOK, OrderTyped DEF SignInv, ShapeInv
    <2>4. Order(p).from \notin Requisitions BY <1>1, SourcingAssumption DEF Order, Docs
    <2>5. \A n \in DOMAIN orders' : orders'[n].from \in Requisitions =>
             Levels(orders'[n].from) \subseteq signed[orders'[n].from]
      BY <2>1, <2>4, OrderTyped DEF SignInv
    <2>6. \A q \in Workers : RequestSigned(req[q])'
      BY <2>1, <2>2, IdleOK DEF SignInv, RequestSigned
    <2> QED BY <2>1, <2>3, <2>5, <2>6 DEF SignInv
  <1>2. CASE req[p].doc # None
    <2> DEFINE e == [req[p].entity EXCEPT !.status = "converted", !.po = req[p].num]
    <2>1. req[p].doc \in Docs BY <1>2, Worker DEF RequestOK
    <2>2. /\ DOMAIN req' = Workers /\ \A q \in Workers \ {p} : req'[q] = req[q]
          /\ req'[p] = [req[p] EXCEPT !.pc = "reload", !.entity = e]
          /\ req[p].pc = "insert"
          /\ UNCHANGED <<row, orders, signed, answered, contended, calls>>
      BY <1>2, Worker DEF Insert
    <2>3. DocumentOK(req[p].doc, req[p].entity) BY <2>1, Worker DEF RequestOK
    <2>4. /\ DOMAIN e = DOMAIN req[p].entity /\ e["status"] = "converted"
          /\ e["chain"] = req[p].entity["chain"] /\ e["award"] = req[p].entity["award"]
      BY <2>1, <2>3, Fields DEF DocumentOK
    <2>5. DocumentOK(req[p].doc, e)
      BY <2>3, <2>4 DEF DocumentOK, Statuses, RequisitionStatus, RfqStatus
    <2> HIDE DEF e
    <2>6. /\ req'[p].doc = req[p].doc /\ req'[p].entity = e /\ req'[p].level = req[p].level
          /\ req'[p].num = req[p].num /\ req'[p].pc = "reload"
      BY <2>2, Worker
    <2>7. RequestOK(req'[p]) BY <2>1, <2>2, <2>5, Worker DEF RequestOK, Idle
    <2>8. RequestSigned(req[p])' BY <2>2, <2>4, <2>6, Worker DEF RequestSigned, SignedIn
    <2> QED BY <2>2, <2>7, <2>8, OneWorker
  <1> QED BY <1>1, <1>2

LEMMA QuoteSaved == ASSUME SignInv, NEW p \in Workers, SaveQuote(p) PROVE SignInv'
  <1> DEFINE d == req[p].doc
             s == req[p].supplier
             e == [req[p].entity EXCEPT !.status = "quotes_received"]
  <1>1. d \in Rfqs /\ d \in Docs /\ d \notin Requisitions /\ s \in Suppliers
    BY Worker, SourcingAssumption DEF SaveQuote, RequestOK, Docs
  <1>2. /\ DOMAIN row' = Docs /\ \A x \in Docs \ {d} : row'[x] = row[x]
        /\ row'[d] = [row[d] EXCEPT ![s] = "received"]
    BY <1>1 DEF SaveQuote, SignInv, ShapeInv
  <1>3. DocumentOK(d, row'[d])
    BY <1>1, <1>2, Rfq, SourcingAssumption DEF DocumentOK
  <1>4. DocumentOK(d, e)
    BY <1>1, Worker, Fields DEF RequestOK, DocumentOK, Statuses, RfqStatus
  <1> HIDE DEF e
  <1>5. /\ DOMAIN req' = Workers /\ \A q \in Workers \ {p} : req'[q] = req[q]
        /\ req'[p] = Idle \/ req'[p] = [req[p] EXCEPT !.pc = "reload", !.entity = e]
    BY Worker DEF SaveQuote, e
  <1>6. RequestOK(req'[p])
    BY <1>1, <1>4, <1>5, IdleOK, Worker DEF RequestOK, Idle
  <1>7. RequestSigned(req[p])'
    <2>1. CASE req'[p] = Idle BY <2>1, IdleOK DEF RequestSigned
    <2>2. CASE req'[p] # Idle
      <3>1. req'[p].doc = d BY <1>5, <2>2, Worker
      <3> QED BY <3>1, <1>1 DEF RequestSigned
    <2> QED BY <2>1, <2>2
  <1>8. \A q \in Workers : RequestOK(req'[q]) /\ RequestSigned(req[q])'
    BY <1>5, <1>6, <1>7 DEF SaveQuote, SignInv, ShapeInv, RequestSigned
  <1>9. answered' \in [Rfqs -> SUBSET Suppliers]
    BY <1>1 DEF SaveQuote, SignInv, ShapeInv
  <1>10. ShapeInv'
    BY <1>2, <1>3, <1>5, <1>8, <1>9 DEF SaveQuote, SignInv, ShapeInv
  <1>11. \A x \in Requisitions : row'[x] = row[x]
    BY <1>1, <1>2 DEF Docs
  <1> QED BY <1>8, <1>10, <1>11 DEF SaveQuote, SignInv

(***************************************************************************)
(* The UPDATE writes only what differs, so the row mixes fields of two     *)
(* objects; each carries its own signatures.                               *)
(***************************************************************************)
LEMMA Written == ASSUME SignInv, NEW p \in Workers, Write(p) PROVE SignInv'
  <1> DEFINE r == req[p]
             d == r.doc
             new == [f \in DOMAIN row[d] |->
                        IF f \in r.ask THEN "pending"
                        ELSE IF f \in r.dirty THEN r.entity[f] ELSE row[d][f]]
  <1>1. d \in Docs /\ DocumentOK(d, row[d]) /\ DocumentOK(d, r.entity)
    BY Worker DEF Write, RequestOK, SignInv, ShapeInv
  <1>2. /\ DOMAIN row' = Docs /\ \A x \in Docs \ {d} : row'[x] = row[x]
        /\ row'[d] = new
    BY <1>1 DEF Write, SignInv, ShapeInv
  <1>3. DOMAIN new = DOMAIN row[d] OBVIOUS
  <1>4. ASSUME NEW f \in DOMAIN row[d], f \notin Suppliers
        PROVE  new[f] = row[d][f] \/ new[f] = r.entity[f]
    BY <1>4, Worker DEF RequestOK
  <1>5. /\ "status" \in DOMAIN row[d] /\ "status" \notin Suppliers
        /\ d \in Requisitions => "chain" \in DOMAIN row[d] /\ "chain" \notin Suppliers
        /\ d \in Rfqs => "award" \in DOMAIN row[d] /\ "award" \notin Suppliers
    BY <1>1, Fields, SourcingAssumption DEF DocumentOK
  <1>6. /\ new["status"] \in {row[d]["status"], r.entity["status"]}
        /\ d \in Requisitions => new["chain"] \in {row[d]["chain"], r.entity["chain"]}
        /\ d \in Rfqs => new["award"] \in {row[d]["award"], r.entity["award"]}
    BY <1>4, <1>5
  <1> HIDE DEF new
  <1>7. DocumentOK(d, new) BY <1>1, <1>3, <1>6 DEF DocumentOK
  <1>8. /\ DOMAIN signed' = Requisitions
        /\ \A x \in Requisitions : /\ signed[x] \subseteq signed'[x]
                                    /\ signed'[x] \subseteq Levels(x)
        /\ d \in Requisitions => signed'[d] = signed[d] \cup ({r.level} \ {0})
    BY Worker DEF Write, SignInv, ShapeInv, RequestSigned
  <1>9. ASSUME d \in Requisitions PROVE SignedIn(d, new, signed'[d])
    <2>1. 0 \notin Levels(d) BY <1>9, LevelsAre
    <2>2. SignedIn(d, row[d], signed'[d]) BY <1>8, <1>9 DEF SignInv, SignedIn
    <2>3. SignedIn(d, r.entity, signed'[d])
      BY <1>8, <1>9, <2>1, Worker DEF RequestSigned, SignedIn
    <2> QED BY <1>6, <1>9, <2>2, <2>3 DEF SignedIn
  <1>10. \A x \in Requisitions : SignedIn(x, row'[x], signed'[x])
    BY <1>2, <1>8, <1>9 DEF SignInv, SignedIn, Docs
  <1>11. \A q \in Workers : req'[q] = IF q = p THEN Idle ELSE req[q]
    BY Worker DEF Write
  <1>12. \A q \in Workers : RequestSigned(req[q])'
    BY <1>8, <1>11, IdleOK DEF SignInv, RequestSigned, SignedIn
  <1>13. orders' \in Seq(OrderRecords) BY OrderTyped DEF Write
  <1>14. \A n \in DOMAIN orders' : orders'[n].from \in Requisitions =>
             Levels(orders'[n].from) \subseteq signed'[orders'[n].from]
    <2>1. CASE r.num = 0
      BY <1>8, <2>1 DEF Write, SignInv
    <2>2. CASE r.num # 0
      <3>1. orders' = Append(orders, Order(p)) BY <2>2 DEF Write
      <3>2. Order(p).from = d BY DEF Order
      <3>3. d \in Requisitions => Levels(d) \subseteq signed'[d]
        BY <1>8, <2>2, Worker DEF RequestSigned
      <3>4. \A m \in DOMAIN orders : orders[m].from \in Requisitions =>
               Levels(orders[m].from) \subseteq signed'[orders[m].from]
        BY <1>8 DEF SignInv
      <3> QED BY <3>1, <3>2, <3>3, <3>4, OrderTyped
    <2> QED BY <2>1, <2>2
  <1>15. ShapeInv'
    <2>1. \A x \in Docs : DocumentOK(x, row'[x]) BY <1>2, <1>7 DEF SignInv, ShapeInv
    <2>2. \A q \in Workers : RequestOK(req'[q]) BY <1>11, IdleOK DEF SignInv, ShapeInv
    <2> QED BY <1>2, <1>8, <1>13, <2>1, <2>2, Worker DEF Write, SignInv, ShapeInv
  <1> QED BY <1>10, <1>12, <1>14, <1>15 DEF SignInv

LEMMA SourcingNext == SignInv /\ [Next]_vars => SignInv'
  <1> SUFFICES ASSUME SignInv, [Next]_vars PROVE SignInv' OBVIOUS
  <1>1. ASSUME NEW p \in Workers, NEW d \in Requisitions,
               \/ Submit(p, d) \/ Approve(p, d) \/ RejectRequisition(p, d)
               \/ CancelRequisition(p, d) \/ ConvertRequisition(p, d)
        PROVE  SignInv'
    BY <1>1, RequisitionArrives
  <1>2. ASSUME NEW p \in Workers, NEW d \in Rfqs,
               \/ \E ask \in (SUBSET Suppliers) \ {{}} : SendRfq(p, d, ask)
               \/ \E s \in Suppliers : RecordQuote(p, d, s) \/ Award(p, d, s)
               \/ CancelRfq(p, d) \/ ConvertRfq(p, d)
        PROVE  SignInv'
    BY <1>2, RfqArrives
  <1>3. ASSUME NEW p \in Workers, CreateOrder(p) PROVE SignInv'
    <2> DEFINE r == [Idle EXCEPT !.pc = "number"]
    <2>1. RequestOK(r) BY SourcingAssumption DEF RequestOK, Idle, Docs
    <2>2. RequestSigned(r) BY SourcingAssumption DEF RequestSigned, Idle, Docs
    <2>3. Take(p, None, r) BY <1>3 DEF CreateOrder
    <2> HIDE DEF r
    <2> QED BY <2>1, <2>2, <2>3, Taken
  <1>4. ASSUME NEW p \in Workers, Refused(p) \/ ConnectionLost(p) PROVE SignInv'
    BY <1>4, Aborted DEF Refused, ConnectionLost
  <1>5. CASE Drained \/ UNCHANGED vars
    BY <1>5 DEF Drained, vars, SignInv, ShapeInv, RequestSigned
  <1> QED BY <1>1, <1>2, <1>3, <1>4, <1>5, QuoteSaved, QuoteChecked, Numbered, Inserted,
             Reloaded, Written DEF Next

-----------------------------------------------------------------------------
(***************************************************************************)
(* Documents keep their shape, in the table and in the memory of every     *)
(* request, whatever stale objects are saved over them.                    *)
(***************************************************************************)
THEOREM DocumentsTyped == Spec => []TypeOK
  <1>1. SignInv => TypeOK
    <2> SUFFICES ASSUME SignInv PROVE TypeOK OBVIOUS
    <2>1. \A n \in DOMAIN orders : orders[n].from \in Docs \cup {None}
      <3>1. orders \in Seq(OrderRecords) BY DEF SignInv, ShapeInv
      <3>2. \A n \in DOMAIN orders : orders[n] \in OrderRecords BY <3>1
      <3> QED BY <3>2 DEF OrderRecords
    <2>2. \A p \in Workers : req[p].entity # <<>> =>
             DOMAIN req[p].entity = DOMAIN NewRow(req[p].doc)
      BY DEF SignInv, ShapeInv, RequestOK, DocumentOK
    <2> QED BY <2>1, <2>2 DEF SignInv, ShapeInv, DocumentOK, TypeOK
  <1> QED BY SourcingInit, SourcingNext, <1>1, PTL DEF Spec

(***************************************************************************)
(* Nobody's approval is skipped: in every reachable state a requisition    *)
(* that is approved, converted or has a purchase order was signed at every *)
(* level of its chain (approveRequisition, convertRequisitionToPo).        *)
(***************************************************************************)
THEOREM NobodySkipped == Spec => []EveryLevelSigned
  <1>1. SignInv => EveryLevelSigned
    <2> SUFFICES ASSUME SignInv, NEW d \in Requisitions, Approved(d) \/ OrdersFrom(d) # {}
                 PROVE  signed[d] = Levels(d)
      BY DEF EveryLevelSigned
    <2>1. signed[d] \subseteq Levels(d) BY DEF SignInv, ShapeInv
    <2>2. CASE Approved(d) BY <2>1, <2>2 DEF Approved, SignInv, SignedIn
    <2>3. CASE OrdersFrom(d) # {} BY <2>1, <2>3 DEF OrdersFrom, SignInv
    <2> QED BY <2>2, <2>3
  <1> QED BY SourcingInit, SourcingNext, <1>1, PTL DEF Spec
-----------------------------------------------------------------------------
(***************************************************************************)
(* What orders, awards and numbers need besides: where the request that    *)
(* will write them stands.                                                 *)
(***************************************************************************)
\* What the answers to an RFQ say of an object of it: its quotes that were received
\* and its award are of suppliers that answered, and so is the supplier of its order.
RequestAnswered(r, answers) ==
    r.doc \in Rfqs =>
        /\ \A s \in Suppliers : r.entity[s] = "received" => s \in answers[r.doc]
        /\ \/ r.entity["award"] \in answers[r.doc] \cup {None}
           \/ r.pc = "check" /\ r.entity["award"] = r.supplier
        /\ r.pc \in {"number", "insert"} \/ r.num # 0 => r.supplier \in answers[r.doc]

RfqAnswered(d, e, answers) ==
    /\ \A s \in Suppliers : e[s] = "received" => s \in answers[d]
    /\ e["award"] \in answers[d] \cup {None}

\* A request that has inserted its order, in a transaction not committed.
HoldsNumber(r) == r.pc \in {"reload", "write"} /\ r.num # 0

\* A number is a count of the committed orders; a held one is the next still.
RequestNumbered(r, committed) ==
    /\ r.pc \in {"idle", "quote", "check", "number", "insert", "reload", "write"}
    /\ r.pc = "idle" => r.doc = None
    /\ r.pc \in {"idle", "quote", "check", "number"} => r.num = 0
    /\ r.pc = "insert" => r.num \in 1 .. Len(committed) + 1
    /\ r.pc \in {"reload", "write"} => r.num \in {0, Len(committed) + 1}

\* The only request on a document: nothing was converted before it converts.
RequestAlone(r, rows, hot) ==
    r.doc \in Docs \ hot =>
        /\ rows[r.doc]["status"] # "converted"
        /\ HoldsNumber(r) => r.entity["status"] = "converted" /\ r.entity["po"] = r.num
        /\ ~HoldsNumber(r) => r.entity["status"] # "converted" /\ r.entity["po"] = 0
        /\ r.pc = "write" /\ r.num # 0 => {"status", "po"} \subseteq r.dirty

\* What a document that nobody contended says of its orders.
Ordered(d, rows, committed) ==
    LET from == {n \in DOMAIN committed : committed[n].from = d}
    IN  IF rows[d]["status"] = "converted"
        THEN rows[d]["po"] \in DOMAIN committed /\ from = {rows[d]["po"]}
        ELSE rows[d]["po"] = 0 /\ from = {}

OrderInv ==
    /\ SignInv
    /\ \A d \in Rfqs : RfqAnswered(d, row[d], answered)
    /\ \A n \in DOMAIN orders : /\ orders[n].num = n
                                /\ orders[n].from \in Rfqs =>
                                       orders[n].supplier \in answered[orders[n].from]
    /\ \A d \in Docs \ contended : Ordered(d, row, orders)
    /\ \A p \in Workers : /\ RequestAnswered(req[p], answered)
                          /\ RequestNumbered(req[p], orders)
                          /\ RequestAlone(req[p], row, contended)
    /\ \A p, q \in Workers : p # q =>
           /\ ~(HoldsNumber(req[p]) /\ HoldsNumber(req[q]))
           /\ req[p].doc = req[q].doc => req[p].doc \notin Docs \ contended

LEMMA Documented ==
    ASSUME OrderInv, NEW d \in Docs
    PROVE  /\ {"status", "po"} \subseteq DOMAIN row[d] /\ DocumentOK(d, row[d])
           /\ d \in Rfqs => {"award"} \cup Suppliers \subseteq DOMAIN row[d]
           /\ "status" \notin Suppliers /\ "po" \notin Suppliers /\ "award" \notin Suppliers
  BY Fields, SourcingAssumption DEF OrderInv, SignInv, ShapeInv, DocumentOK

\* A step that gives one worker another request.
LEMMA OneSourced ==
    ASSUME OrderInv, SignInv', NEW p \in Workers, NEW r, req' = [req EXCEPT ![p] = r],
           UNCHANGED <<row, orders, answered>>, contended \subseteq contended',
           RequestAnswered(r, answered), RequestNumbered(r, orders),
           RequestAlone(r, row, contended'),
           HoldsNumber(r) => \A q \in Workers \ {p} : ~HoldsNumber(req[q]),
           \A q \in Workers \ {p} : req[q].doc = r.doc => r.doc \notin Docs \ contended'
    PROVE  OrderInv'
  <1>1. \A q \in Workers : req'[q] = IF q = p THEN r ELSE req[q]
    BY DEF OrderInv, SignInv, ShapeInv
  <1>2. \A q \in Workers : /\ RequestAnswered(req'[q], answered')
                           /\ RequestNumbered(req'[q], orders')
    BY <1>1 DEF OrderInv
  <1>3. \A q \in Workers : RequestAlone(req'[q], row', contended')
    BY <1>1 DEF OrderInv, RequestAlone
  <1>4. \A q, s \in Workers : q # s =>
            /\ ~(HoldsNumber(req'[q]) /\ HoldsNumber(req'[s]))
            /\ req'[q].doc = req'[s].doc => req'[q].doc \notin Docs \ contended'
    BY <1>1 DEF OrderInv
  <1>5. \A d \in Docs \ contended' : Ordered(d, row', orders') BY DEF OrderInv
  <1>6. \A d \in Rfqs : RfqAnswered(d, row'[d], answered') BY DEF OrderInv
  <1> QED BY <1>2, <1>3, <1>4, <1>5, <1>6 DEF OrderInv

LEMMA OrderInit == Init => OrderInv
  <1> SUFFICES ASSUME Init PROVE OrderInv OBVIOUS
  <1>1. SignInv BY SourcingInit
  <1>2. \A d \in Rfqs : RfqAnswered(d, row[d], answered)
    BY SourcingAssumption DEF Init, Docs, RfqAnswered, NewRow
  <1>3. DOMAIN orders = {} BY DEF Init
  <1>4. \A d \in Docs : row[d]["status"] = "draft" /\ row[d]["po"] = 0
    BY SourcingAssumption DEF Init, Docs, NewRow
  <1>5. \A d \in Docs : Ordered(d, row, orders) BY <1>3, <1>4 DEF Ordered
  <1>6. /\ RequestAnswered(Idle, answered) /\ RequestNumbered(Idle, orders)
        /\ RequestAlone(Idle, row, contended) /\ ~HoldsNumber(Idle) /\ Idle.doc \notin Docs
    BY SourcingAssumption DEF RequestAnswered, RequestNumbered, RequestAlone, HoldsNumber, Idle, Docs
  <1>7. \A p \in Workers : req[p] = Idle BY DEF Init
  <1> QED BY <1>1, <1>2, <1>3, <1>5, <1>6, <1>7 DEF OrderInv
-----------------------------------------------------------------------------
(* Requests arriving: none on a document that is converted already.        *)

LEMMA Arriving ==
    ASSUME OrderInv, SignInv', NEW p \in Workers, NEW d \in Docs, NEW e, NEW s, NEW n, NEW a,
           NEW c \in {"reload", "quote", "check", "number"},
           NEW r, r = [pc |-> c, doc |-> d, entity |-> e, dirty |-> {},
                       level |-> n, supplier |-> s, ask |-> a, num |-> 0],
           Take(p, d, r),
           row[d]["status"] # "converted", e["status"] # "converted", e["po"] = row[d]["po"],
           d \in Rfqs => /\ \A x \in Suppliers : e[x] = row[d][x]
                         /\ e["award"] = row[d]["award"] \/ (c = "check" /\ e["award"] = s)
                         /\ c = "number" => s \in answered[d]
    PROVE  OrderInv'
  <1>1. RequestAnswered(r, answered) BY DEF OrderInv, RfqAnswered, RequestAnswered
  <1>2. RequestNumbered(r, orders) /\ ~HoldsNumber(r) BY DEF RequestNumbered, HoldsNumber
  <1>3. contended \subseteq contended' BY DEF Take
  <1>4. RequestAlone(r, row, contended')
    <2>1. ASSUME d \notin contended' PROVE e["po"] = 0
      BY <1>3, <2>1 DEF OrderInv, Ordered
    <2> QED BY <1>2, <2>1 DEF RequestAlone
  <1>5. ASSUME NEW q \in Workers \ {p}, req[q].doc = d PROVE d \in contended'
    <2>1. Busy(q) BY <1>5, SourcingAssumption DEF OrderInv, RequestNumbered, Busy, Docs
    <2> QED BY <1>5, <2>1 DEF Take
  <1> QED BY <1>1, <1>2, <1>3, <1>4, <1>5, OneSourced DEF Take

LEMMA RequisitionTaken ==
    ASSUME OrderInv, SignInv', NEW p \in Workers, NEW d \in Requisitions,
           NEW chain, NEW s, s # "converted", NEW n, row[d]["status"] # "converted",
           Take(p, d, [Save(d, [row[d] EXCEPT !.chain = chain, !.status = s]) EXCEPT !.level = n])
    PROVE  OrderInv'
  <1> DEFINE e == [row[d] EXCEPT !.chain = chain, !.status = s]
             r == [Save(d, e) EXCEPT !.level = n]
  <1>1. r = [pc |-> "reload", doc |-> d, entity |-> e, dirty |-> {},
             level |-> n, supplier |-> None, ask |-> {}, num |-> 0]
    BY SaveLevel
  <1>2. d \in Docs /\ d \notin Rfqs BY SourcingAssumption DEF Docs
  <1>3. e["status"] = s /\ e["po"] = row[d]["po"] BY <1>2, Documented
  <1>4. Take(p, d, r) OBVIOUS
  <1> HIDE DEF e, r
  <1> QED BY <1>1, <1>2, <1>3, <1>4, Arriving

LEMMA RequisitionSourced ==
    ASSUME OrderInv, SignInv', NEW p \in Workers, NEW d \in Requisitions,
           Submit(p, d) \/ Approve(p, d) \/ RejectRequisition(p, d)
             \/ CancelRequisition(p, d) \/ ConvertRequisition(p, d)
    PROVE  OrderInv'
  <1>0. SignInv /\ d \in Docs /\ d \notin Rfqs BY SourcingAssumption DEF OrderInv, Docs
  <1>1. ASSUME NEW s, s # "converted", row[d].status # "converted",
               Take(p, d, Save(d, [row[d] EXCEPT !.status = s]))
        PROVE  OrderInv'
    <2> DEFINE e == [row[d] EXCEPT !.status = s]
               r == Save(d, e)
    <2>1. r = [pc |-> "reload", doc |-> d, entity |-> e, dirty |-> {},
               level |-> 0, supplier |-> None, ask |-> {}, num |-> 0]
      BY SaveIs
    <2>2. e["status"] = s /\ e["po"] = row[d]["po"] BY <1>0, Documented
    <2>3. Take(p, d, r) BY <1>1
    <2> HIDE DEF e, r
    <2> QED BY <1>0, <1>1, <2>1, <2>2, <2>3, Arriving
  <1>2. CASE Submit(p, d) BY <1>1, <1>2 DEF Submit, CanRequisition
  <1>3. CASE CancelRequisition(p, d) BY <1>1, <1>3 DEF CancelRequisition, CanRequisition
  <1>4. CASE RejectRequisition(p, d)
    <2> DEFINE n     == NextPending(row[d].chain)
               chain == IF n = 0 THEN row[d].chain
                        ELSE [row[d].chain EXCEPT ![n] = Step("rejected")]
               e     == [row[d] EXCEPT !.chain = chain, !.status = "rejected"]
    <2>1. Take(p, d, [Save(d, e) EXCEPT !.level = 0]) BY <1>4, LevelZero DEF RejectRequisition
    <2>2. row[d]["status"] # "converted" BY <1>4 DEF RejectRequisition, CanRequisition
    <2> HIDE DEF chain
    <2> QED BY <2>1, <2>2, RequisitionTaken
  <1>5. CASE Approve(p, d)
    <2> DEFINE n     == NextPending(row[d].chain)
               chain == [row[d].chain EXCEPT ![n] = Step("approved")]
               s     == IF Complete(chain) THEN "approved" ELSE row[d].status
               e     == [row[d] EXCEPT !.chain = chain, !.status = s]
    <2>1. Take(p, d, [Save(d, e) EXCEPT !.level = n])
      <3>1. DOMAIN row[d] = {"status", "chain", "po"} BY <1>0, Requisition
      <3> HIDE DEF chain, n
      <3>2. Take(p, d, [Save(d, [row[d] EXCEPT !.chain = chain,
                               !.status = IF Complete(chain) THEN "approved" ELSE @])
                      EXCEPT !.level = n])
        BY <1>5 DEF Approve, chain, n
      <3> QED BY <3>2
    <2>2. row[d]["status"] # "converted" BY <1>5 DEF Approve
    <2>3. s # "converted" BY <2>2
    <2> HIDE DEF chain, n, s
    <2> QED BY <2>1, <2>2, <2>3, RequisitionTaken
  <1>6. CASE ConvertRequisition(p, d)
    <2> DEFINE e == row[d]
               r == [Save(d, e) EXCEPT !.pc = "number"]
    <2>1. r = [pc |-> "number", doc |-> d, entity |-> e, dirty |-> {},
               level |-> 0, supplier |-> None, ask |-> {}, num |-> 0]
      BY SaveAt
    <2>2. Take(p, d, r) /\ row[d]["status"] = "approved" BY <1>6 DEF ConvertRequisition
    <2>3. e["status"] = "approved" /\ e["po"] = row[d]["po"] BY <2>2
    <2> HIDE DEF r, e
    <2> QED BY <1>0, <2>1, <2>2, <2>3, Arriving
  <1> QED BY <1>2, <1>3, <1>4, <1>5, <1>6

LEMMA RfqSourced ==
    ASSUME OrderInv, SignInv', NEW p \in Workers, NEW d \in Rfqs,
           \/ \E ask \in (SUBSET Suppliers) \ {{}} : SendRfq(p, d, ask)
           \/ \E s \in Suppliers : RecordQuote(p, d, s) \/ Award(p, d, s)
           \/ CancelRfq(p, d)
           \/ ConvertRfq(p, d)
    PROVE  OrderInv'
  <1>0. d \in Docs BY DEF Docs
  <1> USE <1>0, Documented
  <1>1. ASSUME NEW ask \in SUBSET Suppliers, SendRfq(p, d, ask) PROVE OrderInv'
    <2> DEFINE e == [row[d] EXCEPT !.status = "sent"]
               r == [Save(d, e) EXCEPT !.ask = ask]
    <2>1. Take(p, d, r) /\ row[d]["status"] # "converted" BY <1>1 DEF SendRfq, CanRfq
    <2>2. r = [pc |-> "reload", doc |-> d, entity |-> e, dirty |-> {},
               level |-> 0, supplier |-> None, ask |-> ask, num |-> 0]
      BY SaveAsk
    <2>3. /\ e["status"] = "sent" /\ e["po"] = row[d]["po"] /\ e["award"] = row[d]["award"]
          /\ \A x \in Suppliers : e[x] = row[d][x]
      OBVIOUS
    <2> HIDE DEF e, r
    <2> QED BY <2>1, <2>2, <2>3, Arriving
  <1>2. ASSUME NEW s \in Suppliers, RecordQuote(p, d, s) PROVE OrderInv'
    <2> DEFINE e == row[d]
               r == SaveFor(s, "quote", d, e)
    <2>1. Take(p, d, r) /\ row[d]["status"] # "converted" /\ e = row[d] BY <1>2 DEF RecordQuote
    <2>2. r = [pc |-> "quote", doc |-> d, entity |-> e, dirty |-> {},
               level |-> 0, supplier |-> s, ask |-> {}, num |-> 0]
      BY SaveForIs
    <2> HIDE DEF e, r
    <2> QED BY <2>1, <2>2, Arriving
  <1>3. ASSUME NEW s \in Suppliers, Award(p, d, s) PROVE OrderInv'
    <2> DEFINE e == [row[d] EXCEPT !.status = "awarded", !.award = s]
               r == SaveFor(s, "check", d, e)
    <2>1. Take(p, d, r) /\ row[d]["status"] # "converted" BY <1>3 DEF Award, CanRfq
    <2>2. r = [pc |-> "check", doc |-> d, entity |-> e, dirty |-> {},
               level |-> 0, supplier |-> s, ask |-> {}, num |-> 0]
      BY SaveForIs
    <2>3. /\ e["status"] = "awarded" /\ e["po"] = row[d]["po"] /\ e["award"] = s
          /\ \A x \in Suppliers : e[x] = row[d][x]
      OBVIOUS
    <2> HIDE DEF e, r
    <2> QED BY <2>1, <2>2, <2>3, Arriving
  <1>4. CASE CancelRfq(p, d)
    <2> DEFINE e == [row[d] EXCEPT !.status = "cancelled"]
               r == Save(d, e)
    <2>1. Take(p, d, r) /\ row[d]["status"] # "converted" BY <1>4 DEF CancelRfq, CanRfq
    <2>2. r = [pc |-> "reload", doc |-> d, entity |-> e, dirty |-> {},
               level |-> 0, supplier |-> None, ask |-> {}, num |-> 0]
      BY SaveIs
    <2>3. /\ e["status"] = "cancelled" /\ e["po"] = row[d]["po"] /\ e["award"] = row[d]["award"]
          /\ \A x \in Suppliers : e[x] = row[d][x]
      OBVIOUS
    <2> HIDE DEF e, r
    <2> QED BY <2>1, <2>2, <2>3, Arriving
  <1>5. CASE ConvertRfq(p, d)
    <2> DEFINE e == row[d]
               s == e["award"]
               r == SaveFor(s, "number", d, e)
    <2>1. Take(p, d, r) /\ row[d]["status"] = "awarded" /\ e = row[d] BY <1>5 DEF ConvertRfq
    <2>2. s \in answered[d] BY <1>5 DEF ConvertRfq, OrderInv, RfqAnswered
    <2>3. r = [pc |-> "number", doc |-> d, entity |-> e, dirty |-> {},
               level |-> 0, supplier |-> s, ask |-> {}, num |-> 0]
      BY SaveForIs
    <2> HIDE DEF e, s, r
    <2> QED BY <2>1, <2>2, <2>3, Arriving
  <1> QED BY <1>1, <1>2, <1>3, <1>4, <1>5
-----------------------------------------------------------------------------
(* The database calls.                                                     *)

LEMMA Stands ==
    ASSUME OrderInv, NEW p \in Workers
    PROVE  /\ RequestAnswered(req[p], answered) /\ RequestNumbered(req[p], orders)
           /\ RequestAlone(req[p], row, contended) /\ RequestOK(req[p])
           /\ \A q \in Workers \ {p} :
                  req[q].doc = req[p].doc => req[p].doc \notin Docs \ contended
           /\ DOMAIN req = Workers
           /\ DOMAIN req[p] = {"pc", "doc", "entity", "dirty", "level", "supplier", "ask", "num"}
  BY Worker DEF OrderInv

LEMMA IdleSourced ==
    ASSUME NEW rows, NEW hot, NEW answers, NEW committed
    PROVE  /\ RequestAnswered(Idle, answers) /\ RequestNumbered(Idle, committed)
           /\ RequestAlone(Idle, rows, hot) /\ ~HoldsNumber(Idle) /\ Idle.doc \notin Docs
  BY SourcingAssumption DEF RequestAnswered, RequestNumbered, RequestAlone, HoldsNumber, Idle, Docs

LEMMA AbortSourced ==
    ASSUME OrderInv, SignInv', NEW p \in Workers, Abort(p)
    PROVE  OrderInv'
  <1>1. req' = [req EXCEPT ![p] = Idle] /\ UNCHANGED <<row, orders, answered, contended>>
    BY DEF Abort
  <1> HIDE DEF Idle
  <1> QED BY <1>1, IdleSourced, OneSourced

LEMMA CheckSourced ==
    ASSUME OrderInv, SignInv', NEW p \in Workers, CheckQuote(p)
    PROVE  OrderInv'
  <1> DEFINE r == [req[p] EXCEPT !.pc = "reload"]
  <1>1. /\ req[p].pc = "check" /\ row[req[p].doc][req[p].supplier] = "received"
        /\ req' = [req EXCEPT ![p] = r] /\ UNCHANGED <<row, orders, answered, contended>>
    BY Stands DEF CheckQuote
  <1>2. /\ r.pc = "reload" /\ r.doc = req[p].doc /\ r.entity = req[p].entity
        /\ r.supplier = req[p].supplier /\ r.num = req[p].num /\ r.dirty = req[p].dirty
    BY Stands
  <1> HIDE DEF r
  <1>3. req[p].doc \in Rfqs /\ req[p].num = 0 BY <1>1, Stands DEF RequestOK, RequestNumbered
  <1>4. req[p].supplier \in answered[req[p].doc] \cup {None}
    BY <1>1, <1>3, Stands DEF OrderInv, RfqAnswered, RequestOK
  <1>5. RequestAnswered(r, answered) BY <1>2, <1>3, <1>4, Stands DEF RequestAnswered
  <1>6. RequestNumbered(r, orders) /\ ~HoldsNumber(r) BY <1>2, <1>3 DEF RequestNumbered, HoldsNumber
  <1>7. RequestAlone(r, row, contended')
    BY <1>1, <1>2, <1>3, Stands DEF RequestAlone, HoldsNumber
  <1> QED BY <1>1, <1>2, <1>5, <1>6, <1>7, Stands, OneSourced

LEMMA NumberSourced ==
    ASSUME OrderInv, SignInv', NEW p \in Workers, Number(p)
    PROVE  OrderInv'
  <1> DEFINE r == [req[p] EXCEPT !.pc = "insert", !.num = Len(orders) + 1]
  <1>1. /\ req[p].pc = "number"
        /\ req' = [req EXCEPT ![p] = r] /\ UNCHANGED <<row, orders, answered, contended>>
    BY Stands DEF Number
  <1>2. /\ r.pc = "insert" /\ r.doc = req[p].doc /\ r.entity = req[p].entity
        /\ r.supplier = req[p].supplier /\ r.num = Len(orders) + 1 /\ r.dirty = req[p].dirty
    BY Stands
  <1> HIDE DEF r
  <1>3. Len(orders) \in Nat BY DEF OrderInv, SignInv, ShapeInv
  <1>4. RequestAnswered(r, answered) BY <1>1, <1>2, Stands DEF RequestAnswered
  <1>5. RequestNumbered(r, orders) /\ ~HoldsNumber(r) /\ ~HoldsNumber(req[p])
    BY <1>1, <1>2, <1>3 DEF RequestNumbered, HoldsNumber
  <1>6. RequestAlone(r, row, contended') BY <1>1, <1>2, <1>5, Stands DEF RequestAlone
  <1> QED BY <1>1, <1>2, <1>4, <1>5, <1>6, Stands, OneSourced

\* The INSERT that the unique index lets through is of the next number, and no other
\* transaction holds it.
LEMMA InsertIsNext ==
    ASSUME OrderInv, NEW p \in Workers, req[p].pc = "insert", ~NumberHeld(p), ~NumberTaken(p)
    PROVE  req[p].num = Len(orders) + 1 /\ \A q \in Workers \ {p} : ~HoldsNumber(req[q])
  <1>1. Len(orders) \in Nat /\ DOMAIN orders = 1 .. Len(orders)
    BY DEF OrderInv, SignInv, ShapeInv
  <1>2. \A n \in 1 .. Len(orders) : orders[n].num = n BY <1>1 DEF OrderInv
  <1>3. req[p].num \in 1 .. Len(orders) + 1 BY Stands DEF RequestNumbered
  <1>4. req[p].num \notin 1 .. Len(orders) BY <1>1, <1>2 DEF NumberTaken
  <1>5. req[p].num = Len(orders) + 1 BY <1>1, <1>3, <1>4
  <1>6. ASSUME NEW q \in Workers \ {p}, HoldsNumber(req[q]) PROVE FALSE
    <2>1. req[q].num = Len(orders) + 1 BY <1>6, Stands DEF RequestNumbered, HoldsNumber
    <2> QED BY <1>5, <1>6, <2>1 DEF NumberHeld, HoldsNumber
  <1> QED BY <1>5, <1>6

\* The COMMIT of an order.
LEMMA OrderCommitted ==
    ASSUME OrderInv, NEW p \in Workers, req[p].num = Len(orders) + 1,
           \A q \in Workers \ {p} : ~HoldsNumber(req[q]),
           orders' = Append(orders, Order(p)), answered' = answered,
           req[p].doc \in Rfqs => req[p].supplier \in answered[req[p].doc]
    PROVE  /\ \A n \in DOMAIN orders' : /\ orders'[n].num = n
                                        /\ orders'[n].from \in Rfqs =>
                                             orders'[n].supplier \in answered'[orders'[n].from]
           /\ \A q \in Workers \ {p} : RequestNumbered(req[q], orders')
           /\ \A d \in Docs : {n \in DOMAIN orders' : orders'[n].from = d} =
                  {n \in DOMAIN orders : orders[n].from = d}
                      \cup (IF d = req[p].doc THEN {req[p].num} ELSE {})
           /\ DOMAIN orders \subseteq DOMAIN orders' /\ req[p].num \in DOMAIN orders'
  <1> DEFINE k == Len(orders)
             o == Order(p)
  <1>1. o \in OrderRecords /\ orders \in Seq(OrderRecords) BY OrderTyped DEF OrderInv
  <1>2. k \in Nat /\ DOMAIN orders = 1 .. k BY <1>1
  <1>3. /\ DOMAIN orders' = 1 .. k + 1 /\ Len(orders') = k + 1
        /\ \A n \in 1 .. k : orders'[n] = orders[n]
        /\ orders'[k + 1] = o
    <2> HIDE DEF o
    <2>1. orders' = Append(orders, o) BY DEF o
    <2>2. /\ Append(orders, o) \in Seq(OrderRecords) /\ Len(Append(orders, o)) = k + 1
          /\ \A n \in 1 .. k : Append(orders, o)[n] = orders[n]
          /\ Append(orders, o)[k + 1] = o
      BY <1>1, AppendProperties
    <2>3. DOMAIN Append(orders, o) = 1 .. Len(Append(orders, o)) BY <2>2
    <2> QED BY <2>1, <2>2, <2>3
  <1>4. o.num = k + 1 /\ o.from = req[p].doc /\ o.supplier = req[p].supplier BY DEF Order
  <1> HIDE DEF k, o
  <1>5. \A n \in 1 .. k : /\ orders[n].num = n
                          /\ orders[n].from \in Rfqs =>
                                 orders[n].supplier \in answered[orders[n].from]
    BY <1>2 DEF OrderInv
  <1>6. ASSUME NEW n \in DOMAIN orders'
        PROVE  /\ orders'[n].num = n
               /\ orders'[n].from \in Rfqs => orders'[n].supplier \in answered'[orders'[n].from]
    <2>1. CASE n \in 1 .. k BY <1>3, <1>5, <2>1
    <2>2. CASE n = k + 1 BY <1>3, <1>4, <2>2
    <2> QED BY <1>2, <1>3, <2>1, <2>2
  <1>7. ASSUME NEW q \in Workers \ {p} PROVE RequestNumbered(req[q], orders')
    <2>1. RequestNumbered(req[q], orders) BY Stands
    <2>2. Len(orders) = k BY DEF k
    <2>3. req[q].pc \in {"reload", "write"} => req[q].num = 0 BY DEF HoldsNumber
    <2>4. req[q].pc = "insert" => req[q].num \in 1 .. Len(orders') + 1
      BY <1>2, <1>3, <2>1, <2>2 DEF RequestNumbered
    <2> QED BY <2>1, <2>3, <2>4 DEF RequestNumbered
  <1>8. ASSUME NEW d \in Docs
        PROVE  {n \in DOMAIN orders' : orders'[n].from = d} =
                  {n \in DOMAIN orders : orders[n].from = d}
                      \cup (IF d = req[p].doc THEN {req[p].num} ELSE {})
    <2>1. req[p].num = k + 1 BY DEF k
    <2>2. \A n : n \in 1 .. k + 1 <=> n \in 1 .. k \/ n = k + 1 BY <1>2
    <2>3. k + 1 \notin 1 .. k BY <1>2
    <2> QED BY <1>2, <1>3, <1>4, <2>1, <2>2, <2>3
  <1>9. DOMAIN orders \subseteq DOMAIN orders' /\ req[p].num \in DOMAIN orders'
    BY <1>2, <1>3 DEF k
  <1> QED BY <1>6, <1>7, <1>8, <1>9

LEMMA InsertSourced ==
    ASSUME OrderInv, SignInv', NEW p \in Workers, Insert(p)
    PROVE  OrderInv'
  <1>1. /\ req[p].pc = "insert" /\ req[p].num = Len(orders) + 1
        /\ \A q \in Workers \ {p} : ~HoldsNumber(req[q])
    BY InsertIsNext DEF Insert
  <1>2. UNCHANGED <<row, answered, contended>> BY DEF Insert
  <1>3. CASE req[p].doc = None
    <2>1. req[p].doc \notin Docs /\ req[p].doc \notin Rfqs BY <1>3, SourcingAssumption DEF Docs
    <2>2. orders' = Append(orders, Order(p)) /\ req' = [req EXCEPT ![p] = Idle]
      BY <1>3 DEF Insert
    <2>3. /\ \A n \in DOMAIN orders' : /\ orders'[n].num = n
                                       /\ orders'[n].from \in Rfqs =>
                                            orders'[n].supplier \in answered'[orders'[n].from]
          /\ \A q \in Workers \ {p} : RequestNumbered(req[q], orders')
          /\ \A d \in Docs : {n \in DOMAIN orders' : orders'[n].from = d} =
                 {n \in DOMAIN orders : orders[n].from = d}
                     \cup (IF d = req[p].doc THEN {req[p].num} ELSE {})
          /\ DOMAIN orders \subseteq DOMAIN orders'
      BY <1>1, <1>2, <2>1, <2>2, OrderCommitted
    <2>4. \A d \in Docs \ contended : Ordered(d, row', orders')
      <3> SUFFICES ASSUME NEW d \in Docs \ contended PROVE Ordered(d, row', orders') OBVIOUS
      <3>1. Ordered(d, row, orders) BY DEF OrderInv
      <3>2. {n \in DOMAIN orders' : orders'[n].from = d} = {n \in DOMAIN orders : orders[n].from = d}
        BY <2>1, <2>3
      <3> QED BY <1>2, <2>3, <3>1, <3>2 DEF Ordered
    <2>5. \A q \in Workers : req'[q] = IF q = p THEN Idle ELSE req[q] BY <2>2, Stands
    <2>6. /\ RequestAnswered(Idle, answered) /\ RequestNumbered(Idle, orders')
          /\ RequestAlone(Idle, row, contended) /\ ~HoldsNumber(Idle) /\ Idle.doc \notin Docs
      BY IdleSourced
    <2> HIDE DEF Idle
    <2>7. \A q \in Workers : /\ RequestAnswered(req'[q], answered')
                             /\ RequestNumbered(req'[q], orders')
                             /\ RequestAlone(req'[q], row', contended')
      BY <1>2, <2>3, <2>5, <2>6 DEF OrderInv
    <2>8. \A q, s \in Workers : q # s =>
              /\ ~(HoldsNumber(req'[q]) /\ HoldsNumber(req'[s]))
              /\ req'[q].doc = req'[s].doc => req'[q].doc \notin Docs \ contended'
      BY <1>2, <2>5, <2>6 DEF OrderInv
    <2> QED BY <1>2, <2>3, <2>4, <2>7, <2>8 DEF OrderInv
  <1>4. CASE req[p].doc # None
    <2> DEFINE e == [req[p].entity EXCEPT !.status = "converted", !.po = req[p].num]
               r == [req[p] EXCEPT !.pc = "reload", !.entity = e]
    <2>1. req' = [req EXCEPT ![p] = r] /\ orders' = orders
      BY <1>4, Stands DEF Insert
    <2>2. /\ r.pc = "reload" /\ r.doc = req[p].doc /\ r.entity = e
          /\ r.supplier = req[p].supplier /\ r.num = req[p].num /\ r.dirty = req[p].dirty
      BY Stands
    <2>3. req[p].doc \in Docs /\ DocumentOK(req[p].doc, req[p].entity)
      BY <1>4, Stands DEF RequestOK
    <2>4. /\ e["status"] = "converted" /\ e["po"] = req[p].num
          /\ req[p].doc \in Rfqs => /\ e["award"] = req[p].entity["award"]
                                    /\ \A s \in Suppliers : e[s] = req[p].entity[s]
      BY <2>3, Fields, SourcingAssumption DEF DocumentOK
    <2> HIDE DEF e, r
    <2>5. RequestAnswered(r, answered) BY <1>1, <2>2, <2>4, Stands DEF RequestAnswered
    <2>6. RequestNumbered(r, orders) BY <1>1, <2>2 DEF RequestNumbered
    <2>7. HoldsNumber(r)
      <3>1. Len(orders) \in Nat BY DEF OrderInv, SignInv, ShapeInv
      <3> QED BY <1>1, <2>2, <3>1 DEF HoldsNumber
    <2>8. RequestAlone(r, row, contended') BY <1>2, <2>2, <2>4, <2>7, Stands DEF RequestAlone
    <2> QED BY <1>1, <1>2, <2>1, <2>2, <2>5, <2>6, <2>8, Stands, OneSourced
  <1> QED BY <1>3, <1>4

LEMMA ReloadSourced ==
    ASSUME OrderInv, SignInv', NEW p \in Workers, Reload(p)
    PROVE  OrderInv'
  <1> DEFINE dirty == {f \in DOMAIN req[p].entity : req[p].entity[f] # row[req[p].doc][f]}
             r     == [req[p] EXCEPT !.pc = "write", !.dirty = dirty]
  <1>1. /\ req[p].pc = "reload" /\ req' = [req EXCEPT ![p] = r]
        /\ UNCHANGED <<row, orders, answered, contended>>
    BY Stands DEF Reload
  <1>2. /\ r.pc = "write" /\ r.doc = req[p].doc /\ r.entity = req[p].entity
        /\ r.supplier = req[p].supplier /\ r.num = req[p].num /\ r.dirty = dirty
    BY Stands
  <1>3. req[p].doc \in Docs /\ {"status", "po"} \subseteq DOMAIN req[p].entity
    BY <1>1, Fields, Stands DEF RequestOK, DocumentOK
  <1>4. ASSUME req[p].doc \in Docs \ contended, req[p].num # 0 PROVE {"status", "po"} \subseteq dirty
    <2>1. HoldsNumber(req[p]) BY <1>1, <1>4 DEF HoldsNumber
    <2>2. /\ row[req[p].doc]["status"] # "converted" /\ req[p].entity["status"] = "converted"
          /\ req[p].entity["po"] = req[p].num
      BY <1>4, <2>1, Stands DEF RequestAlone
    <2>3. row[req[p].doc]["po"] = 0 BY <1>4, <2>2 DEF OrderInv, Ordered
    <2> QED BY <1>3, <1>4, <2>2, <2>3
  <1> HIDE DEF dirty, r
  <1>5. RequestAnswered(r, answered) BY <1>1, <1>2, Stands DEF RequestAnswered
  <1>6. RequestNumbered(r, orders) BY <1>1, <1>2, Stands DEF RequestNumbered
  <1>7. HoldsNumber(r) <=> HoldsNumber(req[p]) BY <1>1, <1>2 DEF HoldsNumber
  <1>8. RequestAlone(r, row, contended') BY <1>1, <1>2, <1>4, <1>7, Stands DEF RequestAlone
  <1>9. HoldsNumber(r) => \A q \in Workers \ {p} : ~HoldsNumber(req[q]) BY <1>7 DEF OrderInv
  <1> QED BY <1>1, <1>2, <1>5, <1>6, <1>8, <1>9, Stands, OneSourced

LEMMA QuoteSourced ==
    ASSUME OrderInv, SignInv', NEW p \in Workers, SaveQuote(p)
    PROVE  OrderInv'
  <1> DEFINE d == req[p].doc
             s == req[p].supplier
             e == [req[p].entity EXCEPT !.status = "quotes_received"]
             r == req'[p]
  <1>1. d \in Rfqs /\ d \in Docs /\ s \in Suppliers /\ req[p].pc = "quote" /\ req[p].num = 0
    BY Stands DEF SaveQuote, RequestOK, RequestNumbered, Docs
  <1>2. /\ \A x \in Docs \ {d} : row'[x] = row[x]
        /\ row'[d] = [row[d] EXCEPT ![s] = "received"]
        /\ \A x \in Rfqs \ {d} : answered'[x] = answered[x]
        /\ answered'[d] = answered[d] \cup {s}
        /\ UNCHANGED <<orders, contended>>
    BY <1>1 DEF SaveQuote, OrderInv, SignInv, ShapeInv
  <1>3. /\ \A f \in DOMAIN row[d] \ {s} : row'[d][f] = row[d][f]
        /\ row'[d][s] = "received"
        /\ row'[d]["status"] = row[d]["status"] /\ row'[d]["po"] = row[d]["po"]
        /\ row'[d]["award"] = row[d]["award"]
    BY <1>1, <1>2, Documented
  <1>4. DocumentOK(d, req[p].entity) BY <1>1, Stands DEF RequestOK
  <1>5. /\ e["status"] = "quotes_received" /\ e["po"] = req[p].entity["po"]
        /\ e["award"] = req[p].entity["award"]
        /\ \A x \in Suppliers : e[x] = req[p].entity[x]
    BY <1>1, <1>4, Fields, SourcingAssumption DEF DocumentOK
  <1>6. /\ DOMAIN req' = Workers /\ \A q \in Workers \ {p} : req'[q] = req[q]
        /\ req'[p] = Idle \/ req'[p] = [req[p] EXCEPT !.pc = "reload", !.entity = e]
    BY Stands DEF SaveQuote
  <1> HIDE DEF e
  <1>7. \A x \in Rfqs : answered[x] \subseteq answered'[x] BY <1>2
  <1>8. \A x \in Docs : row'[x]["status"] = row[x]["status"] /\ row'[x]["po"] = row[x]["po"]
    BY <1>2, <1>3
  <1>9. /\ RequestAnswered(r, answered') /\ RequestNumbered(r, orders')
        /\ RequestAlone(r, row', contended') /\ ~HoldsNumber(r)
        /\ r.doc = req[p].doc \/ r.doc \notin Docs
    <2>1. CASE r = Idle BY <2>1, IdleSourced
    <2>2. CASE r = [req[p] EXCEPT !.pc = "reload", !.entity = e]
      <3>1. r.pc = "reload" /\ r.doc = d /\ r.entity = e /\ r.num = 0 BY <1>1, <2>2, Stands
      <3> HIDE DEF r
      <3>2. RequestNumbered(r, orders') /\ ~HoldsNumber(r) BY <3>1 DEF RequestNumbered, HoldsNumber
      <3>3. RequestAnswered(r, answered')
        BY <1>1, <1>5, <1>7, <3>1, Stands DEF RequestAnswered
      <3>4. RequestAlone(r, row', contended')
        BY <1>1, <1>2, <1>5, <1>8, <3>1, <3>2, Stands DEF RequestAlone, HoldsNumber
      <3> QED BY <3>1, <3>2, <3>3, <3>4
    <2> QED BY <1>6, <2>1, <2>2
  <1>10. \A q \in Workers \ {p} : /\ RequestAnswered(req'[q], answered')
                                  /\ RequestNumbered(req'[q], orders')
                                  /\ RequestAlone(req'[q], row', contended')
    BY <1>2, <1>6, <1>7, <1>8, Stands DEF RequestAnswered, RequestAlone
  <1>11. \A x \in Rfqs : RfqAnswered(x, row'[x], answered')
    <2>1. RfqAnswered(d, row'[d], answered')
      BY <1>1, <1>2, <1>3, Documented DEF OrderInv, RfqAnswered
    <2> QED BY <1>2, <2>1 DEF OrderInv, RfqAnswered, Docs
  <1>12. \A x \in Docs \ contended' : Ordered(x, row', orders')
    BY <1>2, <1>8 DEF OrderInv, Ordered
  <1>13. \A n \in DOMAIN orders' : /\ orders'[n].num = n
                                   /\ orders'[n].from \in Rfqs =>
                                        orders'[n].supplier \in answered'[orders'[n].from]
    BY <1>2, <1>7 DEF OrderInv
  <1>14. \A q, t \in Workers : q # t =>
            /\ ~(HoldsNumber(req'[q]) /\ HoldsNumber(req'[t]))
            /\ req'[q].doc = req'[t].doc => req'[q].doc \notin Docs \ contended'
    BY <1>2, <1>6, <1>9 DEF OrderInv
  <1> QED BY <1>9, <1>10, <1>11, <1>12, <1>13, <1>14 DEF OrderInv

\* The UPDATE mixes two objects, but not of a document that one request has: there it
\* writes status and number of the order together, with the order's COMMIT.
LEMMA WriteSourced ==
    ASSUME OrderInv, SignInv', NEW p \in Workers, Write(p)
    PROVE  OrderInv'
  <1> DEFINE r == req[p]
             d == r.doc
             new == [f \in DOMAIN row[d] |->
                        IF f \in r.ask THEN "pending"
                        ELSE IF f \in r.dirty THEN r.entity[f] ELSE row[d][f]]
  <1>1. r.pc = "write" /\ d \in Docs /\ r.ask \subseteq Suppliers
    BY Stands DEF Write, RequestOK
  <1>2. /\ \A x \in Docs \ {d} : row'[x] = row[x]
        /\ row'[d] = new
        /\ UNCHANGED <<answered, contended>> /\ req' = [req EXCEPT ![p] = Idle]
    BY <1>1 DEF Write, OrderInv, SignInv, ShapeInv
  <1>3. /\ \A f \in {"status", "po"} : f \in DOMAIN row[d] /\ f \notin r.ask
        /\ d \in Rfqs => "award" \in DOMAIN row[d] /\ "award" \notin r.ask
                         /\ Suppliers \subseteq DOMAIN row[d]
    BY <1>1, Documented
  <1>4. /\ \A f \in {"status", "po"} : new[f] = IF f \in r.dirty THEN r.entity[f] ELSE row[d][f]
        /\ d \in Rfqs => /\ new["award"] = IF "award" \in r.dirty THEN r.entity["award"]
                                           ELSE row[d]["award"]
                         /\ \A s \in Suppliers : new[s] \in {"pending", r.entity[s], row[d][s]}
    BY <1>3
  <1> HIDE DEF new
  <1>5. \A q \in Workers : req'[q] = IF q = p THEN Idle ELSE req[q] BY <1>2, Stands
  <1>6. /\ RequestAnswered(Idle, answered) /\ RequestNumbered(Idle, orders')
        /\ RequestAlone(Idle, row', contended) /\ ~HoldsNumber(Idle) /\ Idle.doc \notin Docs
    BY IdleSourced
  <1> HIDE DEF Idle
  <1>7. ASSUME NEW x \in Rfqs PROVE RfqAnswered(x, row'[x], answered')
    <2>1. CASE x # d BY <1>2, <1>7, <2>1 DEF OrderInv, Docs
    <2>2. CASE x = d
      <3>1. RfqAnswered(d, row[d], answered) BY <1>7, <2>2 DEF OrderInv
      <3>2. /\ \A s \in Suppliers : r.entity[s] = "received" => s \in answered[d]
            /\ r.entity["award"] \in answered[d] \cup {None}
        BY <1>1, <1>7, <2>2, Stands DEF RequestAnswered
      <3> QED BY <1>2, <1>4, <1>7, <2>2, <3>1, <3>2 DEF RfqAnswered
    <2> QED BY <2>1, <2>2
  <1>8. \A q \in Workers \ {p} : /\ RequestAnswered(req'[q], answered')
                                 /\ RequestAlone(req'[q], row', contended')
    <2> SUFFICES ASSUME NEW q \in Workers \ {p}
                 PROVE  RequestAnswered(req[q], answered) /\ RequestAlone(req[q], row', contended)
      BY <1>2, <1>5
    <2>1. req[q].doc \in Docs \ contended => req[q].doc # d BY Stands
    <2> QED BY <1>2, <2>1, Stands DEF RequestAlone
  <1>9. \A q, s \in Workers : q # s =>
            /\ ~(HoldsNumber(req'[q]) /\ HoldsNumber(req'[s]))
            /\ req'[q].doc = req'[s].doc => req'[q].doc \notin Docs \ contended'
    BY <1>2, <1>5, <1>6 DEF OrderInv
  <1>10. CASE r.num = 0
    <2>1. orders' = orders BY <1>10 DEF Write
    <2>2. ASSUME NEW x \in Docs \ contended PROVE Ordered(x, row', orders')
      <3>1. Ordered(x, row, orders) BY DEF OrderInv
      <3>2. CASE x # d BY <1>2, <2>1, <3>1, <3>2 DEF Ordered
      <3>3. CASE x = d
        <4>1. /\ row[d]["status"] # "converted" /\ r.entity["status"] # "converted"
              /\ r.entity["po"] = 0
          BY <1>10, <3>3, Stands DEF RequestAlone, HoldsNumber
        <4>2. row[d]["po"] = 0 /\ {n \in DOMAIN orders : orders[n].from = d} = {}
          BY <3>1, <3>3, <4>1 DEF Ordered
        <4>3. row'[d]["status"] # "converted" /\ row'[d]["po"] = 0
          BY <1>2, <1>4, <4>1, <4>2
        <4> QED BY <2>1, <3>3, <4>2, <4>3 DEF Ordered
      <3> QED BY <3>2, <3>3
    <2>3. \A q \in Workers : /\ RequestAnswered(req'[q], answered')
                             /\ RequestNumbered(req'[q], orders')
                             /\ RequestAlone(req'[q], row', contended')
      BY <1>2, <1>5, <1>6, <1>8, <2>1 DEF OrderInv
    <2> QED BY <1>2, <1>7, <1>9, <2>1, <2>2, <2>3 DEF OrderInv
  <1>11. CASE r.num # 0
    <2>1. orders' = Append(orders, Order(p)) BY <1>11 DEF Write
    <2>2. HoldsNumber(r) BY <1>1, <1>11 DEF HoldsNumber
    <2>3. r.num = Len(orders) + 1 BY <1>1, <1>11, Stands DEF RequestNumbered
    <2>4. \A q \in Workers \ {p} : ~HoldsNumber(req[q]) BY <2>2 DEF OrderInv
    <2>5. d \in Rfqs => r.supplier \in answered[d] BY <1>11, Stands DEF RequestAnswered
    <2>6. /\ \A n \in DOMAIN orders' : /\ orders'[n].num = n
                                       /\ orders'[n].from \in Rfqs =>
                                            orders'[n].supplier \in answered'[orders'[n].from]
          /\ \A q \in Workers \ {p} : RequestNumbered(req[q], orders')
          /\ \A x \in Docs : {n \in DOMAIN orders' : orders'[n].from = x} =
                 {n \in DOMAIN orders : orders[n].from = x}
                     \cup (IF x = d THEN {r.num} ELSE {})
          /\ DOMAIN orders \subseteq DOMAIN orders' /\ r.num \in DOMAIN orders'
      BY <1>2, <2>1, <2>3, <2>4, <2>5, OrderCommitted
    <2>7. ASSUME NEW x \in Docs \ contended PROVE Ordered(x, row', orders')
      <3>1. Ordered(x, row, orders) BY DEF OrderInv
      <3>2. CASE x # d
        <4>1. {n \in DOMAIN orders' : orders'[n].from = x} = {n \in DOMAIN orders : orders[n].from = x}
          BY <2>6, <3>2
        <4> QED BY <1>2, <2>6, <3>1, <3>2, <4>1 DEF Ordered
      <3>3. CASE x = d
        <4>1. /\ row[d]["status"] # "converted" /\ r.entity["status"] = "converted"
              /\ r.entity["po"] = r.num /\ {"status", "po"} \subseteq r.dirty
          BY <1>1, <1>11, <2>2, <3>3, Stands DEF RequestAlone
        <4>2. {n \in DOMAIN orders : orders[n].from = d} = {}
          BY <3>1, <3>3, <4>1 DEF Ordered
        <4>3. {n \in DOMAIN orders' : orders'[n].from = d} = {r.num} BY <1>1, <2>6, <4>2
        <4>4. row'[d]["status"] = "converted" /\ row'[d]["po"] = r.num
          BY <1>2, <1>4, <4>1
        <4> QED BY <2>6, <3>3, <4>3, <4>4 DEF Ordered
      <3> QED BY <3>2, <3>3
    <2>8. \A q \in Workers : /\ RequestAnswered(req'[q], answered')
                             /\ RequestNumbered(req'[q], orders')
                             /\ RequestAlone(req'[q], row', contended')
      BY <1>2, <1>5, <1>6, <1>8, <2>6
    <2> QED BY <1>2, <1>7, <1>9, <2>6, <2>7, <2>8 DEF OrderInv
  <1> QED BY <1>10, <1>11

LEMMA OrderNext == OrderInv /\ [Next]_vars => OrderInv'
  <1> SUFFICES ASSUME OrderInv, [Next]_vars PROVE OrderInv' OBVIOUS
  <1>0. SignInv' BY SourcingNext DEF OrderInv
  <1>1. ASSUME NEW p \in Workers, NEW d \in Requisitions,
               \/ Submit(p, d) \/ Approve(p, d) \/ RejectRequisition(p, d)
               \/ CancelRequisition(p, d) \/ ConvertRequisition(p, d)
        PROVE  OrderInv'
    BY <1>0, <1>1, RequisitionSourced
  <1>2. ASSUME NEW p \in Workers, NEW d \in Rfqs,
               \/ \E ask \in (SUBSET Suppliers) \ {{}} : SendRfq(p, d, ask)
               \/ \E s \in Suppliers : RecordQuote(p, d, s) \/ Award(p, d, s)
               \/ CancelRfq(p, d) \/ ConvertRfq(p, d)
        PROVE  OrderInv'
    BY <1>0, <1>2, RfqSourced
  <1>3. ASSUME NEW p \in Workers, CreateOrder(p) PROVE OrderInv'
    <2> DEFINE r == [Idle EXCEPT !.pc = "number"]
    <2>1. r.pc = "number" /\ r.num = 0 /\ r.doc = None BY DEF Idle
    <2>2. req' = [req EXCEPT ![p] = r] /\ UNCHANGED <<row, orders, answered>>
          /\ contended \subseteq contended'
      BY <1>3 DEF CreateOrder, Take
    <2> HIDE DEF r
    <2>3. r.doc \notin Docs /\ r.doc \notin Rfqs BY <2>1, SourcingAssumption DEF Docs
    <2>4. /\ RequestAnswered(r, answered) /\ RequestNumbered(r, orders)
          /\ RequestAlone(r, row, contended') /\ ~HoldsNumber(r)
      BY <2>1, <2>3 DEF RequestAnswered, RequestNumbered, RequestAlone, HoldsNumber
    <2> QED BY <1>0, <2>2, <2>3, <2>4, OneSourced
  <1>4. ASSUME NEW p \in Workers, Refused(p) \/ ConnectionLost(p) PROVE OrderInv'
    BY <1>0, <1>4, AbortSourced DEF Refused, ConnectionLost
  <1>5. CASE Drained \/ UNCHANGED vars
    BY <1>0, <1>5 DEF Drained, vars, OrderInv
  <1> QED BY <1>0, <1>1, <1>2, <1>3, <1>4, <1>5, QuoteSourced, CheckSourced, NumberSourced,
             InsertSourced, ReloadSourced, WriteSourced DEF Next

(***************************************************************************)
(* An RFQ is awarded to, and ordered from, only a supplier whose quote was *)
(* committed, although awardRfq reads the quote after the RFQ and a stale  *)
(* save may put a quote back to pending.                                   *)
(***************************************************************************)
THEOREM AwardsAnswered == Spec => []AwardAnswered
  <1>1. OrderInv => AwardAnswered
    BY SourcingAssumption DEF OrderInv, AwardAnswered, RfqAnswered, OrdersFrom
  <1> QED BY OrderInit, OrderNext, <1>1, PTL DEF Spec

(***************************************************************************)
(* The count that nextPoNumber takes on another connection and the unique  *)
(* index that makes an INSERT wait yield 1, 2, 3, ..., however many        *)
(* requests count at once and whichever of them fail.                      *)
(***************************************************************************)
THEOREM OrdersNumbered == Spec => []NumbersConsecutive
  <1>1. OrderInv => NumbersConsecutive BY DEF OrderInv, NumbersConsecutive
  <1> QED BY OrderInit, OrderNext, <1>1, PTL DEF Spec

(***************************************************************************)
(* A document whose requests never overlapped has one purchase order when  *)
(* it is converted, the one it names, and none before, wherever a request  *)
(* was lost (convertRequisitionToPo, convertRfqToPo).                      *)
(***************************************************************************)
THEOREM OrderedOnce == Spec => []OneOrder
  <1>1. OrderInv => OneOrder
    <2> SUFFICES ASSUME OrderInv, NEW d \in Docs \ contended
                 PROVE  /\ Cardinality(OrdersFrom(d)) = IF row[d].status = "converted" THEN 1 ELSE 0
                        /\ {orders[n].num : n \in OrdersFrom(d)} = {row[d].po} \ {0}
      BY DEF OneOrder
    <2>1. Ordered(d, row, orders) BY DEF OrderInv
    <2>2. CASE row[d].status = "converted"
      <3> DEFINE k == row[d].po
      <3>1. OrdersFrom(d) = {k} /\ k \in DOMAIN orders BY <2>1, <2>2 DEF Ordered, OrdersFrom
      <3>2. orders[k].num = k BY <3>1 DEF OrderInv
      <3>3. k # 0
        <4>1. DOMAIN orders = 1 .. Len(orders) BY DEF OrderInv, SignInv, ShapeInv
        <4> QED BY <3>1, <4>1
      <3> HIDE DEF k
      <3>4. {orders[n].num : n \in OrdersFrom(d)} = {k} \ {0} BY <3>1, <3>2, <3>3
      <3>5. Cardinality(OrdersFrom(d)) = 1 BY <3>1, FS_Singleton
      <3> QED BY <2>2, <3>4, <3>5 DEF k
    <2>3. CASE row[d].status # "converted"
      <3>1. OrdersFrom(d) = {} /\ row[d].po = 0 BY <2>1, <2>3 DEF Ordered, OrdersFrom
      <3>2. Cardinality(OrdersFrom(d)) = 0 BY <3>1, FS_EmptySet
      <3> QED BY <2>3, <3>1, <3>2
    <2> QED BY <2>2, <2>3
  <1> QED BY OrderInit, OrderNext, <1>1, PTL DEF Spec
=============================================================================
