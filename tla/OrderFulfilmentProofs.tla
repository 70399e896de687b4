------------------------ MODULE OrderFulfilmentProofs ------------------------
(***************************************************************************)
(* Proofs about OrderFulfilment for every set of orders, lines, warehouses *)
(* and requests in flight, with overlaps and failures anywhere:            *)
(*                                                                         *)
(*   TypeSafe           never fewer goods on hand than none, nor less      *)
(*                      reserved, of rows no line gives back to            *)
(*   Refines            stock first, status second (OrderSaga)             *)
(*   EveryStatusBacked  what a status says of the stock has been done      *)
(*                                                                         *)
(* and, served one request at a time, with failures anywhere:              *)
(*                                                                         *)
(*   BooksKept          on-hand stock is what the movement log adds up to  *)
(*   OnceEach           every order has had its transactions once each     *)
(*   ReservedForOrders  what is reserved is what confirmed orders ask      *)
(*   RefinesLedger      each inventory transaction is one atomic call      *)
(***************************************************************************)
EXTENDS OrderAccounts, Sums

(***************************************************************************)
(* What a request in flight knows about itself. The line it is at exists,  *)
(* its warehouse has been picked, its effect is of the right sort for its  *)
(* reference, and the status it will save is one its order may have.       *)
(***************************************************************************)
AtLine == {"read", "reload", "write"}
InTransaction == {"connect", "read", "reload", "write", "commit"}

OrderRequest(r) ==
    /\ r.ref \in Orders
    /\ r.ref \in SalesOrders => r.to \in {"CONFIRMED", "SHIPPED", "CANCELLED"}
    /\ r.ref \in ProductionOrders => r.to \in ProductionStatus \ {"DRAFT"}
    /\ r.eff # "adjust"
    /\ r.pc # "save" => r.eff # "none"
    /\ r.pc \in InTransaction => r.wh \in Warehouses /\ Lines[r.ref] # <<>>

MovementRequest(r) ==
    /\ r.ref \in Movements
    /\ r.eff = "adjust"
    /\ r.pc \in InTransaction

RequestOK(r) ==
    /\ r.pc # "idle" => OrderRequest(r) \/ MovementRequest(r)
    /\ r.pc \in {"warehouse", "connect"} => r.line = 1
    /\ r.pc \in AtLine => r.line \in 1 .. Len(LinesOf(r.ref))

RequestsOK == \A p \in Workers : RequestOK(req[p])

TypeInv == Typed /\ RequestsOK

(***************************************************************************)
(* What the stock says of the orders and of the requests in flight: the    *)
(* effects an order's status, or a request about to save a status, stands  *)
(* for were committed, and so were those its own effect comes after.       *)
(***************************************************************************)
Done(a, o, kinds) == \A k \in kinds : a[o][k] > 0

RequestBacked(a, r) ==
    (r.pc # "idle" /\ r.ref \in Orders) =>
        /\ (r.eff # "none" /\ Lines[r.ref] # <<>>) => Done(a, r.ref, Saga!Causes(r.eff))
        /\ r.pc # "save" => Saga!Backing(r.ref, r.to) \subseteq Saga!Causes(r.eff) \cup {r.eff}
        /\ r.pc = "save" => Done(a, r.ref, Saga!Backing(r.ref, r.to))

NoLimbo == \A o \in SalesOrders : status[o] \notin {"PARTIALLY_SHIPPED", "INVOICED"}

StatusDone == \A o \in Orders : Done(applied, o, Saga!Backing(o, status[o]))

CausesDone == \A o \in Orders, k \in Kinds :
                  applied[o][k] > 0 => Done(applied, o, Saga!Causes(k))

RequestsBacked == \A p \in Workers : RequestBacked(applied, req[p])

SagaInv == TypeInv /\ NoLimbo /\ StatusDone /\ CausesDone /\ RequestsBacked

-----------------------------------------------------------------------------
(* The arithmetic of one line.                                             *)

\* What a line that passes its guard writes is again a row.
LEMMA RowSafe ==
    ASSUME NEW kind \in Kinds, NEW exists \in BOOLEAN, NEW r \in Row, NEW q \in Int,
           Accepts(kind, exists, r, q)
    PROVE  After(kind, r, q) \in Row
  <1>1. CASE kind = "reserve" BY <1>1 DEF After, Row
  <1>2. CASE kind = "release" BY <1>2 DEF After, Clamp, Row
  <1>3. CASE kind = "ship"    BY <1>3 DEF After, Accepts, Clamp, Row
  <1>4. CASE kind = "consume" BY <1>4 DEF After, Accepts, Row
  <1>5. CASE kind = "adjust"  BY <1>5 DEF After, Accepts, Row
  <1> QED BY <1>1, <1>2, <1>3, <1>4, <1>5 DEF Kinds

\* Mixing the columns of two rows gives a row.
LEMMA MixedRow ==
    ASSUME NEW a \in Row, NEW b \in Row, NEW cols \in SUBSET Columns
    PROVE  Overwrite(a, b, cols) \in Row
  BY DEF Overwrite, Row, Columns

LEMMA WholeMove ==
    ASSUME NEW kind \in Kinds, NEW q \in Int
    PROVE  GoodsMoved(kind, q) \in Int
  BY DEF GoodsMoved, Kinds

-----------------------------------------------------------------------------
(* The lines of a reference, and the row a line names.                     *)

MovementLine == [item : Items, wh : Warehouses, qty : Int]

\* The lines of an order are its own; those of a movement are adjustments
\* that name their warehouse.
LEMMA OrderLines ==
    ASSUME NEW o \in Orders
    PROVE  LinesOf(o) = Lines[o] /\ LinesOf(o) \in Seq(Line)
  BY IdsAssumption, LinesAssumption DEF LinesOf

LEMMA MovementLinesShape ==
    ASSUME NEW m \in Movements
    PROVE  LinesOf(m) \in Seq(MovementLine)
  <1> DEFINE mv == MovementOf[m]
             out == [item |-> mv.item, wh |-> mv.source, qty |-> -mv.qty]
             in  == [item |-> mv.item, wh |-> mv.target, qty |-> mv.qty]
  <1>1. mv \in Movement BY LinesAssumption
  <1>2. ASSUME mv.source # Default PROVE <<out>> \in Seq(MovementLine)
    BY <1>1, <1>2 DEF Movement, MovementLine
  <1>3. ASSUME mv.target # Default PROVE <<in>> \in Seq(MovementLine)
    BY <1>1, <1>3 DEF Movement, MovementLine
  <1>4. ASSUME mv.source # Default, mv.target # Default PROVE <<out>> \o <<in>> \in Seq(MovementLine)
    BY <1>2, <1>3, <1>4
  <1>5. <<>> \in Seq(MovementLine) OBVIOUS
  <1> HIDE DEF out, in
  <1>6. CASE mv.type \in {"INBOUND", "PRODUCTION_OUTPUT", "RETURN", "ADJUSTMENT"}
    BY <1>3, <1>5, <1>6 DEF LinesOf, MovementLines, in
  <1>7. CASE mv.type \in {"OUTBOUND", "PRODUCTION_CONSUMPTION", "SCRAP"}
    BY <1>2, <1>5, <1>7 DEF LinesOf, MovementLines, out
  <1>8. CASE mv.type = "TRANSFER"
    BY <1>4, <1>5, <1>8 DEF LinesOf, MovementLines, out, in
  <1> QED BY <1>1, <1>6, <1>7, <1>8 DEF Movement, MovementTypes

-----------------------------------------------------------------------------
(* Requests.                                                               *)

LEMMA KnownRef == ASSUME NEW r, OrderRequest(r) \/ MovementRequest(r)
                  PROVE  r.ref \in Refs
  BY DEF OrderRequest, MovementRequest, Refs

\* The line a request is at, and the row it names.
LEMMA LineInfo ==
    ASSUME TypeInv, NEW p \in Workers, req[p].pc \in AtLine
    PROVE  /\ req[p].eff \in Kinds
           /\ LineAt(p).qty \in Int
           /\ req[p].eff # "adjust" /\ Slot(p) \in PlainSlots => LineAt(p).qty \in Nat
           /\ Slot(p) \in Slots
  <1> DEFINE r == req[p]
  <1>1. r \in Request /\ RequestOK(r) BY DEF TypeInv, Typed, RequestsOK
  <1>2. r.line \in 1 .. Len(LinesOf(r.ref)) BY <1>1 DEF RequestOK
  <1>3. OrderRequest(r) \/ MovementRequest(r) BY <1>1 DEF RequestOK, AtLine
  <1>4. CASE OrderRequest(r)
    <2>1. LinesOf(r.ref) \in Seq(Line) BY <1>4, OrderLines DEF OrderRequest
    <2>2. LineAt(p) \in Line BY <1>2, <2>1 DEF LineAt
    <2>3. r.wh \in Warehouses BY <1>4 DEF OrderRequest, AtLine, InTransaction
    <2>4. r.eff \in Kinds BY <1>1, <1>4 DEF OrderRequest, AtLine, Request
    <2>5. ASSUME Slot(p) \in PlainSlots PROVE LineAt(p).qty \in Nat
      <3>1. r.ref \in Orders /\ LinesOf(r.ref) = Lines[r.ref]
        BY <1>4, OrderLines DEF OrderRequest
      <3>2. r.line \in DOMAIN Lines[r.ref] /\ LineAt(p) = Lines[r.ref][r.line]
        BY <1>2, <2>1, <3>1 DEF LineAt
      <3>3. Slot(p) = SlotOf(Lines[r.ref][r.line], r.wh) BY <3>2 DEF Slot
      <3>4. LineAt(p).qty >= 0 BY <2>3, <2>5, <3>1, <3>2, <3>3 DEF PlainSlots
      <3> QED BY <2>2, <3>4 DEF Line
    <2> QED BY <2>2, <2>3, <2>4, <2>5 DEF Line, Slot, SlotOf, Slots
  <1>5. CASE MovementRequest(r)
    <2>1. LinesOf(r.ref) \in Seq(MovementLine)
      BY <1>5, MovementLinesShape DEF MovementRequest
    <2>2. LineAt(p) \in MovementLine
      BY <1>2, <2>1 DEF LineAt
    <2>3. r.eff = "adjust" BY <1>5 DEF MovementRequest
    <2> QED BY <2>2, <2>3, IdsAssumption DEF MovementLine, Slot, SlotOf, Slots, Kinds
  <1> QED BY <1>3, <1>4, <1>5

LEMMA ViewIsRow ==
    ASSUME Typed, NEW p \in Workers, NEW s \in Slots
    PROVE  View(p, s) \in Row /\ Exists(p, s) \in BOOLEAN
  BY DEF Typed, Tx, View, Exists

\* After its line a request is at the next line, or ready to commit.
LEMMA NextLineOK ==
    ASSUME NEW r \in Request, RequestOK(r), r.pc \in AtLine
    PROVE  /\ NextLine(r) \in Request
           /\ RequestOK(NextLine(r))
           /\ NextLine(r).pc \in {"read", "commit"}
           /\ NextLine(r).ref = r.ref /\ NextLine(r).to = r.to /\ NextLine(r).eff = r.eff
  <1> DEFINE n == NextLine(r)
  <1>1. EmptyRow \in Row /\ {} \in SUBSET Columns BY DEF EmptyRow, Row
  <1>2. r.line \in 1 .. Len(LinesOf(r.ref)) /\ r.line \in Nat \ {0}
    BY DEF RequestOK, Request
  <1>3. OrderRequest(r) \/ MovementRequest(r) BY DEF RequestOK, AtLine
  <1>4. Len(LinesOf(r.ref)) \in Nat
    BY <1>3, OrderLines, MovementLinesShape DEF OrderRequest, MovementRequest
  <1>5. CASE r.line < Len(LinesOf(r.ref))
    <2>1. n = [r EXCEPT !.pc = "read", !.line = @ + 1, !.row = EmptyRow,
                        !.fresh = FALSE, !.dirty = {}]
      BY <1>5 DEF NextLine
    <2>2. n \in Request
      <3>1. n = [pc |-> "read", ref |-> r.ref, to |-> r.to, eff |-> r.eff, wh |-> r.wh,
                 line |-> r.line + 1, row |-> EmptyRow, fresh |-> FALSE, dirty |-> {}]
        BY <2>1 DEF Request
      <3> QED BY <1>1, <1>2, <3>1 DEF Request, PCs
    <2>3. n.pc = "read" /\ n.ref = r.ref /\ n.to = r.to /\ n.eff = r.eff /\ n.wh = r.wh
          /\ n.line = r.line + 1
      BY <2>1 DEF Request
    <2>4. OrderRequest(n) \/ MovementRequest(n)
      BY <1>3, <2>3 DEF OrderRequest, MovementRequest, AtLine, InTransaction
    <2>5. n.line \in 1 .. Len(LinesOf(n.ref)) BY <1>2, <1>4, <1>5, <2>3
    <2> QED BY <2>2, <2>3, <2>4, <2>5 DEF RequestOK
  <1>6. CASE ~(r.line < Len(LinesOf(r.ref)))
    <2>1. n = [r EXCEPT !.pc = "commit", !.line = 1, !.row = EmptyRow,
                        !.fresh = FALSE, !.dirty = {}]
      BY <1>6 DEF NextLine
    <2>2. n \in Request
      <3>1. n = [pc |-> "commit", ref |-> r.ref, to |-> r.to, eff |-> r.eff, wh |-> r.wh,
                 line |-> 1, row |-> EmptyRow, fresh |-> FALSE, dirty |-> {}]
        BY <2>1 DEF Request
      <3> QED BY <1>1, <3>1 DEF Request, PCs
    <2>3. n.pc = "commit" /\ n.ref = r.ref /\ n.to = r.to /\ n.eff = r.eff /\ n.wh = r.wh
      BY <2>1 DEF Request
    <2>4. OrderRequest(n) \/ MovementRequest(n)
      BY <1>3, <2>3 DEF OrderRequest, MovementRequest, AtLine, InTransaction
    <2> QED BY <2>2, <2>3, <2>4 DEF RequestOK, AtLine
  <1> QED BY <1>5, <1>6

\* A step that replaces one worker's request by a sound one keeps them sound.
LEMMA OneRequest ==
    ASSUME TypeInv, NEW p \in Workers, NEW r \in Request, RequestOK(r),
           req' = [req EXCEPT ![p] = r]
    PROVE  req' \in [Workers -> Request] /\ RequestsOK'
  BY DEF TypeInv, Typed, RequestsOK

LEMMA IdleOK == Idle \in Request /\ RequestOK(Idle)
  BY DEF Idle, Request, RequestOK, PCs, EmptyRow, Row, AtLine

LEMMA NoTxOK == NoTx \in Tx
  BY DEF NoTx, Tx, EmptyRow, Row

\* A step that changes nothing else, but perhaps counts a call.
LEMMA OnlyRequest ==
    ASSUME TypeInv, NEW p \in Workers, NEW r \in Request, RequestOK(r),
           req' = [req EXCEPT ![p] = r], UNCHANGED <<db, tx, torn>>, calls' \in 0 .. MaxCalls
    PROVE  TypeInv'
  <1>1. req' \in [Workers -> Request] /\ RequestsOK' BY OneRequest
  <1> QED BY <1>1 DEF TypeInv, Typed, db

-----------------------------------------------------------------------------
(* Every action preserves TypeInv.                                         *)

LEMMA EffectKinds ==
    ASSUME NEW o \in Orders, NEW from, NEW to
    PROVE  Effect(o, from, to) \in (Kinds \ {"adjust"}) \cup {"none"}
  BY DEF Effect, SalesEffect, ProductionEffect, Kinds

LEMMA ReceiveSafe ==
    ASSUME TypeInv, NEW p \in Workers, NEW o \in Orders, NEW to \in Status, Receive(p, o, to)
    PROVE  TypeInv'
  <1> DEFINE eff == Effect(o, status[o], to)
             r == [pc |-> IF eff = "none" THEN "save" ELSE "warehouse", ref |-> o, to |-> to,
                   eff |-> eff, wh |-> Default, line |-> 1, row |-> EmptyRow,
                   fresh |-> FALSE, dirty |-> {}]
  <1>1. eff \in (Kinds \ {"adjust"}) \cup {"none"} BY EffectKinds
  <1>2. ASSUME NEW x, x = [Idle EXCEPT !.pc = IF eff = "none" THEN "save" ELSE "warehouse",
                                       !.ref = o, !.to = to, !.eff = eff]
        PROVE  x = r
    BY <1>2 DEF Idle
  <1>3. req' = [req EXCEPT ![p] = r] BY <1>2 DEF Receive
  <1>4. EmptyRow \in Row /\ o \in Refs BY DEF EmptyRow, Row, Refs
  <1>5. r.pc \in {"save", "warehouse"} /\ r.pc \in PCs BY DEF PCs
  <1>6. r \in Request BY <1>1, <1>4, <1>5 DEF Request
  <1>7. Allowed(o, status[o], to) BY DEF Receive
  <1>8. o \in SalesOrders => to \in {"CONFIRMED", "SHIPPED", "CANCELLED"}
    BY <1>7, IdsAssumption DEF Allowed, SalesAllowed
  <1>9. o \in ProductionOrders => to \in ProductionStatus \ {"DRAFT"}
    BY <1>7, IdsAssumption DEF Allowed, ProductionAllowed, ProductionStatus
  <1>10. RequestOK(r)
    BY <1>1, <1>5, <1>8, <1>9 DEF RequestOK, OrderRequest, AtLine, InTransaction
  <1>11. calls' \in 0 .. MaxCalls BY BoundsAssumption DEF Receive, TypeInv, Typed
  <1>12. UNCHANGED <<db, tx, torn>> BY DEF Receive
  <1> HIDE DEF r
  <1> QED BY <1>3, <1>6, <1>10, <1>11, <1>12, OnlyRequest

LEMMA ReceiveMovementSafe ==
    ASSUME TypeInv, NEW p \in Workers, NEW m \in Movements, ReceiveMovement(p, m)
    PROVE  TypeInv'
  <1> DEFINE r == [pc |-> "connect", ref |-> m, to |-> "none", eff |-> "adjust", wh |-> Default,
                   line |-> 1, row |-> EmptyRow, fresh |-> FALSE, dirty |-> {}]
  <1>0. ASSUME NEW x, x = [Idle EXCEPT !.pc = "connect", !.ref = m, !.eff = "adjust"]
        PROVE  x = r
    BY <1>0 DEF Idle
  <1>1. req' = [req EXCEPT ![p] = r] BY <1>0 DEF ReceiveMovement
  <1>2. EmptyRow \in Row /\ m \in Refs BY DEF EmptyRow, Row, Refs
  <1>3. r \in Request BY <1>2 DEF Request, PCs, Kinds
  <1>4. RequestOK(r) BY DEF RequestOK, MovementRequest, AtLine, InTransaction
  <1>5. calls' \in 0 .. MaxCalls BY BoundsAssumption DEF ReceiveMovement, TypeInv, Typed
  <1>6. UNCHANGED <<db, tx, torn>> BY DEF ReceiveMovement
  <1> HIDE DEF r
  <1> QED BY <1>1, <1>3, <1>4, <1>5, <1>6, OnlyRequest

LEMMA PickWarehouseSafe ==
    ASSUME TypeInv, NEW p \in Workers, PickWarehouse(p)
    PROVE  TypeInv'
  <1> DEFINE q == req[p]
             r == [pc |-> IF Lines[q.ref] = <<>> THEN "save" ELSE "connect", ref |-> q.ref,
                   to |-> q.to, eff |-> q.eff, wh |-> defaultWh, line |-> q.line,
                   row |-> q.row, fresh |-> q.fresh, dirty |-> q.dirty]
  <1>1. q \in Request /\ RequestOK(q) /\ q.pc = "warehouse" /\ defaultWh \in Warehouses
    BY DEF PickWarehouse, TypeInv, Typed, RequestsOK
  <1>2. req' = [req EXCEPT ![p] = r]
    <2> DEFINE pc == IF Lines[q.ref] = <<>> THEN "save" ELSE "connect"
    <2>1. req' = [req EXCEPT ![p].wh = defaultWh, ![p].pc = pc] BY DEF PickWarehouse
    <2> HIDE DEF pc
    <2>2. req' = [req EXCEPT ![p] = [q EXCEPT !.wh = defaultWh, !.pc = pc]] BY <2>1
    <2>3. ASSUME NEW x, x = [q EXCEPT !.wh = defaultWh, !.pc = pc] PROVE x = r
      BY <1>1, <2>3 DEF Request, pc
    <2> QED BY <2>2, <2>3
  <1>3. r.pc \in PCs BY DEF PCs
  <1>4. r \in Request BY <1>1, <1>3 DEF Request
  <1>5. OrderRequest(q) BY <1>1 DEF RequestOK, MovementRequest, InTransaction
  <1>6. OrderRequest(r) BY <1>1, <1>5 DEF OrderRequest, InTransaction
  <1>7. RequestOK(r) BY <1>1, <1>6 DEF RequestOK, AtLine
  <1>8. calls' \in 0 .. MaxCalls BY DEF PickWarehouse, TypeInv, Typed
  <1>9. UNCHANGED <<db, tx, torn>> BY DEF PickWarehouse
  <1> HIDE DEF r
  <1> QED BY <1>2, <1>4, <1>7, <1>8, <1>9, OnlyRequest

LEMMA ConnectSafe ==
    ASSUME TypeInv, NEW p \in Workers, Connect(p)
    PROVE  TypeInv'
  <1> DEFINE q == req[p]
             pc == IF LinesOf(q.ref) = <<>> THEN "commit" ELSE "read"
             r == [q EXCEPT !.pc = pc]
  <1>1. q \in Request /\ RequestOK(q) /\ q.pc = "connect"
    BY DEF Connect, TypeInv, Typed, RequestsOK
  <1>2. req' = [req EXCEPT ![p] = r] BY DEF Connect
  <1>3. r \in Request BY <1>1 DEF Request, PCs
  <1>4. pc \in {"commit", "read"} /\ (pc = "read" => LinesOf(q.ref) # <<>>) OBVIOUS
  <1> HIDE DEF pc
  <1>5. r.pc = pc /\ r.ref = q.ref /\ r.to = q.to /\ r.eff = q.eff /\ r.wh = q.wh /\ r.line = q.line
    BY <1>1 DEF Request
  <1>6. OrderRequest(q) \/ MovementRequest(q) BY <1>1 DEF RequestOK
  <1>7. OrderRequest(r) \/ MovementRequest(r)
    BY <1>1, <1>4, <1>5, <1>6 DEF OrderRequest, MovementRequest, InTransaction
  <1>8. LinesOf(q.ref) # <<>> => 1 \in 1 .. Len(LinesOf(q.ref))
    BY <1>6, OrderLines, MovementLinesShape DEF OrderRequest, MovementRequest
  <1>9. RequestOK(r) BY <1>1, <1>4, <1>5, <1>7, <1>8 DEF RequestOK, AtLine
  <1>10. UNCHANGED <<db, tx, torn>> /\ calls' \in 0 .. MaxCalls
    BY DEF Connect, TypeInv, Typed
  <1> HIDE DEF r
  <1> QED BY <1>2, <1>3, <1>9, <1>10, OnlyRequest

LEMMA ReadLevelSafe ==
    ASSUME TypeInv, NEW p \in Workers, ReadLevel(p)
    PROVE  TypeInv'
  <1> DEFINE q == req[p]
             s == Slot(p)
             e == Exists(p, s)
             after == After(q.eff, View(p, s), LineAt(p).qty)
             cols == IF e THEN {} ELSE Columns
             r == [pc |-> IF e THEN "reload" ELSE "write", ref |-> q.ref, to |-> q.to,
                   eff |-> q.eff, wh |-> q.wh, line |-> q.line, row |-> after,
                   fresh |-> ~e, dirty |-> cols]
  <1>1. q \in Request /\ RequestOK(q) /\ q.pc = "read"
    BY DEF ReadLevel, TypeInv, Typed, RequestsOK
  <1>2. q.eff \in Kinds /\ LineAt(p).qty \in Int /\ s \in Slots
    BY <1>1, LineInfo DEF AtLine
  <1>3. View(p, s) \in Row /\ e \in BOOLEAN BY <1>2, ViewIsRow DEF TypeInv
  <1>4. Accepts(q.eff, e, View(p, s), LineAt(p).qty) BY DEF ReadLevel
  <1>5. after \in Row BY <1>2, <1>3, <1>4, RowSafe
  <1>6. cols \in SUBSET Columns OBVIOUS
  <1>7. req' = [req EXCEPT ![p] = r] BY <1>1 DEF ReadLevel, Request, TypeInv, Typed
  <1> HIDE DEF after, e, cols
  <1>8. r.pc \in {"reload", "write"} /\ r.pc \in PCs BY DEF PCs
  <1>9. r \in Request BY <1>1, <1>3, <1>5, <1>6, <1>8 DEF Request
  <1>10. OrderRequest(q) \/ MovementRequest(q) BY <1>1 DEF RequestOK
  <1>11. OrderRequest(r) \/ MovementRequest(r)
    BY <1>1, <1>8, <1>10 DEF OrderRequest, MovementRequest, InTransaction
  <1>12. RequestOK(r) BY <1>1, <1>8, <1>11 DEF RequestOK, AtLine
  <1>13. UNCHANGED <<db, tx, torn>> /\ calls' \in 0 .. MaxCalls
    BY DEF ReadLevel, TypeInv, Typed
  <1> HIDE DEF r
  <1> QED BY <1>7, <1>9, <1>12, <1>13, OnlyRequest

LEMMA SkipLineSafe ==
    ASSUME TypeInv, NEW p \in Workers, SkipLine(p)
    PROVE  TypeInv'
  <1>1. req[p] \in Request /\ RequestOK(req[p]) /\ req[p].pc \in AtLine
    BY DEF SkipLine, TypeInv, Typed, RequestsOK, AtLine
  <1>2. NextLine(req[p]) \in Request /\ RequestOK(NextLine(req[p])) BY <1>1, NextLineOK
  <1>3. req' = [req EXCEPT ![p] = NextLine(req[p])] BY DEF SkipLine
  <1>4. UNCHANGED <<db, tx, torn>> /\ calls' \in 0 .. MaxCalls
    BY DEF SkipLine, TypeInv, Typed
  <1> QED BY <1>2, <1>3, <1>4, OnlyRequest

LEMMA ReloadSafe ==
    ASSUME TypeInv, NEW p \in Workers, Reload(p)
    PROVE  TypeInv'
  <1> DEFINE q == req[p]
             cols == Differing(q.eff, q.row, View(p, Slot(p)))
             r == [pc |-> "write", ref |-> q.ref, to |-> q.to, eff |-> q.eff, wh |-> q.wh,
                   line |-> q.line, row |-> q.row, fresh |-> q.fresh, dirty |-> cols]
  <1>1. q \in Request /\ RequestOK(q) /\ q.pc = "reload"
    BY DEF Reload, TypeInv, Typed, RequestsOK
  <1>2. q.eff \in Kinds BY <1>1, LineInfo DEF AtLine
  <1>3. cols \in SUBSET Columns BY <1>2 DEF Differing, Assigned, Columns, Kinds
  <1>4. req' = [req EXCEPT ![p] = r] BY <1>1 DEF Reload, Request, TypeInv, Typed
  <1> HIDE DEF cols
  <1>5. r \in Request BY <1>1, <1>3 DEF Request, PCs
  <1>6. OrderRequest(q) \/ MovementRequest(q) BY <1>1 DEF RequestOK
  <1>7. OrderRequest(r) \/ MovementRequest(r)
    BY <1>1, <1>6 DEF OrderRequest, MovementRequest, InTransaction
  <1>8. RequestOK(r) BY <1>1, <1>7 DEF RequestOK, AtLine
  <1>9. UNCHANGED <<db, tx, torn>> /\ calls' \in 0 .. MaxCalls
    BY DEF Reload, TypeInv, Typed
  <1> HIDE DEF r
  <1> QED BY <1>4, <1>5, <1>8, <1>9, OnlyRequest

LEMMA WriteSafe ==
    ASSUME TypeInv, NEW p \in Workers, Write(p)
    PROVE  TypeInv'
  <1> DEFINE q == req[p]
             s == Slot(p)
             new == Overwrite(View(p, s), q.row, q.dirty)
             moved == GoodsMoved(q.eff, LineAt(p).qty)
             t == [locked |-> tx[p].locked \cup {s},
                   row    |-> [tx[p].row EXCEPT ![s] = new],
                   moved  |-> [tx[p].moved EXCEPT ![s] = @ + moved]]
  <1>1. q \in Request /\ RequestOK(q) /\ q.pc \in AtLine /\ tx \in [Workers -> Tx]
    BY DEF Write, TypeInv, Typed, RequestsOK, AtLine
  <1>2. q.eff \in Kinds /\ LineAt(p).qty \in Int /\ s \in Slots BY <1>1, LineInfo
  <1>3. new \in Row BY <1>1, <1>2, ViewIsRow, MixedRow DEF TypeInv, Request
  <1>4. moved \in Int BY <1>2, WholeMove
  <1>5. tx' = [tx EXCEPT ![p] = t]
    <2>1. tx' = [tx EXCEPT ![p] = [tx[p] EXCEPT !.locked = @ \cup {s}, !.row[s] = new,
                                               !.moved[s] = @ + moved]]
      BY DEF Write
    <2> HIDE DEF s, new, moved
    <2>2. ASSUME NEW x, x = [tx[p] EXCEPT !.locked = @ \cup {s}, !.row[s] = new,
                                          !.moved[s] = @ + moved]
          PROVE  x = t
      BY <1>1, <2>2 DEF Tx
    <2> QED BY <2>1, <2>2
  <1> HIDE DEF s, new, moved
  <1>6. tx[p] \in Tx BY <1>1
  <1>7. t \in Tx BY <1>2, <1>3, <1>4, <1>6 DEF Tx
  <1> HIDE DEF t
  <1>8. tx' \in [Workers -> Tx] BY <1>1, <1>5, <1>7
  <1>9. NextLine(q) \in Request /\ RequestOK(NextLine(q)) BY <1>1, NextLineOK
  <1>10. req' = [req EXCEPT ![p] = NextLine(q)] /\ UNCHANGED <<db, torn, calls>> BY DEF Write
  <1>11. req' \in [Workers -> Request] /\ RequestsOK' BY <1>9, <1>10, OneRequest
  <1> QED BY <1>8, <1>10, <1>11 DEF TypeInv, Typed, db

LEMMA CommitStockSafe ==
    ASSUME TypeInv, NEW p \in Workers, CommitStock(p)
    PROVE  TypeInv'
  <1> DEFINE q == req[p]
  <1>1. q \in Request /\ RequestOK(q) /\ q.pc = "commit" /\ Typed
    BY DEF CommitStock, TypeInv, Typed, RequestsOK
  <1>2. OrderRequest(q) \/ MovementRequest(q) BY <1>1 DEF RequestOK
  <1>3. q.ref \in Refs /\ q.eff \in Kinds
    BY <1>1, <1>2, KnownRef DEF OrderRequest, MovementRequest, Request, Kinds
  <1>4. level' \in [Slots -> Row] BY <1>1, ViewIsRow DEF CommitStock
  <1>5. present' \subseteq Slots BY <1>1 DEF CommitStock, Typed, Tx
  <1>6. goods' \in [Slots -> Int]
    <2>1. \A s \in Slots : goods[s] + tx[p].moved[s] \in Int BY <1>1 DEF Typed, Tx
    <2> QED BY <2>1 DEF CommitStock
  <1>7. applied' \in [Refs -> [Kinds -> Nat]] BY <1>1, <1>3 DEF CommitStock, Typed
  <1>8. tx' \in [Workers -> Tx] BY <1>1, NoTxOK DEF CommitStock, Typed
  <1>9. req' \in [Workers -> Request] /\ RequestsOK'
    <2>1. CASE q.ref \in Movements
      BY <2>1, IdleOK, OneRequest DEF CommitStock
    <2>2. CASE q.ref \notin Movements
      <3> DEFINE r == [q EXCEPT !.pc = "save"]
      <3>1. req' = [req EXCEPT ![p] = r] BY <2>2 DEF CommitStock
      <3>2. r \in Request BY <1>1 DEF Request, PCs
      <3>3. OrderRequest(q) BY <1>2, <2>2 DEF MovementRequest
      <3>4. r.pc = "save" /\ r.ref = q.ref /\ r.to = q.to /\ r.eff = q.eff BY <1>1 DEF Request
      <3>5. OrderRequest(r) BY <3>3, <3>4 DEF OrderRequest, InTransaction
      <3>6. RequestOK(r) BY <3>4, <3>5 DEF RequestOK, AtLine
      <3> HIDE DEF r
      <3> QED BY <3>1, <3>2, <3>6, OneRequest
    <2> QED BY <2>1, <2>2
  <1>10. UNCHANGED <<status, defaultWh, torn, calls>> BY DEF CommitStock
  <1> QED BY <1>1, <1>4, <1>5, <1>6, <1>7, <1>8, <1>9, <1>10 DEF TypeInv, Typed

LEMMA SaveStatusSafe ==
    ASSUME TypeInv, NEW p \in Workers, SaveStatus(p)
    PROVE  TypeInv'
  <1> DEFINE q == req[p]
  <1>1. q \in Request /\ RequestOK(q) /\ q.pc = "save" /\ Typed
    BY DEF SaveStatus, TypeInv, Typed, RequestsOK
  <1>2. OrderRequest(q) BY <1>1 DEF RequestOK, MovementRequest, InTransaction
  <1>3. /\ q.ref \in SalesOrders => q.to \in SalesStatus
        /\ q.ref \in ProductionOrders => q.to \in ProductionStatus
    BY <1>2 DEF OrderRequest, SalesStatus
  <1>4. q.ref \in Orders /\ q.to \in Status BY <1>2, <1>3 DEF OrderRequest, Orders, Status
  <1>5. status' = [status EXCEPT ![q.ref] = q.to] BY DEF SaveStatus
  <1>6. /\ status' \in [Orders -> Status]
        /\ \A o \in SalesOrders : status'[o] \in SalesStatus
        /\ \A o \in ProductionOrders : status'[o] \in ProductionStatus
    BY <1>1, <1>3, <1>4, <1>5 DEF Typed, Orders
  <1>7. req' \in [Workers -> Request] /\ RequestsOK'
    BY IdleOK, OneRequest DEF SaveStatus
  <1>8. UNCHANGED <<defaultWh, present, level, goods, applied, tx, torn, calls>>
    BY DEF SaveStatus
  <1> QED BY <1>1, <1>6, <1>7, <1>8 DEF TypeInv, Typed

\* Any request, at any call, may fail.
LEMMA AbortSafe ==
    ASSUME TypeInv, NEW p \in Workers, Abort(p)
    PROVE  TypeInv'
  <1>1. req' \in [Workers -> Request] /\ RequestsOK'
    BY IdleOK, OneRequest DEF Abort
  <1>2. tx' \in [Workers -> Tx] BY NoTxOK DEF Abort, TypeInv, Typed
  <1>3. torn' \subseteq Orders
    <2>1. CASE EffectDone(p)
      <3>1. RequestOK(req[p]) /\ req[p].pc = "save"
        BY <2>1 DEF EffectDone, TypeInv, RequestsOK
      <3>2. req[p].ref \in Orders
        BY <3>1 DEF RequestOK, OrderRequest, MovementRequest, InTransaction
      <3> QED BY <2>1, <3>2 DEF Abort, TypeInv, Typed
    <2>2. CASE ~EffectDone(p) BY <2>2 DEF Abort, TypeInv, Typed
    <2> QED BY <2>1, <2>2
  <1>4. UNCHANGED <<db, calls>> BY DEF Abort
  <1> QED BY <1>1, <1>2, <1>3, <1>4 DEF TypeInv, Typed, db

\* The ways to fail, gathered.
LEMMA Failures ==
    ASSUME NEW p \in Workers,
           \/ Reject(p) \/ UniqueViolation(p) \/ PoolTimeout(p)
           \/ DeadlockVictim(p) \/ ConnectionLost(p)
    PROVE  Abort(p)
  BY DEF Reject, UniqueViolation, PoolTimeout, DeadlockVictim, ConnectionLost

LEMMA TypeInit == Init => TypeInv
  <1> SUFFICES ASSUME Init PROVE TypeInv OBVIOUS
  <1>1. \A p \in Workers : req[p] = Idle BY DEF Init
  <1>2. RequestsOK BY <1>1, IdleOK DEF RequestsOK
  <1>3. req \in [Workers -> Request] BY IdleOK DEF Init
  <1>4. tx \in [Workers -> Tx] BY NoTxOK DEF Init
  <1>5. /\ status \in [Orders -> Status]
        /\ \A o \in SalesOrders : status[o] \in SalesStatus
        /\ \A o \in ProductionOrders : status[o] \in ProductionStatus
    BY DEF Init, Orders, Status, SalesStatus, ProductionStatus
  <1>6. /\ present \subseteq Slots
        /\ level \in [Slots -> Row]
        /\ goods \in [Slots -> Int]
        /\ applied \in [Refs -> [Kinds -> Nat]]
    BY StockAssumption DEF Init
  <1>7. defaultWh \in Warehouses /\ torn \subseteq Orders /\ calls \in 0 .. MaxCalls
    BY BoundsAssumption DEF Init
  <1> QED BY <1>2, <1>3, <1>4, <1>5, <1>6, <1>7 DEF TypeInv, Typed

LEMMA TypeStep == TypeInv /\ [Next]_vars => TypeInv'
  <1> SUFFICES ASSUME TypeInv, [Next]_vars PROVE TypeInv' OBVIOUS
  <1>1. ASSUME NEW p \in Workers, NEW o \in Orders, NEW to \in Status, Receive(p, o, to)
        PROVE  TypeInv'
    BY <1>1, ReceiveSafe
  <1>2. ASSUME NEW p \in Workers, NEW m \in Movements, ReceiveMovement(p, m)
        PROVE  TypeInv'
    BY <1>2, ReceiveMovementSafe
  <1>3. ASSUME NEW p \in Workers, PickWarehouse(p) PROVE TypeInv' BY <1>3, PickWarehouseSafe
  <1>4. ASSUME NEW p \in Workers, Connect(p) PROVE TypeInv' BY <1>4, ConnectSafe
  <1>5. ASSUME NEW p \in Workers, ReadLevel(p) PROVE TypeInv' BY <1>5, ReadLevelSafe
  <1>6. ASSUME NEW p \in Workers, SkipLine(p) PROVE TypeInv' BY <1>6, SkipLineSafe
  <1>7. ASSUME NEW p \in Workers, Reload(p) PROVE TypeInv' BY <1>7, ReloadSafe
  <1>8. ASSUME NEW p \in Workers, Write(p) PROVE TypeInv' BY <1>8, WriteSafe
  <1>9. ASSUME NEW p \in Workers, CommitStock(p) PROVE TypeInv' BY <1>9, CommitStockSafe
  <1>10. ASSUME NEW p \in Workers, SaveStatus(p) PROVE TypeInv' BY <1>10, SaveStatusSafe
  <1>11. ASSUME NEW p \in Workers, Abort(p) PROVE TypeInv' BY <1>11, AbortSafe
  <1>12. ASSUME NEW w \in Warehouses, ChangeDefault(w) PROVE TypeInv'
    BY <1>12 DEF ChangeDefault, TypeInv, Typed, RequestsOK
  <1>13. CASE UNCHANGED vars
    BY <1>13 DEF vars, TypeInv, Typed, RequestsOK
  <1>14. CASE Drained BY <1>13, <1>14 DEF Drained
  <1>15. ASSUME NEW p \in Workers, Serve(p) PROVE TypeInv'
    BY <1>3, <1>4, <1>5, <1>6, <1>7, <1>8, <1>9, <1>10, <1>11, <1>15, Failures DEF Serve
  <1>16. ASSUME NEW p \in Workers, ConnectionLost(p) PROVE TypeInv'
    BY <1>11, <1>16, Failures
  <1> QED BY <1>1, <1>2, <1>12, <1>13, <1>14, <1>15, <1>16 DEF Next

LEMMA TypeInvariant == Spec => []TypeInv
  <1> QED BY TypeInit, TypeStep, PTL DEF Spec

-----------------------------------------------------------------------------
(* What is reserved never turns negative where no line asks for it.        *)

\* Nor in a row a transaction has written, nor in one a request is about to write.
ReservedSafe(p) ==
    /\ \A s \in PlainSlots : tx[p].row[s].reserved >= 0
    /\ req[p].pc \in {"reload", "write"} /\ Slot(p) \in PlainSlots => req[p].row.reserved >= 0

FloorInv == ReservedNotNegative /\ \A p \in Workers : ReservedSafe(p)

LEMMA PlainAre ==
    ASSUME NEW s \in PlainSlots
    PROVE  s \in Slots /\ InitLevel[s].reserved \in Nat
  <1>1. s \in Slots /\ InitLevel[s].reserved >= 0 BY DEF PlainSlots
  <1>2. InitLevel[s].reserved \in Int BY <1>1, StockAssumption DEF Row
  <1> QED BY <1>1, <1>2

LEMMA SafeView ==
    ASSUME FloorInv, Typed, NEW p \in Workers, NEW s \in PlainSlots
    PROVE  View(p, s) \in Row /\ View(p, s).reserved \in Nat
  <1>1. View(p, s) \in Row BY PlainAre, ViewIsRow
  <1>2. View(p, s).reserved >= 0 BY DEF FloorInv, ReservedNotNegative, ReservedSafe, View
  <1> QED BY <1>1, <1>2 DEF Row

\* A step of one request.
LEMMA FloorOf ==
    ASSUME FloorInv, NEW p \in Workers,
           \A q \in Workers \ {p} : req'[q] = req[q] /\ tx'[q] = tx[q],
           \A s \in PlainSlots : level'[s].reserved >= 0 /\ tx'[p].row[s].reserved >= 0,
           req'[p].pc \in {"reload", "write"} /\ Slot(p)' \in PlainSlots =>
               req'[p].row.reserved >= 0
    PROVE  FloorInv'
  <1>1. ReservedNotNegative' BY DEF ReservedNotNegative
  <1>2. ReservedSafe(p)' BY DEF ReservedSafe
  <1>3. ASSUME NEW q \in Workers \ {p} PROVE ReservedSafe(q)'
    <2>1. ReservedSafe(q) BY DEF FloorInv
    <2>2. req'[q] = req[q] /\ tx'[q] = tx[q] OBVIOUS
    <2>3. LineAt(q)' = LineAt(q) BY <2>2 DEF LineAt
    <2>4. Slot(q)' = Slot(q) BY <2>2, <2>3 DEF Slot
    <2> QED BY <2>1, <2>2, <2>4 DEF ReservedSafe
  <1> QED BY <1>1, <1>2, <1>3 DEF FloorInv

\* A step of one request that writes nothing and leaves it with nothing to write.
LEMMA FloorKept ==
    ASSUME FloorInv, NEW p \in Workers, UNCHANGED level,
           \A q \in Workers \ {p} : req'[q] = req[q] /\ tx'[q] = tx[q],
           tx'[p] \in {tx[p], NoTx}, req'[p].pc \notin {"reload", "write"}
    PROVE  FloorInv'
  <1>1. ASSUME NEW s \in PlainSlots
        PROVE  level'[s].reserved >= 0 /\ tx'[p].row[s].reserved >= 0
    <2>1. level[s].reserved >= 0 /\ tx[p].row[s].reserved >= 0
      BY DEF FloorInv, ReservedNotNegative, ReservedSafe
    <2>2. NoTx.row[s].reserved >= 0 BY PlainAre DEF NoTx, EmptyRow
    <2> QED BY <2>1, <2>2
  <1> QED BY <1>1, FloorOf

LEMMA ReadLevelFloor ==
    ASSUME TypeInv, FloorInv, NEW p \in Workers, ReadLevel(p)
    PROVE  FloorInv'
  <1> DEFINE q == req[p]
             s == Slot(p)
             after == After(q.eff, View(p, s), LineAt(p).qty)
             pc == IF Exists(p, s) THEN "reload" ELSE "write"
             fresh == ~Exists(p, s)
             dirty == IF Exists(p, s) THEN {} ELSE Columns
  <1>1. q \in Request /\ q.pc = "read" /\ req \in [Workers -> Request]
    BY DEF ReadLevel, TypeInv, Typed
  <1>2. /\ q.eff \in Kinds /\ LineAt(p).qty \in Int
        /\ q.eff # "adjust" /\ s \in PlainSlots => LineAt(p).qty \in Nat
    BY <1>1, LineInfo DEF AtLine
  <1>3. ASSUME s \in PlainSlots PROVE after.reserved >= 0
    <2> DEFINE v == View(p, s)
               n == LineAt(p).qty
    <2>1. v \in Row /\ v.reserved \in Nat BY <1>3, SafeView DEF TypeInv
    <2>2. n \in Int /\ (q.eff # "adjust" => n \in Nat) BY <1>2, <1>3
    <2>3. after = After(q.eff, v, n) OBVIOUS
    <2> HIDE DEF v, n, s, after
    <2>4. CASE q.eff = "reserve" BY <2>1, <2>2, <2>3, <2>4 DEF After, Row
    <2>5. CASE q.eff = "release" BY <2>1, <2>2, <2>3, <2>5 DEF After, Clamp, Row
    <2>6. CASE q.eff = "ship"    BY <2>1, <2>2, <2>3, <2>6 DEF After, Clamp, Row
    <2>7. CASE q.eff = "consume" BY <2>1, <2>2, <2>3, <2>7 DEF After, Row
    <2>8. CASE q.eff = "adjust"  BY <2>1, <2>2, <2>3, <2>8 DEF After, Row
    <2> QED BY <1>2, <2>4, <2>5, <2>6, <2>7, <2>8 DEF Kinds
  <1>4. req' = [req EXCEPT ![p].row = after, ![p].fresh = fresh, ![p].dirty = dirty, ![p].pc = pc]
    BY DEF ReadLevel
  <1>5. UNCHANGED <<level, tx>> BY DEF ReadLevel, db
  <1> HIDE DEF s, after, pc, fresh, dirty
  <1>6. /\ req'[p].row = after /\ req'[p].ref = q.ref /\ req'[p].wh = q.wh /\ req'[p].line = q.line
        /\ \A w \in Workers \ {p} : req'[w] = req[w]
    BY <1>1, <1>4 DEF Request
  <1>7. LineAt(p)' = LineAt(p) BY <1>6 DEF LineAt
  <1>8. Slot(p)' = s BY <1>6, <1>7 DEF Slot, s
  <1>9. \A x \in PlainSlots : level'[x].reserved >= 0 /\ tx'[p].row[x].reserved >= 0
    BY <1>5 DEF FloorInv, ReservedNotNegative, ReservedSafe
  <1> QED BY <1>3, <1>5, <1>6, <1>8, <1>9, FloorOf

LEMMA ReloadFloor ==
    ASSUME TypeInv, FloorInv, NEW p \in Workers, Reload(p)
    PROVE  FloorInv'
  <1>1. PICK dirty : req' = [req EXCEPT ![p].dirty = dirty, ![p].pc = "write"]
    BY DEF Reload
  <1>2. /\ req[p] \in Request /\ req[p].pc = "reload" /\ req \in [Workers -> Request]
        /\ UNCHANGED <<level, tx>>
    BY DEF Reload, TypeInv, Typed, db
  <1>3. /\ req'[p].row = req[p].row /\ req'[p].ref = req[p].ref /\ req'[p].wh = req[p].wh
        /\ req'[p].line = req[p].line /\ \A w \in Workers \ {p} : req'[w] = req[w]
    BY <1>1, <1>2 DEF Request
  <1>4. LineAt(p)' = LineAt(p) BY <1>3 DEF LineAt
  <1>5. Slot(p)' = Slot(p) BY <1>3, <1>4 DEF Slot
  <1>6. \A x \in PlainSlots : level'[x].reserved >= 0 /\ tx'[p].row[x].reserved >= 0
    BY <1>2 DEF FloorInv, ReservedNotNegative, ReservedSafe
  <1>7. Slot(p) \in PlainSlots => req[p].row.reserved >= 0 BY <1>2 DEF FloorInv, ReservedSafe
  <1> QED BY <1>2, <1>3, <1>5, <1>6, <1>7, FloorOf

LEMMA WriteFloor ==
    ASSUME TypeInv, FloorInv, NEW p \in Workers, Write(p)
    PROVE  FloorInv'
  <1> DEFINE q == req[p]
             s == Slot(p)
             new == Overwrite(View(p, s), q.row, q.dirty)
             moved == GoodsMoved(q.eff, LineAt(p).qty)
  <1>1. /\ q \in Request /\ RequestOK(q) /\ q.pc = "write" /\ tx \in [Workers -> Tx]
        /\ req \in [Workers -> Request] /\ UNCHANGED level
        /\ req' = [req EXCEPT ![p] = NextLine(q)]
        /\ tx' = [tx EXCEPT ![p].locked = @ \cup {s}, ![p].row[s] = new, ![p].moved[s] = @ + moved]
    BY DEF Write, TypeInv, Typed, RequestsOK, db
  <1>2. ASSUME s \in PlainSlots PROVE new.reserved >= 0
    <2>1. View(p, s).reserved \in Nat BY <1>2, SafeView DEF TypeInv
    <2>2. q.row.reserved >= 0 BY <1>1, <1>2 DEF FloorInv, ReservedSafe
    <2> QED BY <2>1, <2>2 DEF Overwrite
  <1>3. NextLine(q).pc \in {"read", "commit"} BY <1>1, NextLineOK DEF AtLine
  <1> HIDE DEF s, new, moved, q
  <1>4. /\ req'[p] = NextLine(q) /\ \A w \in Workers \ {p} : req'[w] = req[w] /\ tx'[w] = tx[w]
        /\ tx'[p].row = [tx[p].row EXCEPT ![s] = new] /\ tx[p].row \in [Slots -> Row]
    BY <1>1 DEF Tx
  <1>5. ASSUME NEW x \in PlainSlots
        PROVE  level'[x].reserved >= 0 /\ tx'[p].row[x].reserved >= 0
    <2>1. level'[x].reserved >= 0 /\ tx[p].row[x].reserved >= 0
      BY <1>1 DEF FloorInv, ReservedNotNegative, ReservedSafe
    <2>2. x \in Slots BY PlainAre
    <2> QED BY <1>2, <1>4, <2>1, <2>2
  <1> QED BY <1>3, <1>4, <1>5, FloorOf

LEMMA CommitStockFloor ==
    ASSUME TypeInv, FloorInv, NEW p \in Workers, CommitStock(p)
    PROVE  FloorInv'
  <1>1. /\ level' = [s \in Slots |-> View(p, s)] /\ tx' = [tx EXCEPT ![p] = NoTx]
        /\ tx \in [Workers -> Tx] /\ req \in [Workers -> Request]
    BY DEF CommitStock, TypeInv, Typed
  <1>2. /\ req'[p].pc \in {"idle", "save"}
        /\ \A q \in Workers \ {p} : req'[q] = req[q] /\ tx'[q] = tx[q]
    BY <1>1 DEF CommitStock, Idle, Request
  <1>3. ASSUME NEW s \in PlainSlots
        PROVE  level'[s].reserved >= 0 /\ tx'[p].row[s].reserved >= 0
    <2>1. s \in Slots /\ View(p, s).reserved \in Nat BY PlainAre, SafeView DEF TypeInv
    <2>2. tx'[p].row[s].reserved = 0 BY <1>1, <2>1 DEF NoTx, EmptyRow
    <2> QED BY <1>1, <2>1, <2>2
  <1> QED BY <1>2, <1>3, FloorOf

LEMMA FloorInit == Init => FloorInv
  <1> SUFFICES ASSUME Init PROVE FloorInv OBVIOUS
  <1>1. \A s \in PlainSlots : s \in Slots /\ level[s].reserved >= 0 BY PlainAre DEF Init
  <1>2. \A p \in Workers : tx[p] = NoTx /\ req[p].pc = "idle" BY DEF Init, Idle
  <1> QED BY <1>1, <1>2 DEF FloorInv, ReservedNotNegative, ReservedSafe, NoTx, EmptyRow

LEMMA FloorNext == TypeInv /\ FloorInv /\ [Next]_vars => FloorInv'
  <1> SUFFICES ASSUME TypeInv, FloorInv, [Next]_vars PROVE FloorInv' OBVIOUS
  <1>0. req \in [Workers -> Request] /\ tx \in [Workers -> Tx] BY DEF TypeInv, Typed
  <1>1. ASSUME NEW p \in Workers,
               \/ \E o \in Orders, to \in Status : Receive(p, o, to)
               \/ \E m \in Movements : ReceiveMovement(p, m)
        PROVE  FloorInv'
    <2>1. ASSUME NEW o \in Orders, NEW to \in Status, Receive(p, o, to)
          PROVE  FloorInv'
      <3> DEFINE eff == Effect(o, status[o], to)
                 pc == IF eff = "none" THEN "save" ELSE "warehouse"
      <3>1. /\ req' = [req EXCEPT ![p] = [Idle EXCEPT !.pc = pc, !.ref = o, !.to = to, !.eff = eff]]
            /\ UNCHANGED <<level, tx>>
        BY <2>1 DEF Receive, db
      <3>2. pc \in {"save", "warehouse"} OBVIOUS
      <3> HIDE DEF eff, pc
      <3>3. req'[p].pc = pc /\ \A q \in Workers \ {p} : req'[q] = req[q]
        BY <1>0, <3>1 DEF Idle
      <3> QED BY <3>1, <3>2, <3>3, FloorKept
    <2>2. ASSUME NEW m \in Movements, ReceiveMovement(p, m) PROVE FloorInv'
      <3>1. /\ UNCHANGED <<level, tx>> /\ req'[p].pc = "connect"
            /\ \A q \in Workers \ {p} : req'[q] = req[q]
        BY <1>0, <2>2 DEF ReceiveMovement, db, Idle
      <3> QED BY <3>1, FloorKept
    <2> QED BY <1>1, <2>1, <2>2
  <1>2. ASSUME NEW p \in Workers, PickWarehouse(p) \/ Connect(p) PROVE FloorInv'
    <2>1. /\ UNCHANGED <<level, tx>> /\ req'[p].pc \in {"save", "connect", "commit", "read"}
          /\ \A q \in Workers \ {p} : req'[q] = req[q]
      BY <1>0, <1>2 DEF PickWarehouse, Connect, db, Request
    <2> QED BY <2>1, FloorKept
  <1>3. ASSUME NEW p \in Workers, SkipLine(p) PROVE FloorInv'
    <2>1. req[p] \in Request /\ RequestOK(req[p]) /\ req[p].pc \in AtLine
      BY <1>3 DEF SkipLine, TypeInv, Typed, RequestsOK, AtLine
    <2>2. /\ UNCHANGED <<level, tx>> /\ req'[p] = NextLine(req[p])
          /\ \A q \in Workers \ {p} : req'[q] = req[q]
      BY <1>0, <1>3 DEF SkipLine, db
    <2>3. req'[p].pc \in {"read", "commit"} BY <2>1, <2>2, NextLineOK
    <2> QED BY <2>2, <2>3, FloorKept
  <1>4. ASSUME NEW p \in Workers, SaveStatus(p) \/ Abort(p) PROVE FloorInv'
    <2>1. /\ UNCHANGED level /\ req'[p].pc = "idle" /\ tx'[p] \in {tx[p], NoTx}
          /\ \A q \in Workers \ {p} : req'[q] = req[q] /\ tx'[q] = tx[q]
      BY <1>0, <1>4 DEF SaveStatus, Abort, db, Idle
    <2> QED BY <2>1, FloorKept
  <1>5. ASSUME UNCHANGED <<level, req, tx>> PROVE FloorInv'
    BY <1>5 DEF FloorInv, ReservedNotNegative, ReservedSafe, Slot, LineAt
  <1>6. ASSUME NEW w \in Warehouses, ChangeDefault(w) PROVE FloorInv'
    BY <1>5, <1>6 DEF ChangeDefault
  <1>7. CASE Drained \/ UNCHANGED vars BY <1>5, <1>7 DEF Drained, vars
  <1>8. ASSUME NEW p \in Workers, Serve(p) PROVE FloorInv'
    BY <1>2, <1>3, <1>4, <1>8, ReadLevelFloor, ReloadFloor, WriteFloor, CommitStockFloor, Failures
       DEF Serve
  <1>9. ASSUME NEW p \in Workers, ConnectionLost(p) PROVE FloorInv' BY <1>4, <1>9, Failures
  <1> QED BY <1>1, <1>6, <1>7, <1>8, <1>9 DEF Next

LEMMA FloorInvariant == Spec => []FloorInv
  <1> QED BY FloorInit, FloorNext, TypeInvariant, PTL DEF Spec

(***************************************************************************)
(* The goods on hand are never fewer than none, committed or in memory,    *)
(* for any number of overlapping requests that fail anywhere and lines of  *)
(* any quantity, negative ones included; and what is reserved of a row of  *)
(* which no line asks less than nothing is never negative. The guards and  *)
(* floors of InventoryService suffice although each is evaluated on a row  *)
(* that may be stale when it is written (inventory.service.ts:343-484).    *)
(***************************************************************************)
THEOREM TypeSafe == Spec => []TypeOK
  <1>1. TypeInv /\ FloorInv => TypeOK BY DEF TypeInv, FloorInv, TypeOK
  <1> QED BY <1>1, TypeInvariant, FloorInvariant, PTL

-----------------------------------------------------------------------------
(* Stock first, status second.                                             *)

LEMMA EffectNames ==
    /\ \A k : Saga!Causes(k) \subseteq Kinds
    /\ \A o, s : Saga!Backing(o, s) \subseteq Kinds
    /\ \A o, s : Lines[o] = <<>> => Saga!Backing(o, s) = {}
  <1>1. \A k : Saga!Causes(k) \subseteq Kinds BY DEF Saga!Causes, Kinds
  <1>2. \A o, s : Saga!Backing(o, s) \subseteq Kinds BY DEF Saga!Backing, Kinds
  <1>3. \A o, s : Lines[o] = <<>> => Saga!Backing(o, s) = {} BY DEF Saga!Backing
  <1> QED BY <1>1, <1>2, <1>3

\* Effects are never taken back.
Grown(a, b) == \A o \in Orders, k \in Kinds : a[o][k] > 0 => b[o][k] > 0

LEMMA DoneGrows ==
    ASSUME NEW a, NEW b, Grown(a, b), NEW o \in Orders, NEW kinds \in SUBSET Kinds,
           Done(a, o, kinds)
    PROVE  Done(b, o, kinds)
  BY DEF Done, Grown

LEMMA BackedGrows ==
    ASSUME NEW a, NEW b, Grown(a, b), NEW r, RequestBacked(a, r)
    PROVE  RequestBacked(b, r)
  <1> SUFFICES ASSUME r.pc # "idle" /\ r.ref \in Orders PROVE RequestBacked(b, r)
    BY DEF RequestBacked
  <1>1. \A kinds \in SUBSET Kinds : Done(a, r.ref, kinds) => Done(b, r.ref, kinds)
    BY DoneGrows
  <1>2. Saga!Causes(r.eff) \in SUBSET Kinds /\ Saga!Backing(r.ref, r.to) \in SUBSET Kinds
    BY EffectNames
  <1> QED BY <1>1, <1>2 DEF RequestBacked

\* A step of p that moves its request on, towards the commit of its stock.
LEMMA MovesOn ==
    ASSUME SagaInv, TypeInv', NEW p \in Workers,
           UNCHANGED <<status, applied>>,
           \A q \in Workers \ {p} : req'[q] = req[q],
           req[p].pc \notin {"idle", "save"},
           req'[p].ref = req[p].ref, req'[p].to = req[p].to, req'[p].eff = req[p].eff,
           req'[p].pc = "save" => Lines[req[p].ref] = <<>>
    PROVE  SagaInv'
  <1>1. RequestBacked(applied, req[p]) BY DEF SagaInv, RequestsBacked
  <1>2. RequestBacked(applied, req'[p])
    BY <1>1, EffectNames DEF RequestBacked, Done
  <1>3. \A q \in Workers : RequestBacked(applied', req'[q])
    BY <1>2 DEF SagaInv, RequestsBacked
  <1> QED BY <1>3 DEF SagaInv, RequestsBacked, NoLimbo, StatusDone, CausesDone

\* A step that ends the request of p and changes neither status nor stock.
LEMMA GivesUp ==
    ASSUME SagaInv, TypeInv', NEW p \in Workers, UNCHANGED <<status, applied>>,
           req' = [req EXCEPT ![p] = Idle]
    PROVE  SagaInv'
  <1>1. \A q \in Workers : req'[q] = req[q] \/ req'[q] = Idle
    BY DEF SagaInv, TypeInv, Typed
  <1>2. RequestBacked(applied, Idle) BY DEF RequestBacked, Idle
  <1>3. \A q \in Workers : RequestBacked(applied', req'[q])
    BY <1>1, <1>2 DEF SagaInv, RequestsBacked
  <1> QED BY <1>3 DEF SagaInv, RequestsBacked, NoLimbo, StatusDone, CausesDone

\* A request as Receive makes it is backed by what its order's status is
\* backed by: only a CONFIRMED order is shipped or has a reservation to
\* release, and only an order IN_PROGRESS is completed.
LEMMA ReceiveBacked ==
    ASSUME SagaInv, NEW o \in Orders, NEW to \in Status, Allowed(o, status[o], to)
    PROVE  LET eff == Effect(o, status[o], to)
           IN  /\ (eff # "none" /\ Lines[o] # <<>>) => Done(applied, o, Saga!Causes(eff))
               /\ eff # "none" => Saga!Backing(o, to) \subseteq Saga!Causes(eff) \cup {eff}
               /\ eff = "none" => Done(applied, o, Saga!Backing(o, to))
  <1> DEFINE from == status[o]
             eff == Effect(o, from, to)
             back(s) == Saga!Backing(o, s)
  <1>1. Done(applied, o, back(from)) BY DEF SagaInv, StatusDone
  <1>2. CASE o \in SalesOrders
    <2>1. o \notin ProductionOrders BY <1>2, IdsAssumption
    <2>2. SalesAllowed(from, to) /\ eff = SalesEffect(from, to)
      BY <1>2, <2>1 DEF Allowed, Effect
    <2>3. CASE to = "CONFIRMED"
      <3>1. eff = "reserve" BY <2>2, <2>3 DEF SalesEffect
      <3>2. Saga!Causes(eff) = {} BY <3>1 DEF Saga!Causes
      <3>3. back(to) \subseteq {"reserve"} BY <1>2, <2>1, <2>3 DEF Saga!Backing
      <3> QED BY <3>1, <3>2, <3>3 DEF Done
    <2>4. CASE to = "SHIPPED"
      <3>1. from = "CONFIRMED" BY <2>2, <2>4 DEF SalesAllowed
      <3>2. eff = "ship" BY <2>2, <2>4 DEF SalesEffect
      <3>3. Saga!Causes(eff) = {"reserve"} BY <3>2 DEF Saga!Causes
      <3>4. Lines[o] # <<>> => back(from) = {"reserve"} BY <1>2, <3>1 DEF Saga!Backing
      <3>5. back(to) \subseteq {"reserve", "ship"} BY <1>2, <2>1, <2>4 DEF Saga!Backing
      <3> QED BY <1>1, <3>2, <3>3, <3>4, <3>5
    <2>5. CASE to = "CANCELLED"
      <3>1. back(to) = {} BY <1>2, <2>1, <2>5 DEF Saga!Backing
      <3>2. from \notin {"PARTIALLY_SHIPPED", "INVOICED"} BY <1>2 DEF SagaInv, NoLimbo
      <3>3. eff = "none" \/ (eff = "release" /\ from = "CONFIRMED")
        BY <2>2, <2>5, <3>2 DEF SalesEffect
      <3>4. CASE eff = "none" BY <3>1, <3>4 DEF Done
      <3>5. CASE eff = "release" /\ from = "CONFIRMED"
        <4>1. Saga!Causes(eff) = {"reserve"} BY <3>5 DEF Saga!Causes
        <4>2. Lines[o] # <<>> => back(from) = {"reserve"} BY <1>2, <3>5 DEF Saga!Backing
        <4> QED BY <1>1, <3>1, <3>5, <4>1, <4>2
      <3> QED BY <3>3, <3>4, <3>5
    <2> QED BY <2>2, <2>3, <2>4, <2>5 DEF SalesAllowed
  <1>3. CASE o \in ProductionOrders
    <2>1. o \notin SalesOrders BY <1>3, IdsAssumption
    <2>2. ProductionAllowed(from, to) /\ eff = ProductionEffect(o, to)
      BY <1>3, <2>1 DEF Allowed, Effect
    <2>3. CASE to = "IN_PROGRESS" /\ Lines[o] # <<>>
      <3>1. eff = "consume" BY <2>2, <2>3 DEF ProductionEffect
      <3>2. Saga!Causes(eff) = {} BY <3>1 DEF Saga!Causes
      <3>3. back(to) = {"consume"} BY <1>3, <2>1, <2>3 DEF Saga!Backing
      <3> QED BY <3>1, <3>2, <3>3 DEF Done
    <2>4. CASE ~(to = "IN_PROGRESS" /\ Lines[o] # <<>>)
      <3>1. eff = "none" BY <2>2, <2>4 DEF ProductionEffect
      <3>2. to = "COMPLETED" => from = "IN_PROGRESS" BY <2>2 DEF ProductionAllowed
      <3>3. to = "COMPLETED" => back(to) = back(from) BY <1>3, <2>1, <3>2 DEF Saga!Backing
      <3>4. to # "COMPLETED" => back(to) = {} BY <1>3, <2>1, <2>4 DEF Saga!Backing
      <3> QED BY <1>1, <3>1, <3>3, <3>4 DEF Done
    <2> QED BY <2>3, <2>4
  <1> QED BY <1>2, <1>3 DEF Orders

LEMMA ReceiveSaga ==
    ASSUME SagaInv, TypeInv', NEW p \in Workers, NEW o \in Orders, NEW to \in Status,
           Receive(p, o, to)
    PROVE  SagaInv' /\ UNCHANGED <<status, applied>>
  <1> DEFINE eff == Effect(o, status[o], to)
  <1>1. Allowed(o, status[o], to) /\ UNCHANGED <<status, applied>> BY DEF Receive, db
  <1>2. PICK r : req' = [req EXCEPT ![p] = r]
                 /\ r = [Idle EXCEPT !.pc = IF eff = "none" THEN "save" ELSE "warehouse",
                                     !.ref = o, !.to = to, !.eff = eff]
    BY DEF Receive
  <1> HIDE DEF eff
  <1>3. r.ref = o /\ r.to = to /\ r.eff = eff /\ (r.pc = "save" <=> eff = "none")
    BY <1>2 DEF Idle
  <1>4. RequestBacked(applied, r) BY <1>1, <1>3, ReceiveBacked DEF RequestBacked, eff
  <1>5. \A q \in Workers : req'[q] = req[q] \/ req'[q] = r
    BY <1>2 DEF SagaInv, TypeInv, Typed
  <1>6. \A q \in Workers : RequestBacked(applied', req'[q])
    BY <1>1, <1>4, <1>5 DEF SagaInv, RequestsBacked
  <1> QED BY <1>1, <1>6 DEF SagaInv, RequestsBacked, NoLimbo, StatusDone, CausesDone

LEMMA ReceiveMovementSaga ==
    ASSUME SagaInv, TypeInv', NEW p \in Workers, NEW m \in Movements, ReceiveMovement(p, m)
    PROVE  SagaInv' /\ UNCHANGED <<status, applied>>
  <1>1. PICK r : req' = [req EXCEPT ![p] = r]
                 /\ r = [Idle EXCEPT !.pc = "connect", !.ref = m, !.eff = "adjust"]
    BY DEF ReceiveMovement
  <1>2. r.ref \notin Orders BY <1>1, IdsAssumption DEF Idle
  <1>3. RequestBacked(applied, r) BY <1>2 DEF RequestBacked
  <1>4. \A q \in Workers : req'[q] = req[q] \/ req'[q] = r
    BY <1>1 DEF SagaInv, TypeInv, Typed
  <1>5. UNCHANGED <<status, applied>> BY DEF ReceiveMovement, db
  <1>6. \A q \in Workers : RequestBacked(applied', req'[q])
    BY <1>3, <1>4, <1>5 DEF SagaInv, RequestsBacked
  <1> QED BY <1>5, <1>6 DEF SagaInv, RequestsBacked, NoLimbo, StatusDone, CausesDone

\* The database calls before the commit of the stock leave the request's
\* order, status and effect alone.
LEMMA CallsKeep ==
    ASSUME TypeInv, NEW p \in Workers,
           \/ PickWarehouse(p) \/ Connect(p) \/ ReadLevel(p)
           \/ SkipLine(p) \/ Reload(p) \/ Write(p)
    PROVE  /\ UNCHANGED <<status, applied, torn>>
           /\ \A w \in Workers \ {p} : req'[w] = req[w]
           /\ req[p].pc \notin {"idle", "save"}
           /\ req'[p].ref = req[p].ref /\ req'[p].to = req[p].to /\ req'[p].eff = req[p].eff
           /\ req'[p].pc = "save" => req[p].ref \in Orders /\ Lines[req[p].ref] = <<>>
  <1> DEFINE q == req[p]
             Same == /\ \A w \in Workers \ {p} : req'[w] = req[w]
                     /\ q.pc \notin {"idle", "save"}
                     /\ req'[p].ref = q.ref /\ req'[p].to = q.to /\ req'[p].eff = q.eff
                     /\ req'[p].pc = "save" => q.ref \in Orders /\ Lines[q.ref] = <<>>
  <1>1. q \in Request /\ RequestOK(q) /\ req \in [Workers -> Request]
    BY DEF TypeInv, Typed, RequestsOK
  <1>2. CASE PickWarehouse(p)
    <2> DEFINE pc == IF Lines[q.ref] = <<>> THEN "save" ELSE "connect"
    <2>1. q.pc = "warehouse" /\ req' = [req EXCEPT ![p].wh = defaultWh, ![p].pc = pc]
      BY <1>2 DEF PickWarehouse
    <2>2. pc = "save" => Lines[q.ref] = <<>> OBVIOUS
    <2>3. q.ref \in Orders
      BY <1>1, <2>1 DEF RequestOK, OrderRequest, MovementRequest, InTransaction
    <2> HIDE DEF pc
    <2>4. Same BY <1>1, <2>1, <2>2, <2>3 DEF Request
    <2> QED BY <1>2, <2>4 DEF PickWarehouse, db
  <1>3. CASE Connect(p)
    <2> DEFINE pc == IF LinesOf(q.ref) = <<>> THEN "commit" ELSE "read"
    <2>1. q.pc = "connect" /\ req' = [req EXCEPT ![p].pc = pc] BY <1>3 DEF Connect
    <2>2. pc # "save" OBVIOUS
    <2> HIDE DEF pc
    <2>3. Same BY <1>1, <2>1, <2>2 DEF Request
    <2> QED BY <1>3, <2>3 DEF Connect, db
  <1>4. CASE ReadLevel(p)
    <2> DEFINE e == Exists(p, Slot(p))
               after == After(q.eff, View(p, Slot(p)), LineAt(p).qty)
               cols == IF e THEN {} ELSE Columns
               pc == IF e THEN "reload" ELSE "write"
    <2>1. q.pc = "read" /\ req' = [req EXCEPT ![p].row = after, ![p].fresh = ~e,
                                              ![p].dirty = cols, ![p].pc = pc]
      BY <1>4 DEF ReadLevel
    <2>2. pc # "save" OBVIOUS
    <2> HIDE DEF e, after, cols, pc
    <2>3. Same BY <1>1, <2>1, <2>2 DEF Request
    <2> QED BY <1>4, <2>3 DEF ReadLevel, db
  <1>5. CASE Reload(p)
    <2> DEFINE cols == Differing(q.eff, q.row, View(p, Slot(p)))
    <2>1. q.pc = "reload" /\ req' = [req EXCEPT ![p].dirty = cols, ![p].pc = "write"]
      BY <1>5 DEF Reload
    <2> HIDE DEF cols
    <2>2. Same BY <1>1, <2>1 DEF Request
    <2> QED BY <1>5, <2>2 DEF Reload, db
  <1>6. CASE SkipLine(p) \/ Write(p)
    <2>1. q.pc \in AtLine /\ req' = [req EXCEPT ![p] = NextLine(q)]
      BY <1>6 DEF SkipLine, Write, AtLine
    <2>2. /\ NextLine(q).ref = q.ref /\ NextLine(q).to = q.to /\ NextLine(q).eff = q.eff
          /\ NextLine(q).pc \in {"read", "commit"}
      BY <1>1, <2>1, NextLineOK
    <2>3. Same BY <1>1, <2>1, <2>2 DEF AtLine
    <2>4. UNCHANGED <<status, applied, torn>> BY <1>6 DEF SkipLine, Write, db
    <2> QED BY <2>3, <2>4
  <1> QED BY <1>2, <1>3, <1>4, <1>5, <1>6

LEMMA CallsSaga ==
    ASSUME SagaInv, TypeInv', NEW p \in Workers,
           \/ PickWarehouse(p) \/ Connect(p) \/ ReadLevel(p)
           \/ SkipLine(p) \/ Reload(p) \/ Write(p)
    PROVE  SagaInv' /\ UNCHANGED <<status, applied>>
  <1>1. TypeInv BY DEF SagaInv
  <1>2. /\ UNCHANGED <<status, applied>>
        /\ \A w \in Workers \ {p} : req'[w] = req[w]
        /\ req[p].pc \notin {"idle", "save"}
        /\ req'[p].ref = req[p].ref /\ req'[p].to = req[p].to /\ req'[p].eff = req[p].eff
        /\ req'[p].pc = "save" => Lines[req[p].ref] = <<>>
    BY <1>1, CallsKeep
  <1> QED BY <1>2, MovesOn

\* The commit of the stock: an effect of an order is counted, one that its
\* own causes precede; a manual movement counts for no order.
LEMMA CommitStockSaga ==
    ASSUME SagaInv, TypeInv', NEW p \in Workers, CommitStock(p)
    PROVE  /\ SagaInv'
           /\ UNCHANGED status
           /\ \/ \A o \in Orders : applied'[o] = applied[o]
              \/ \E o \in Orders, k \in Kinds :
                    /\ Lines[o] # <<>> /\ Done(applied, o, Saga!Causes(k))
                    /\ applied' = [applied EXCEPT ![o][k] = @ + 1]
  <1> DEFINE q == req[p]
  <1>1. /\ q \in Request /\ RequestOK(q) /\ RequestBacked(applied, q)
        /\ applied \in [Refs -> [Kinds -> Nat]] /\ req \in [Workers -> Request]
    BY DEF SagaInv, RequestsBacked, TypeInv, Typed, RequestsOK
  <1>2. q.pc = "commit" /\ UNCHANGED status /\ applied' = [applied EXCEPT ![q.ref][q.eff] = @ + 1]
    BY DEF CommitStock
  <1>3. OrderRequest(q) \/ MovementRequest(q) BY <1>1, <1>2 DEF RequestOK
  <1>4. q.ref \in Refs /\ q.eff \in Kinds
    BY <1>1, <1>2, <1>3, KnownRef DEF OrderRequest, MovementRequest, Request, Kinds
  <1>5. applied'[q.ref][q.eff] > 0 BY <1>1, <1>2, <1>4
  <1>6. \A o \in Refs, k \in Kinds :
            <<o, k>> # <<q.ref, q.eff>> => applied'[o][k] = applied[o][k]
    BY <1>1, <1>2, <1>4
  <1>7. Grown(applied, applied') BY <1>5, <1>6 DEF Grown, Refs
  <1>8. \A r : RequestBacked(applied, r) => RequestBacked(applied', r) BY <1>7, BackedGrows
  <1>9. \A o \in Orders : \A kinds \in SUBSET Kinds : Done(applied, o, kinds) => Done(applied', o, kinds)
    BY <1>7, DoneGrows
  <1>10. StatusDone' BY <1>2, <1>9, EffectNames DEF SagaInv, StatusDone
  <1>11. CASE q.ref \in Movements
    <2>1. \A o \in Orders : applied'[o] = applied[o] BY <1>1, <1>2, <1>11, IdsAssumption
    <2>2. CausesDone' BY <1>9, <2>1, EffectNames DEF SagaInv, CausesDone
    <2>3. req' = [req EXCEPT ![p] = Idle] BY <1>11 DEF CommitStock
    <2>4. RequestBacked(applied', Idle) BY DEF RequestBacked, Idle
    <2>5. \A w \in Workers : RequestBacked(applied', req'[w])
      BY <1>1, <1>8, <2>3, <2>4 DEF SagaInv, RequestsBacked
    <2> QED BY <1>2, <1>10, <2>1, <2>2, <2>5 DEF SagaInv, RequestsBacked, NoLimbo
  <1>12. CASE q.ref \notin Movements
    <2>1. OrderRequest(q) /\ Lines[q.ref] # <<>> /\ q.eff # "none" /\ q.ref \in Orders
      BY <1>2, <1>3, <1>12 DEF OrderRequest, MovementRequest, InTransaction
    <2>2. Done(applied, q.ref, Saga!Causes(q.eff)) BY <1>1, <1>2, <2>1 DEF RequestBacked
    <2>3. CausesDone'
      BY <1>6, <1>9, <2>1, <2>2, EffectNames DEF SagaInv, CausesDone, Refs
    <2>4. PICK r : req' = [req EXCEPT ![p] = r] /\ r = [q EXCEPT !.pc = "save"]
      BY <1>12 DEF CommitStock
    <2>5. r.pc = "save" /\ r.ref = q.ref /\ r.to = q.to /\ r.eff = q.eff BY <1>1, <2>4 DEF Request
    <2>6. Done(applied', q.ref, Saga!Causes(q.eff)) BY <1>9, <2>1, <2>2, EffectNames
    <2>7. Saga!Backing(q.ref, q.to) \subseteq Saga!Causes(q.eff) \cup {q.eff}
      BY <1>1, <1>2, <2>1 DEF RequestBacked
    <2>8. Done(applied', q.ref, Saga!Backing(q.ref, q.to)) BY <1>5, <2>6, <2>7 DEF Done
    <2>9. RequestBacked(applied', r) BY <2>5, <2>6, <2>8 DEF RequestBacked
    <2>10. \A w \in Workers : RequestBacked(applied', req'[w])
      BY <1>1, <1>8, <2>4, <2>9 DEF SagaInv, RequestsBacked
    <2> QED BY <1>2, <1>4, <1>10, <2>1, <2>2, <2>3, <2>10 DEF SagaInv, RequestsBacked, NoLimbo
  <1> QED BY <1>11, <1>12

\* The commit of the status: everything it stands for was committed before.
LEMMA SaveStatusSaga ==
    ASSUME SagaInv, TypeInv', NEW p \in Workers, SaveStatus(p)
    PROVE  /\ SagaInv'
           /\ UNCHANGED applied
           /\ \E o \in Orders, s \in Status \ {"DRAFT"} :
                 /\ Done(applied, o, Saga!Backing(o, s))
                 /\ status' = [status EXCEPT ![o] = s]
  <1> DEFINE q == req[p]
  <1>1. /\ q \in Request /\ RequestOK(q) /\ RequestBacked(applied, q) /\ q.pc = "save"
        /\ status \in [Orders -> Status] /\ req \in [Workers -> Request]
    BY DEF SaveStatus, SagaInv, RequestsBacked, TypeInv, Typed, RequestsOK
  <1>2. OrderRequest(q) BY <1>1 DEF RequestOK, MovementRequest, InTransaction
  <1>3. q.ref \in Orders /\ q.to \in Status \ {"DRAFT"}
    BY <1>2 DEF OrderRequest, Orders, Status, SalesStatus
  <1>4. Done(applied, q.ref, Saga!Backing(q.ref, q.to)) BY <1>1, <1>3 DEF RequestBacked
  <1>5. status' = [status EXCEPT ![q.ref] = q.to] /\ UNCHANGED applied BY DEF SaveStatus
  <1>6. StatusDone' BY <1>1, <1>3, <1>4, <1>5 DEF SagaInv, StatusDone
  <1>7. NoLimbo' BY <1>1, <1>2, <1>3, <1>5 DEF SagaInv, NoLimbo, OrderRequest, Orders
  <1>8. CausesDone' BY <1>5 DEF SagaInv, CausesDone
  <1>9. req' = [req EXCEPT ![p] = Idle] BY DEF SaveStatus
  <1>10. RequestBacked(applied, Idle) BY DEF RequestBacked, Idle
  <1>11. \A w \in Workers : RequestBacked(applied', req'[w])
    BY <1>1, <1>5, <1>9, <1>10 DEF SagaInv, RequestsBacked
  <1> QED BY <1>3, <1>4, <1>5, <1>6, <1>7, <1>8, <1>11 DEF SagaInv, RequestsBacked

LEMMA SagaInit == Init => SagaInv
  <1> SUFFICES ASSUME Init PROVE SagaInv OBVIOUS
  <1>1. TypeInv BY TypeInit
  <1>2. \A o \in Orders : status[o] = "DRAFT" /\ Saga!Backing(o, status[o]) = {}
    BY DEF Init, Saga!Backing
  <1>3. NoLimbo /\ StatusDone BY <1>2 DEF NoLimbo, StatusDone, Done, Orders
  <1>4. \A o \in Orders, k \in Kinds : applied[o][k] = 0 BY DEF Init, Refs
  <1>5. CausesDone BY <1>4 DEF CausesDone
  <1>6. RequestsBacked BY DEF Init, RequestsBacked, RequestBacked, Idle
  <1> QED BY <1>1, <1>3, <1>5, <1>6 DEF SagaInv

\* What a step does to statuses and stock effects, for the abstract module.
SagaStep ==
    \/ UNCHANGED status /\ \A o \in Orders : applied'[o] = applied[o]
    \/ /\ UNCHANGED status
       /\ \E o \in Orders, k \in Kinds :
             /\ Lines[o] # <<>> /\ Done(applied, o, Saga!Causes(k))
             /\ applied' = [applied EXCEPT ![o][k] = @ + 1]
    \/ /\ UNCHANGED applied
       /\ \E o \in Orders, s \in Status \ {"DRAFT"} :
             /\ Done(applied, o, Saga!Backing(o, s))
             /\ status' = [status EXCEPT ![o] = s]

LEMMA SagaNext == SagaInv /\ [Next]_vars => SagaInv' /\ SagaStep
  <1> SUFFICES ASSUME SagaInv, [Next]_vars PROVE SagaInv' /\ SagaStep OBVIOUS
  <1>1. TypeInv' BY TypeStep DEF SagaInv
  <1>2. ASSUME NEW p \in Workers, NEW o \in Orders, NEW to \in Status, Receive(p, o, to)
        PROVE  SagaInv' /\ SagaStep
    BY <1>1, <1>2, ReceiveSaga DEF SagaStep
  <1>3. ASSUME NEW p \in Workers, NEW m \in Movements, ReceiveMovement(p, m)
        PROVE  SagaInv' /\ SagaStep
    BY <1>1, <1>3, ReceiveMovementSaga DEF SagaStep
  <1>4. ASSUME NEW p \in Workers, Abort(p) PROVE SagaInv' /\ SagaStep
    BY <1>1, <1>4, GivesUp DEF SagaStep, Abort, db
  <1>5. ASSUME NEW p \in Workers, CommitStock(p) PROVE SagaInv' /\ SagaStep
    BY <1>1, <1>5, CommitStockSaga DEF SagaStep
  <1>6. ASSUME NEW p \in Workers, SaveStatus(p) PROVE SagaInv' /\ SagaStep
    BY <1>1, <1>6, SaveStatusSaga DEF SagaStep
  <1>7. ASSUME NEW p \in Workers, Serve(p) PROVE SagaInv' /\ SagaStep
    <2>1. CASE \/ PickWarehouse(p) \/ Connect(p) \/ ReadLevel(p)
               \/ SkipLine(p) \/ Reload(p) \/ Write(p)
      BY <1>1, <2>1, CallsSaga DEF SagaStep
    <2> QED BY <1>4, <1>5, <1>6, <1>7, <2>1, Failures DEF Serve
  <1>8. ASSUME NEW p \in Workers, ConnectionLost(p) PROVE SagaInv' /\ SagaStep
    BY <1>4, <1>8, Failures
  <1>9. ASSUME UNCHANGED <<status, applied, req>> PROVE SagaInv' /\ SagaStep
    BY <1>1, <1>9
       DEF SagaInv, SagaStep, RequestsBacked, NoLimbo, StatusDone, CausesDone
  <1>10. ASSUME NEW w \in Warehouses, ChangeDefault(w) PROVE SagaInv' /\ SagaStep
    BY <1>9, <1>10 DEF ChangeDefault
  <1>11. CASE Drained \/ UNCHANGED vars BY <1>9, <1>11 DEF Drained, vars
  <1> QED BY <1>2, <1>3, <1>7, <1>8, <1>10, <1>11 DEF Next

\* The abstract module's counters, and its steps.
LEMMA SagaMapInit == Init => Saga!Init
  BY DEF Init, Saga!Init, Saga!Orders, Orders, Refs

LEMMA SagaMapNext == SagaInv /\ SagaStep => [Saga!Next]_(Saga!vars)
  <1> SUFFICES ASSUME SagaInv, SagaStep PROVE [Saga!Next]_(Saga!vars) OBVIOUS
  <1> DEFINE done == [o \in Orders |-> applied[o]]
  <1>1. applied \in [Refs -> [Kinds -> Nat]] /\ Saga!Orders = Orders
    BY DEF SagaInv, TypeInv, Typed, Saga!Orders, Orders
  <1>2. ASSUME NEW o \in Orders, NEW kinds
        PROVE  Done(applied, o, kinds) <=> Saga!Happened(o, kinds)
    BY DEF Done, Saga!Happened
  <1>3. CASE UNCHANGED status /\ \A o \in Orders : applied'[o] = applied[o]
    BY <1>3 DEF Saga!vars
  <1>4. ASSUME UNCHANGED status, NEW o \in Orders, NEW k \in Kinds, Lines[o] # <<>>,
               Done(applied, o, Saga!Causes(k)), applied' = [applied EXCEPT ![o][k] = @ + 1]
        PROVE  Saga!Next
    <2>1. [x \in Orders |-> applied'[x]] = [done EXCEPT ![o][k] = @ + 1]
      BY <1>1, <1>4 DEF Refs
    <2>2. Saga!StockEffect(o, k) BY <1>2, <1>4, <2>1 DEF Saga!StockEffect
    <2> QED BY <1>1, <2>2 DEF Saga!Next
  <1>5. ASSUME UNCHANGED applied, NEW o \in Orders, NEW s \in Status \ {"DRAFT"},
               Done(applied, o, Saga!Backing(o, s)), status' = [status EXCEPT ![o] = s]
        PROVE  Saga!Next
    <2>1. Saga!SetStatus(o, s) BY <1>2, <1>5 DEF Saga!SetStatus
    <2> QED BY <1>1, <2>1 DEF Saga!Next
  <1> QED BY <1>3, <1>4, <1>5 DEF SagaStep

(***************************************************************************)
(* The two transactions of a status change implement OrderSaga: whatever   *)
(* requests overlap and wherever they fail, a status is committed only     *)
(* after the stock effects it stands for.                                  *)
(***************************************************************************)
THEOREM Refines == Spec => ImplementsSaga
  <1>1. Spec => [][SagaStep /\ SagaInv]_vars
    BY SagaInit, SagaNext, PTL DEF Spec
  <1>2. (SagaStep /\ SagaInv) => [Saga!Next]_(Saga!vars) BY SagaMapNext
  <1>3. UNCHANGED vars => UNCHANGED Saga!vars BY DEF vars, Saga!vars
  <1> QED BY SagaMapInit, <1>1, <1>2, <1>3, PTL DEF Spec, ImplementsSaga, Saga!Spec

(***************************************************************************)
(* In every state, every order's status is backed by committed stock       *)
(* effects, and goods were shipped or reservations released only for       *)
(* orders that reserved (sales.service.ts:199-292).                        *)
(***************************************************************************)
THEOREM EveryStatusBacked == Spec => [](Saga!StatusBacked /\ Saga!EffectsCaused)
  <1>1. SagaInv => Saga!StatusBacked /\ Saga!EffectsCaused
    BY DEF SagaInv, StatusDone, CausesDone, Done, Saga!StatusBacked, Saga!EffectsCaused,
           Saga!Happened, Saga!Orders, Orders
  <1> QED BY SagaInit, SagaNext, <1>1, PTL DEF Spec
-----------------------------------------------------------------------------
(* Served one request at a time.                                           *)

OneAtATime == \A p, q \in Workers : p = q

\* What an inner transaction sees is what is committed and the goods it has moved;
\* the line it is at moves the goods its own movement will say.
GoodsFit(p) ==
    LET r == req[p]
        s == Slot(p)
    IN  /\ \A x \in Slots : View(p, x).onHand = level[x].onHand + tx[p].moved[x]
        /\ r.pc = "reload" => r.row = After(r.eff, View(p, s), LineAt(p).qty)
        /\ r.pc = "write" => Overwrite(View(p, s), r.row, r.dirty)
                                 = After(r.eff, View(p, s), LineAt(p).qty)

BooksInv == TypeInv /\ StockMatchesMovements /\ \A p \in Workers : GoodsFit(p)

\* A request in flight is one its order's status allows, and once its effect is
\* committed the order has had what its next status calls for.
OnceFit(p, o) ==
    LET r == req[p]
    IN  /\ Allowed(o, status[o], r.to) /\ r.eff = Effect(o, status[o], r.to)
        /\ EffectDone(p) => AsOften(o, r.to, applied[o])

OnceInv ==
    /\ SagaInv
    /\ EffectsExactlyOnce
    /\ \A p \in Workers, o \in Orders \ torn :
           Lines[o] # <<>> /\ req[p].pc # "idle" /\ req[p].ref = o => OnceFit(p, o)
-----------------------------------------------------------------------------
(* Stock and movements.                                                    *)

LEMMA AfterMoves ==
    ASSUME NEW kind \in Kinds, NEW r \in Row, NEW q \in Int
    PROVE  After(kind, r, q).onHand = r.onHand + GoodsMoved(kind, q)
  <1>1. CASE kind = "reserve" BY <1>1 DEF After, GoodsMoved, Row
  <1>2. CASE kind = "release" BY <1>2 DEF After, GoodsMoved, Row
  <1>3. CASE kind = "ship"    BY <1>3 DEF After, GoodsMoved, Row
  <1>4. CASE kind = "consume" BY <1>4 DEF After, GoodsMoved, Row
  <1>5. CASE kind = "adjust"  BY <1>5 DEF After, GoodsMoved, Row
  <1> QED BY <1>1, <1>2, <1>3, <1>4, <1>5 DEF Kinds

\* save() of an entity that was read from the row as it still is writes the entity.
LEMMA AllWritten ==
    ASSUME NEW a \in Row, NEW b \in Row
    PROVE  /\ Overwrite(a, b, Columns) = b
           /\ \A kind : Overwrite(a, b, Differing(kind, b, a)) = b
  <1>1. ASSUME NEW cols, "onHand" \in cols \/ b.onHand = a.onHand,
               "reserved" \in cols \/ b.reserved = a.reserved
        PROVE  Overwrite(a, b, cols) = b
    <2>1. Overwrite(a, b, cols) = [onHand |-> b.onHand, reserved |-> b.reserved]
      BY <1>1 DEF Overwrite
    <2> QED BY <2>1 DEF Row
  <1>2. ASSUME NEW kind
        PROVE  LET cols == Differing(kind, b, a)
               IN  /\ "onHand" \in cols \/ b.onHand = a.onHand
                   /\ "reserved" \in cols \/ b.reserved = a.reserved
    <2>1. "onHand" \in Columns /\ "reserved" \in Columns BY DEF Columns
    <2>2. b["onHand"] = b.onHand /\ a["onHand"] = a.onHand
          /\ b["reserved"] = b.reserved /\ a["reserved"] = a.reserved
      OBVIOUS
    <2> QED BY <2>1, <2>2 DEF Differing
  <1> QED BY <1>1, <1>2 DEF Columns

\* A step that changes nothing of the stock, in the database or in a transaction, and
\* leaves its request at no entity.
LEMMA NoGoods ==
    ASSUME OneAtATime, BooksInv, TypeInv', NEW p \in Workers, UNCHANGED <<level, goods, tx>>,
           req'[p].pc \notin {"reload", "write"}
    PROVE  BooksInv'
  <1>1. \A q \in Workers : q = p BY DEF OneAtATime
  <1>2. GoodsFit(p) BY DEF BooksInv
  <1>3. GoodsFit(p)' BY <1>2 DEF GoodsFit, View
  <1> QED BY <1>1, <1>3 DEF BooksInv, StockMatchesMovements

LEMMA ReadLevelBooks ==
    ASSUME OneAtATime, BooksInv, TypeInv', NEW p \in Workers, ReadLevel(p)
    PROVE  BooksInv'
  <1> DEFINE q == req[p]
             r == req'[p]
             s == Slot(p)
             e == Exists(p, s)
             v == View(p, s)
             after == After(q.eff, v, LineAt(p).qty)
  <1>1. q \in Request /\ q.pc = "read" /\ req \in [Workers -> Request]
    BY DEF ReadLevel, BooksInv, TypeInv, Typed
  <1>2. q.eff \in Kinds /\ LineAt(p).qty \in Int /\ s \in Slots
    BY <1>1, LineInfo DEF AtLine, BooksInv
  <1>3. v \in Row /\ e \in BOOLEAN BY <1>2, ViewIsRow DEF BooksInv, TypeInv
  <1>4. after \in Row BY <1>2, <1>3, RowSafe DEF ReadLevel
  <1>5. /\ r.row = after /\ r.eff = q.eff /\ r.ref = q.ref /\ r.wh = q.wh /\ r.line = q.line
        /\ r.pc \in {"reload", "write"} /\ (r.pc = "write" => r.dirty = Columns)
    <2> DEFINE cols == IF e THEN {} ELSE Columns
               pc == IF e THEN "reload" ELSE "write"
    <2>1. req' = [req EXCEPT ![p].row = after, ![p].fresh = ~e, ![p].dirty = cols, ![p].pc = pc]
      BY DEF ReadLevel
    <2>2. pc \in {"reload", "write"} /\ (pc = "write" => cols = Columns) OBVIOUS
    <2> HIDE DEF e, after, cols, pc
    <2>3. /\ r.row = after /\ r.eff = q.eff /\ r.ref = q.ref /\ r.wh = q.wh /\ r.line = q.line
          /\ r.pc = pc /\ r.dirty = cols
      BY <1>1, <2>1 DEF Request
    <2> QED BY <2>2, <2>3
  <1>6. UNCHANGED <<level, goods, tx>> BY DEF ReadLevel, db
  <1>7. LineAt(p)' = LineAt(p) BY <1>5 DEF LineAt
  <1>8. Slot(p)' = s BY <1>5, <1>7 DEF Slot
  <1>9. \A x : View(p, x)' = View(p, x) BY <1>6 DEF View
  <1>10. Overwrite(v, after, Columns) = after BY <1>3, <1>4, AllWritten
  <1>11. \A x \in Slots : View(p, x).onHand = level[x].onHand + tx[p].moved[x]
    BY DEF BooksInv, GoodsFit
  <1> HIDE DEF q, s, v, after, e
  <1>12. View(p, Slot(p))' = v BY <1>8, <1>9 DEF v, s
  <1> DEFINE fit == GoodsFit(p)'
  <1>13. GoodsFit(p)'
    <2>1. (\A x \in Slots : View(p, x).onHand = level[x].onHand + tx[p].moved[x])'
      BY <1>6, <1>9, <1>11
    <2>2. (req[p].row = After(req[p].eff, View(p, Slot(p)), LineAt(p).qty))'
      BY <1>5, <1>7, <1>12 DEF after, q
    <2>3. (req[p].pc = "write" => Overwrite(View(p, Slot(p)), req[p].row, req[p].dirty) = req[p].row)'
      BY <1>5, <1>10, <1>12
    <2> QED BY <2>1, <2>2, <2>3 DEF GoodsFit
  <1>14. \A w \in Workers : w = p BY DEF OneAtATime
  <1> QED BY <1>6, <1>13, <1>14 DEF BooksInv, StockMatchesMovements

LEMMA ReloadBooks ==
    ASSUME OneAtATime, BooksInv, TypeInv', NEW p \in Workers, Reload(p)
    PROVE  BooksInv'
  <1> DEFINE q == req[p]
             r == req'[p]
             s == Slot(p)
             v == View(p, s)
             cols == Differing(q.eff, q.row, v)
  <1>1. q \in Request /\ q.pc = "reload" /\ req \in [Workers -> Request]
    BY DEF Reload, BooksInv, TypeInv, Typed
  <1>2. s \in Slots BY <1>1, LineInfo DEF AtLine, BooksInv
  <1>3. v \in Row /\ q.row \in Row BY <1>1, <1>2, ViewIsRow DEF BooksInv, TypeInv, Request
  <1>4. /\ r.row = q.row /\ r.eff = q.eff /\ r.ref = q.ref /\ r.wh = q.wh /\ r.line = q.line
        /\ r.pc = "write" /\ r.dirty = cols
    <2>1. req' = [req EXCEPT ![p].dirty = cols, ![p].pc = "write"] BY DEF Reload
    <2> HIDE DEF cols
    <2> QED BY <1>1, <2>1 DEF Request
  <1>5. UNCHANGED <<level, goods, tx>> BY DEF Reload, db
  <1>6. LineAt(p)' = LineAt(p) BY <1>4 DEF LineAt
  <1>7. Slot(p)' = s BY <1>4, <1>6 DEF Slot
  <1>8. \A x : View(p, x)' = View(p, x) BY <1>5 DEF View
  <1>9. Overwrite(v, q.row, cols) = q.row BY <1>3, AllWritten
  <1>10. /\ \A x \in Slots : View(p, x).onHand = level[x].onHand + tx[p].moved[x]
         /\ q.row = After(q.eff, v, LineAt(p).qty)
    BY <1>1 DEF BooksInv, GoodsFit
  <1> HIDE DEF q, s, v, cols
  <1>11. View(p, Slot(p))' = v BY <1>7, <1>8 DEF v, s
  <1>12. GoodsFit(p)'
    <2>1. (\A x \in Slots : View(p, x).onHand = level[x].onHand + tx[p].moved[x])'
      BY <1>5, <1>8, <1>10
    <2>2. (Overwrite(View(p, Slot(p)), req[p].row, req[p].dirty)
               = After(req[p].eff, View(p, Slot(p)), LineAt(p).qty))'
      BY <1>4, <1>6, <1>9, <1>10, <1>11
    <2>3. req'[p].pc # "reload" BY <1>4
    <2> QED BY <2>1, <2>2, <2>3 DEF GoodsFit
  <1>13. \A w \in Workers : w = p BY DEF OneAtATime
  <1> QED BY <1>5, <1>12, <1>13 DEF BooksInv, StockMatchesMovements

LEMMA WriteBooks ==
    ASSUME OneAtATime, BooksInv, TypeInv', NEW p \in Workers, Write(p)
    PROVE  BooksInv'
  <1> DEFINE q == req[p]
             s == Slot(p)
             t == tx[p]
             v == View(p, s)
             new == Overwrite(v, q.row, q.dirty)
             moved == GoodsMoved(q.eff, LineAt(p).qty)
  <1>1. /\ q \in Request /\ RequestOK(q) /\ q.pc = "write" /\ tx \in [Workers -> Tx]
        /\ req \in [Workers -> Request] /\ level \in [Slots -> Row]
    BY DEF Write, BooksInv, TypeInv, Typed, RequestsOK
  <1>2. q.eff \in Kinds /\ LineAt(p).qty \in Int /\ s \in Slots
    BY <1>1, LineInfo DEF AtLine, BooksInv
  <1>3. v \in Row /\ moved \in Int BY <1>2, ViewIsRow, WholeMove DEF BooksInv, TypeInv
  <1>4. new.onHand = v.onHand + moved
    <2>1. new = After(q.eff, v, LineAt(p).qty) BY <1>1 DEF BooksInv, GoodsFit
    <2> QED BY <1>2, <1>3, <2>1, AfterMoves
  <1>5. \A x \in Slots : View(p, x).onHand = level[x].onHand + t.moved[x]
    BY DEF BooksInv, GoodsFit
  <1>6. /\ req' = [req EXCEPT ![p] = NextLine(q)]
        /\ tx' = [tx EXCEPT ![p].locked = @ \cup {s}, ![p].row[s] = new, ![p].moved[s] = @ + moved]
        /\ UNCHANGED <<level, goods>>
    BY DEF Write, db
  <1> HIDE DEF q, s, t, v, new, moved
  <1>7. /\ tx'[p].locked = t.locked \cup {s}
        /\ tx'[p].row = [t.row EXCEPT ![s] = new]
        /\ tx'[p].moved = [t.moved EXCEPT ![s] = @ + moved]
    BY <1>1, <1>6 DEF Tx, t
  <1>8. t \in Tx BY <1>1 DEF t
  <1>9. \A x \in Slots : /\ View(p, x)' = IF x = s THEN new ELSE View(p, x)
                         /\ tx'[p].moved[x] = t.moved[x] + (IF x = s THEN moved ELSE 0)
    <2> TAKE x \in Slots
    <2>1. t.row \in [Slots -> Row] /\ t.moved \in [Slots -> Int] /\ t.moved[x] \in Int
      BY <1>8 DEF Tx
    <2>2. tx'[p].row[x] = (IF x = s THEN new ELSE t.row[x])
          /\ tx'[p].moved[x] = (IF x = s THEN t.moved[x] + moved ELSE t.moved[x])
      BY <1>2, <1>7, <2>1
    <2>3. tx'[p].moved[x] = t.moved[x] + (IF x = s THEN moved ELSE 0)
      BY <1>3, <2>1, <2>2
    <2>4. View(p, x)' = IF x = s THEN new ELSE View(p, x)
      BY <1>6, <1>7, <2>2 DEF View, t
    <2> QED BY <2>3, <2>4
  <1>10. s \in Slots /\ View(p, s) = v BY <1>2 DEF v, s
  <1>11. \A x \in Slots : View(p, x)'.onHand = level[x].onHand + tx'[p].moved[x]
    <2> TAKE x \in Slots
    <2>1. level[x].onHand \in Int /\ t.moved[x] \in Int BY <1>1, <1>8 DEF Row, Tx
    <2>2. CASE x = s BY <1>3, <1>4, <1>5, <1>9, <1>10, <2>1, <2>2
    <2>3. CASE x # s BY <1>5, <1>9, <2>1, <2>3
    <2> QED BY <2>2, <2>3
  <1>12. req'[p].pc \in {"read", "commit"}
    BY <1>1, <1>6, NextLineOK DEF AtLine, q
  <1>13. GoodsFit(p)' BY <1>6, <1>11, <1>12 DEF GoodsFit
  <1>14. \A w \in Workers : w = p BY DEF OneAtATime
  <1> QED BY <1>6, <1>13, <1>14 DEF BooksInv, StockMatchesMovements

\* A request with no transaction of its own sees what is committed.
LEMMA FreshBooks ==
    ASSUME OneAtATime, TypeInv', StockMatchesMovements', NEW p \in Workers,
           tx'[p] = NoTx, req'[p].pc \notin {"reload", "write"}
    PROVE  BooksInv'
  <1>1. \A x \in Slots : level'[x].onHand \in Int BY DEF TypeInv, Typed, Row
  <1>2. \A x \in Slots : View(p, x)' = level'[x] /\ tx'[p].moved[x] = 0 BY DEF View, NoTx
  <1>3. GoodsFit(p)' BY <1>1, <1>2 DEF GoodsFit
  <1>4. \A w \in Workers : w = p BY DEF OneAtATime
  <1> QED BY <1>3, <1>4 DEF BooksInv

LEMMA CommitStockBooks ==
    ASSUME OneAtATime, BooksInv, TypeInv', NEW p \in Workers, CommitStock(p)
    PROVE  BooksInv'
  <1>1. /\ req[p] \in Request /\ req \in [Workers -> Request] /\ tx \in [Workers -> Tx]
        /\ level \in [Slots -> Row] /\ goods \in [Slots -> Int]
    BY DEF BooksInv, TypeInv, Typed
  <1>2. \A x \in Slots : View(p, x).onHand = level[x].onHand + tx[p].moved[x]
    BY DEF BooksInv, GoodsFit
  <1>3. \A x \in Slots : level'[x] = View(p, x) /\ goods'[x] = goods[x] + tx[p].moved[x]
    BY DEF CommitStock
  <1>4. StockMatchesMovements'
    <2> SUFFICES ASSUME NEW x \in Slots
                 PROVE  level'[x].onHand = InitLevel[x].onHand + goods'[x]
      BY DEF StockMatchesMovements
    <2>1. /\ level[x].onHand \in Int /\ goods[x] \in Int /\ tx[p].moved[x] \in Int
          /\ InitLevel[x].onHand \in Int
      BY <1>1, StockAssumption DEF Row, Tx
    <2>2. level[x].onHand = InitLevel[x].onHand + goods[x] BY DEF BooksInv, StockMatchesMovements
    <2> QED BY <1>2, <1>3, <2>1, <2>2
  <1>5. tx'[p] = NoTx BY <1>1 DEF CommitStock
  <1>6. req'[p].pc \in {"idle", "save"}
    <2>1. CASE req[p].ref \in Movements BY <1>1, <2>1 DEF CommitStock, Idle
    <2>2. CASE req[p].ref \notin Movements BY <1>1, <2>2 DEF CommitStock, Request
    <2> QED BY <2>1, <2>2
  <1> QED BY <1>4, <1>5, <1>6, FreshBooks

LEMMA AbortBooks ==
    ASSUME OneAtATime, BooksInv, TypeInv', NEW p \in Workers, Abort(p)
    PROVE  BooksInv'
  <1>1. req \in [Workers -> Request] /\ tx \in [Workers -> Tx] BY DEF BooksInv, TypeInv, Typed
  <1>2. tx'[p] = NoTx /\ req'[p] = Idle /\ UNCHANGED <<level, goods>> BY <1>1 DEF Abort, db
  <1>3. StockMatchesMovements' BY <1>2 DEF BooksInv, StockMatchesMovements
  <1> QED BY <1>2, <1>3, FreshBooks DEF Idle

\* The steps that read and write no row.
LEMMA PlainBooks ==
    ASSUME OneAtATime, BooksInv, TypeInv', NEW p \in Workers,
           \/ \E o \in Orders, to \in Status : Receive(p, o, to)
           \/ \E m \in Movements : ReceiveMovement(p, m)
           \/ PickWarehouse(p) \/ Connect(p) \/ SkipLine(p) \/ SaveStatus(p)
    PROVE  BooksInv'
  <1>1. req[p] \in Request /\ RequestOK(req[p]) /\ req \in [Workers -> Request]
    BY DEF BooksInv, TypeInv, Typed, RequestsOK
  <1>2. ASSUME NEW o \in Orders, NEW to \in Status, Receive(p, o, to) PROVE BooksInv'
    <2>1. PICK eff : req' = [req EXCEPT ![p] = [Idle EXCEPT
                       !.pc = IF eff = "none" THEN "save" ELSE "warehouse",
                       !.ref = o, !.to = to, !.eff = eff]]
      BY <1>2 DEF Receive
    <2>2. req'[p].pc \in {"save", "warehouse"} BY <1>1, <2>1 DEF Idle
    <2> QED BY <1>2, <2>2, NoGoods DEF Receive, db
  <1>3. ASSUME NEW m \in Movements, ReceiveMovement(p, m) PROVE BooksInv'
    <2>1. req'[p].pc = "connect" BY <1>1, <1>3 DEF ReceiveMovement, Idle
    <2> QED BY <1>3, <2>1, NoGoods DEF ReceiveMovement, db
  <1>4. CASE PickWarehouse(p)
    <2>1. PICK pc : pc \in {"save", "connect"} /\ req' = [req EXCEPT ![p].wh = defaultWh, ![p].pc = pc]
      BY <1>4 DEF PickWarehouse
    <2>2. req'[p].pc = pc BY <1>1, <2>1 DEF Request
    <2> QED BY <1>4, <2>1, <2>2, NoGoods DEF PickWarehouse, db
  <1>5. CASE Connect(p)
    <2>1. PICK pc : pc \in {"commit", "read"} /\ req' = [req EXCEPT ![p].pc = pc]
      BY <1>5 DEF Connect
    <2>2. req'[p].pc = pc BY <1>1, <2>1 DEF Request
    <2> QED BY <1>5, <2>1, <2>2, NoGoods DEF Connect, db
  <1>6. CASE SkipLine(p)
    <2>1. req'[p] = NextLine(req[p]) /\ req[p].pc \in AtLine BY <1>1, <1>6 DEF SkipLine, AtLine
    <2>2. req'[p].pc \in {"read", "commit"} BY <1>1, <2>1, NextLineOK
    <2> QED BY <1>6, <2>2, NoGoods DEF SkipLine, db
  <1>7. CASE SaveStatus(p)
    <2>1. req'[p].pc = "idle" BY <1>1, <1>7 DEF SaveStatus, Idle
    <2> QED BY <1>7, <2>1, NoGoods DEF SaveStatus
  <1> QED BY <1>2, <1>3, <1>4, <1>5, <1>6, <1>7

LEMMA BooksInit == OneAtATime /\ Init => BooksInv
  <1> SUFFICES ASSUME OneAtATime, Init PROVE BooksInv OBVIOUS
  <1>1. TypeInv BY TypeInit
  <1>2. \A x \in Slots : level[x].onHand \in Int /\ level[x] = InitLevel[x] /\ goods[x] = 0
    BY StockAssumption DEF Init, Row
  <1>3. StockMatchesMovements BY <1>2 DEF StockMatchesMovements
  <1>4. ASSUME NEW p \in Workers PROVE GoodsFit(p)
    <2>1. req[p].pc = "idle" /\ tx[p] = NoTx BY DEF Init, Idle
    <2>2. \A x \in Slots : View(p, x) = level[x] /\ tx[p].moved[x] = 0 BY <2>1 DEF View, NoTx
    <2> QED BY <1>2, <2>1, <2>2 DEF GoodsFit
  <1> QED BY <1>1, <1>3, <1>4 DEF BooksInv

LEMMA BooksNext == OneAtATime /\ BooksInv /\ [Next]_vars => BooksInv'
  <1> SUFFICES ASSUME OneAtATime, BooksInv, [Next]_vars PROVE BooksInv' OBVIOUS
  <1>1. TypeInv' BY TypeStep DEF BooksInv
  <1>2. ASSUME NEW p \in Workers, Abort(p) PROVE BooksInv' BY <1>1, <1>2, AbortBooks
  <1>3. ASSUME NEW p \in Workers, Serve(p) PROVE BooksInv'
    <2>1. CASE PickWarehouse(p) \/ Connect(p) \/ SkipLine(p) \/ SaveStatus(p)
      BY <1>1, <2>1, PlainBooks
    <2>2. CASE ReadLevel(p) BY <1>1, <2>2, ReadLevelBooks
    <2>3. CASE Reload(p) BY <1>1, <2>3, ReloadBooks
    <2>4. CASE Write(p) BY <1>1, <2>4, WriteBooks
    <2>5. CASE CommitStock(p) BY <1>1, <2>5, CommitStockBooks
    <2> QED BY <1>2, <1>3, <2>1, <2>2, <2>3, <2>4, <2>5, Failures DEF Serve
  <1>4. ASSUME UNCHANGED <<level, goods, req, tx>> PROVE BooksInv'
    <2>1. ASSUME NEW p \in Workers PROVE GoodsFit(p)'
      <3>1. GoodsFit(p) BY DEF BooksInv
      <3> QED BY <1>4, <3>1 DEF GoodsFit, View, Slot, LineAt
    <2> QED BY <1>1, <1>4, <2>1 DEF BooksInv, StockMatchesMovements
  <1>5. ASSUME NEW w \in Warehouses, ChangeDefault(w) PROVE BooksInv'
    BY <1>4, <1>5 DEF ChangeDefault
  <1>6. CASE Drained \/ UNCHANGED vars BY <1>4, <1>6 DEF Drained, vars
  <1>7. ASSUME NEW p \in Workers,
               \/ \E o \in Orders, to \in Status : Receive(p, o, to)
               \/ \E m \in Movements : ReceiveMovement(p, m)
        PROVE  BooksInv'
    BY <1>1, <1>7, PlainBooks
  <1>8. ASSUME NEW p \in Workers, ConnectionLost(p) PROVE BooksInv' BY <1>2, <1>8, Failures
  <1> QED BY <1>3, <1>5, <1>6, <1>7, <1>8 DEF Next

(***************************************************************************)
(* Served one request at a time, the on-hand quantity of every row is what *)
(* it was at first plus what the movement log says has come and gone, with *)
(* any lines and whatever requests fail (inventory.service.ts:258).        *)
(***************************************************************************)
THEOREM BooksKept ==
    ASSUME OneAtATime
    PROVE  Spec => []StockMatchesMovements
  <1>1. Init => BooksInv BY BooksInit
  <1>2. BooksInv /\ [Next]_vars => BooksInv' BY BooksNext
  <1>3. BooksInv => StockMatchesMovements BY DEF BooksInv
  <1> QED BY <1>1, <1>2, <1>3, PTL DEF Spec

-----------------------------------------------------------------------------
(* How often each effect.                                                  *)

\* A change of status with no effect asks for no more effects than there were.
LEMMA OftenAsBefore ==
    ASSUME NEW o \in Orders, NEW from \in Status, NEW to \in Status, NEW n \in [Kinds -> Nat],
           o \in SalesOrders => from \in SalesStatus \ {"PARTIALLY_SHIPPED", "INVOICED"},
           Allowed(o, from, to), Effect(o, from, to) = "none", Lines[o] # <<>>,
           AsOften(o, from, n)
    PROVE  AsOften(o, to, n)
  <1>1. n["reserve"] \in Nat /\ n["release"] \in Nat /\ n["ship"] \in Nat /\ n["consume"] \in Nat
    BY DEF Kinds
  <1>2. CASE o \in SalesOrders
    <2>1. o \notin ProductionOrders BY <1>2, IdsAssumption
    <2>2. to = "CANCELLED" /\ from \in {"DRAFT", "CANCELLED"}
      BY <1>2, <2>1 DEF Allowed, SalesAllowed, Effect, SalesEffect, SalesStatus
    <2> QED BY <1>1, <1>2, <2>1, <2>2 DEF AsOften
  <1>3. CASE o \in ProductionOrders
    <2>1. o \notin SalesOrders BY <1>3, IdsAssumption
    <2>2. ProductionAllowed(from, to) /\ to # "IN_PROGRESS"
      BY <1>3, <2>1 DEF Allowed, Effect, ProductionEffect
    <2> QED BY <1>1, <1>3, <2>1, <2>2 DEF AsOften, ProductionAllowed
  <1> QED BY <1>2, <1>3 DEF Orders

\* One with an effect asks for that effect once more.
LEMMA OnceMore ==
    ASSUME NEW o \in Orders, NEW from \in Status, NEW to \in Status, NEW n \in [Kinds -> Nat],
           o \in SalesOrders => from \in SalesStatus \ {"PARTIALLY_SHIPPED", "INVOICED"},
           Allowed(o, from, to), Effect(o, from, to) # "none", AsOften(o, from, n)
    PROVE  AsOften(o, to, [n EXCEPT ![Effect(o, from, to)] = @ + 1])
  <1> DEFINE eff == Effect(o, from, to)
             m == [n EXCEPT ![eff] = @ + 1]
  <1>1. n["reserve"] \in Nat /\ n["release"] \in Nat /\ n["ship"] \in Nat /\ n["consume"] \in Nat
    BY DEF Kinds
  <1>2. \A k \in Kinds : m[k] = IF k = eff THEN n[k] + 1 ELSE n[k] OBVIOUS
  <1>3. /\ m["reserve"] = IF eff = "reserve" THEN n["reserve"] + 1 ELSE n["reserve"]
        /\ m["release"] = IF eff = "release" THEN n["release"] + 1 ELSE n["release"]
        /\ m["ship"] = IF eff = "ship" THEN n["ship"] + 1 ELSE n["ship"]
        /\ m["consume"] = IF eff = "consume" THEN n["consume"] + 1 ELSE n["consume"]
    BY <1>2 DEF Kinds
  <1> HIDE DEF m
  <1>4. ASSUME o \in SalesOrders PROVE AsOften(o, to, m)
    <2>1. o \notin ProductionOrders BY <1>4, IdsAssumption
    <2>2. \/ from = "DRAFT" /\ to = "CONFIRMED" /\ eff = "reserve"
          \/ from = "CONFIRMED" /\ to = "SHIPPED" /\ eff = "ship"
          \/ from = "CONFIRMED" /\ to = "CANCELLED" /\ eff = "release"
      BY <1>4, <2>1 DEF Allowed, SalesAllowed, Effect, SalesEffect, SalesStatus
    <2> HIDE DEF eff
    <2> QED BY <1>1, <1>3, <1>4, <2>1, <2>2 DEF AsOften
  <1>5. ASSUME o \in ProductionOrders PROVE AsOften(o, to, m)
    <2>1. o \notin SalesOrders BY <1>5, IdsAssumption
    <2>2. from = "CONFIRMED" /\ to = "IN_PROGRESS" /\ eff = "consume"
      BY <1>5, <2>1 DEF Allowed, ProductionAllowed, Effect, ProductionEffect
    <2> HIDE DEF eff
    <2> QED BY <1>1, <1>3, <1>5, <2>1, <2>2 DEF AsOften
  <1>6. AsOften(o, to, m) BY <1>4, <1>5 DEF Orders
  <1> QED BY <1>6 DEF m

\* What the order of a request that has done nothing yet has had.
LEMMA HadSoFar ==
    ASSUME OneAtATime, OnceInv, NEW p \in Workers, ~EffectDone(p),
           NEW o \in Orders, o \notin torn, Lines[o] # <<>>
    PROVE  AsOften(o, status[o], applied[o])
  <1>1. \A q \in Workers : q = p BY DEF OneAtATime
  <1>2. Settled(o) BY <1>1 DEF Settled
  <1> QED BY <1>2 DEF OnceInv, EffectsExactlyOnce

\* A step that commits nothing leaves a request that has still done nothing.
LEMMA NothingDone ==
    ASSUME OneAtATime, OnceInv, SagaInv', NEW p \in Workers,
           UNCHANGED <<status, applied, torn>>, ~EffectDone(p), ~EffectDone(p)',
           ASSUME req'[p].pc # "idle", req'[p].ref \in Orders \ torn, Lines[req'[p].ref] # <<>>
           PROVE  /\ Allowed(req'[p].ref, status[req'[p].ref], req'[p].to)
                  /\ req'[p].eff = Effect(req'[p].ref, status[req'[p].ref], req'[p].to)
    PROVE  OnceInv'
  <1>1. \A q \in Workers : q = p BY DEF OneAtATime
  <1>2. EffectsExactlyOnce' BY HadSoFar DEF EffectsExactlyOnce
  <1>3. ASSUME NEW o \in Orders \ torn, Lines[o] # <<>>, req'[p].pc # "idle", req'[p].ref = o
        PROVE  OnceFit(p, o)'
    BY <1>3 DEF OnceFit
  <1> QED BY <1>1, <1>2, <1>3 DEF OnceInv

LEMMA ReceiveOnce ==
    ASSUME OneAtATime, OnceInv, SagaInv', NEW p \in Workers, NEW o \in Orders, NEW to \in Status,
           Receive(p, o, to)
    PROVE  OnceInv'
  <1> DEFINE eff == Effect(o, status[o], to)
             pc == IF eff = "none" THEN "save" ELSE "warehouse"
  <1>1. req \in [Workers -> Request] BY DEF OnceInv, SagaInv, TypeInv, Typed
  <1>2. req' = [req EXCEPT ![p] = [Idle EXCEPT !.pc = pc, !.ref = o, !.to = to, !.eff = eff]]
    BY DEF Receive
  <1>3. (pc = "save" => eff = "none") OBVIOUS
  <1> HIDE DEF eff, pc
  <1>4. req'[p].pc = pc /\ req'[p].ref = o /\ req'[p].to = to /\ req'[p].eff = eff
    BY <1>1, <1>2 DEF Idle
  <1>5. ~EffectDone(p) /\ ~EffectDone(p)' BY <1>3, <1>4 DEF Receive, EffectDone
  <1>6. Allowed(o, status[o], to) /\ UNCHANGED <<status, applied, torn>> BY DEF Receive, db
  <1> QED BY <1>4, <1>5, <1>6, NothingDone DEF eff

LEMMA ReceiveMovementOnce ==
    ASSUME OneAtATime, OnceInv, SagaInv', NEW p \in Workers, NEW m \in Movements,
           ReceiveMovement(p, m)
    PROVE  OnceInv'
  <1>1. req \in [Workers -> Request] BY DEF OnceInv, SagaInv, TypeInv, Typed
  <1>2. req'[p].ref = m /\ req'[p].pc = "connect" BY <1>1 DEF ReceiveMovement, Idle
  <1>3. ~EffectDone(p) /\ ~EffectDone(p)' BY <1>2 DEF ReceiveMovement, EffectDone
  <1>4. m \notin Orders BY IdsAssumption
  <1>5. UNCHANGED <<status, applied, torn>> BY DEF ReceiveMovement, db
  <1> QED BY <1>2, <1>3, <1>4, <1>5, NothingDone

\* The database calls before the commit of the stock.
LEMMA CallsOnce ==
    ASSUME OneAtATime, OnceInv, SagaInv', NEW p \in Workers,
           \/ PickWarehouse(p) \/ Connect(p) \/ ReadLevel(p)
           \/ SkipLine(p) \/ Reload(p) \/ Write(p)
    PROVE  OnceInv'
  <1>1. TypeInv BY DEF OnceInv, SagaInv
  <1>2. /\ UNCHANGED <<status, applied, torn>>
        /\ req[p].pc \notin {"idle", "save"}
        /\ req'[p].ref = req[p].ref /\ req'[p].to = req[p].to /\ req'[p].eff = req[p].eff
        /\ req'[p].pc = "save" => req[p].ref \in Orders /\ Lines[req[p].ref] = <<>>
    BY <1>1, CallsKeep
  <1>3. ~EffectDone(p) /\ ~EffectDone(p)' BY <1>2, OrderLines DEF EffectDone
  <1>4. ASSUME req[p].ref \in Orders \ torn, Lines[req[p].ref] # <<>>
        PROVE  /\ Allowed(req[p].ref, status[req[p].ref], req[p].to)
               /\ req[p].eff = Effect(req[p].ref, status[req[p].ref], req[p].to)
    BY <1>2, <1>4 DEF OnceInv, OnceFit
  <1> QED BY <1>2, <1>3, <1>4, NothingDone

LEMMA CommitStockOnce ==
    ASSUME OneAtATime, OnceInv, SagaInv', NEW p \in Workers, CommitStock(p)
    PROVE  OnceInv'
  <1> DEFINE q == req[p]
  <1>1. /\ q \in Request /\ RequestOK(q) /\ req \in [Workers -> Request]
        /\ applied \in [Refs -> [Kinds -> Nat]] /\ status \in [Orders -> Status]
        /\ \A o \in SalesOrders :
               status[o] \in SalesStatus \ {"PARTIALLY_SHIPPED", "INVOICED"}
    BY DEF OnceInv, SagaInv, NoLimbo, TypeInv, Typed, RequestsOK
  <1>2. /\ q.pc = "commit" /\ UNCHANGED <<status, torn>>
        /\ applied' = [applied EXCEPT ![q.ref][q.eff] = @ + 1]
    BY DEF CommitStock
  <1>3. OrderRequest(q) \/ MovementRequest(q) BY <1>1, <1>2 DEF RequestOK
  <1>4. ~EffectDone(p) BY <1>2 DEF EffectDone
  <1>5. q.ref \in Refs /\ q.eff \in Kinds
    BY <1>1, <1>2, <1>3, KnownRef DEF OrderRequest, MovementRequest, Request, Kinds
  <1>6. \A o \in Orders : o # q.ref => applied'[o] = applied[o] BY <1>1, <1>2, <1>5 DEF Refs
  <1>7. \A w \in Workers : w = p BY DEF OneAtATime
  <1>8. CASE q.ref \in Movements
    <2>1. req'[p] = Idle BY <1>1, <1>8 DEF CommitStock
    <2>2. q.ref \notin Orders BY <1>8, IdsAssumption
    <2>3. EffectsExactlyOnce'
      BY <1>2, <1>4, <1>6, <2>2, HadSoFar DEF EffectsExactlyOnce
    <2>4. req'[p].pc = "idle" BY <2>1 DEF Idle
    <2> QED BY <1>7, <2>3, <2>4 DEF OnceInv
  <1>9. CASE q.ref \notin Movements
    <2> DEFINE o == q.ref
               n == applied[o]
    <2>1. OrderRequest(q) /\ Lines[o] # <<>> /\ q.eff # "none" /\ o \in Orders
      BY <1>2, <1>3, <1>9 DEF OrderRequest, MovementRequest, InTransaction
    <2>2. req'[p].pc = "save" /\ req'[p].ref = o /\ req'[p].to = q.to /\ req'[p].eff = q.eff
      BY <1>1, <1>9 DEF CommitStock, Request
    <2>3. EffectDone(p)' BY <2>1, <2>2, OrderLines DEF EffectDone
    <2>4. ASSUME o \notin torn PROVE OnceFit(p, o)'
      <3>1. Allowed(o, status[o], q.to) /\ q.eff = Effect(o, status[o], q.to)
        BY <1>2, <2>1, <2>4 DEF OnceInv, OnceFit
      <3>2. AsOften(o, status[o], n) BY <1>4, <2>1, <2>4, HadSoFar
      <3>3. n \in [Kinds -> Nat] /\ status[o] \in Status BY <1>1, <1>5, <2>1
      <3>4. q.to \in Status BY <2>1 DEF OrderRequest, Orders, Status, SalesStatus
      <3>5. o \in SalesOrders => status[o] \in SalesStatus \ {"PARTIALLY_SHIPPED", "INVOICED"}
        BY <1>1
      <3>6. AsOften(o, q.to, [n EXCEPT ![Effect(o, status[o], q.to)] = @ + 1])
        BY <2>1, <3>1, <3>2, <3>3, <3>4, <3>5, OnceMore
      <3>7. applied'[o] = [n EXCEPT ![q.eff] = @ + 1] BY <1>1, <1>2, <1>5
      <3>8. AsOften(o, q.to, applied'[o]) BY <3>1, <3>6, <3>7
      <3> QED BY <1>2, <2>2, <3>1, <3>8 DEF OnceFit
    <2>5. ASSUME NEW x \in Orders, x \notin torn, Settled(x)', Lines[x] # <<>>
          PROVE  AsOften(x, status[x], applied'[x])
      <3>1. x # o BY <2>2, <2>3, <2>5 DEF Settled
      <3> QED BY <1>4, <1>6, <2>5, <3>1, HadSoFar
    <2>6. EffectsExactlyOnce' BY <1>2, <2>5 DEF EffectsExactlyOnce
    <2> QED BY <1>2, <1>7, <2>2, <2>4, <2>6 DEF OnceInv
  <1> QED BY <1>8, <1>9

LEMMA SaveStatusOnce ==
    ASSUME OneAtATime, OnceInv, SagaInv', NEW p \in Workers, SaveStatus(p)
    PROVE  OnceInv'
  <1> DEFINE q == req[p]
             o == q.ref
  <1>1. /\ q \in Request /\ RequestOK(q) /\ req \in [Workers -> Request]
        /\ applied \in [Refs -> [Kinds -> Nat]] /\ status \in [Orders -> Status]
        /\ \A x \in SalesOrders :
               status[x] \in SalesStatus \ {"PARTIALLY_SHIPPED", "INVOICED"}
    BY DEF OnceInv, SagaInv, NoLimbo, TypeInv, Typed, RequestsOK
  <1>2. /\ q.pc = "save" /\ UNCHANGED <<applied, torn>>
        /\ status' = [status EXCEPT ![o] = q.to] /\ req' = [req EXCEPT ![p] = Idle]
    BY DEF SaveStatus
  <1>3. OrderRequest(q) BY <1>1, <1>2 DEF RequestOK, MovementRequest, InTransaction
  <1>4. o \in Orders /\ q.to \in Status
    BY <1>3 DEF OrderRequest, Orders, Status, SalesStatus
  <1>5. \A w \in Workers : w = p BY DEF OneAtATime
  <1>6. req'[p].pc = "idle" BY <1>1, <1>2 DEF Idle
  <1>7. ASSUME NEW x \in Orders, x \notin torn, Lines[x] # <<>>, x # o
        PROVE  AsOften(x, status[x], applied[x])
    <2>1. Settled(x) BY <1>5, <1>7 DEF Settled
    <2> QED BY <1>7, <2>1 DEF OnceInv, EffectsExactlyOnce
  <1>8. ASSUME o \notin torn, Lines[o] # <<>>
        PROVE  AsOften(o, q.to, applied[o])
    <2>1. OnceFit(p, o) BY <1>2, <1>4, <1>8 DEF OnceInv
    <2>2. CASE EffectDone(p) BY <2>1, <2>2 DEF OnceFit
    <2>3. CASE ~EffectDone(p)
      <3>1. q.eff = "none" BY <1>2, <1>4, <1>8, <2>3, OrderLines DEF EffectDone
      <3>2. Allowed(o, status[o], q.to) /\ Effect(o, status[o], q.to) = "none"
        BY <2>1, <3>1 DEF OnceFit
      <3>3. AsOften(o, status[o], applied[o]) BY <1>4, <1>8, <2>3, HadSoFar
      <3>4. applied[o] \in [Kinds -> Nat] /\ status[o] \in Status BY <1>1, <1>4 DEF Refs
      <3> QED BY <1>1, <1>4, <1>8, <3>2, <3>3, <3>4, OftenAsBefore
    <2> QED BY <2>2, <2>3
  <1>9. EffectsExactlyOnce' BY <1>1, <1>2, <1>4, <1>7, <1>8 DEF EffectsExactlyOnce
  <1> QED BY <1>5, <1>6, <1>9 DEF OnceInv

LEMMA AbortOnce ==
    ASSUME OneAtATime, OnceInv, SagaInv', NEW p \in Workers, Abort(p)
    PROVE  OnceInv'
  <1>1. req \in [Workers -> Request] BY DEF OnceInv, SagaInv, TypeInv, Typed
  <1>2. /\ UNCHANGED <<status, applied>> /\ req' = [req EXCEPT ![p] = Idle]
        /\ torn' = IF EffectDone(p) THEN torn \cup {req[p].ref} ELSE torn
    BY DEF Abort, db
  <1>3. req'[p].pc = "idle" BY <1>1, <1>2 DEF Idle
  <1>4. \A w \in Workers : w = p BY DEF OneAtATime
  <1>5. ASSUME NEW o \in Orders, o \notin torn', Lines[o] # <<>>
        PROVE  AsOften(o, status[o], applied[o])
    <2>1. o \notin torn /\ Settled(o) BY <1>2, <1>4, <1>5 DEF Settled
    <2> QED BY <1>5, <2>1 DEF OnceInv, EffectsExactlyOnce
  <1>6. EffectsExactlyOnce' BY <1>2, <1>5 DEF EffectsExactlyOnce
  <1> QED BY <1>3, <1>4, <1>6 DEF OnceInv

LEMMA OnceInit == Init => OnceInv
  <1> SUFFICES ASSUME Init PROVE OnceInv OBVIOUS
  <1>1. SagaInv BY SagaInit
  <1>2. \A o \in Orders : status[o] = "DRAFT" /\ applied[o] = [k \in Kinds |-> 0]
    BY DEF Init, Refs
  <1>3. EffectsExactlyOnce BY <1>2, IdsAssumption DEF EffectsExactlyOnce, AsOften, Orders, Kinds
  <1>4. \A p \in Workers : req[p].pc = "idle" BY DEF Init, Idle
  <1> QED BY <1>1, <1>3, <1>4 DEF OnceInv

LEMMA OnceNext == OneAtATime /\ OnceInv /\ [Next]_vars => OnceInv'
  <1> SUFFICES ASSUME OneAtATime, OnceInv, [Next]_vars PROVE OnceInv' OBVIOUS
  <1>1. SagaInv' BY SagaNext DEF OnceInv
  <1>2. ASSUME NEW p \in Workers, Abort(p) PROVE OnceInv' BY <1>1, <1>2, AbortOnce
  <1>3. ASSUME NEW p \in Workers, Serve(p) PROVE OnceInv'
    <2>1. CASE \/ PickWarehouse(p) \/ Connect(p) \/ ReadLevel(p)
               \/ SkipLine(p) \/ Reload(p) \/ Write(p)
      BY <1>1, <2>1, CallsOnce
    <2>2. CASE CommitStock(p) BY <1>1, <2>2, CommitStockOnce
    <2>3. CASE SaveStatus(p) BY <1>1, <2>3, SaveStatusOnce
    <2> QED BY <1>2, <1>3, <2>1, <2>2, <2>3, Failures DEF Serve
  <1>4. ASSUME UNCHANGED <<status, applied, torn, req>> PROVE OnceInv'
    <2>1. EffectsExactlyOnce' BY <1>4 DEF OnceInv, EffectsExactlyOnce, Settled, EffectDone
    <2>2. \A p \in Workers, o \in Orders : OnceFit(p, o) => OnceFit(p, o)'
      BY <1>4 DEF OnceFit, EffectDone
    <2> QED BY <1>1, <1>4, <2>1, <2>2 DEF OnceInv
  <1>5. ASSUME NEW w \in Warehouses, ChangeDefault(w) PROVE OnceInv'
    BY <1>4, <1>5 DEF ChangeDefault
  <1>6. CASE Drained \/ UNCHANGED vars BY <1>4, <1>6 DEF Drained, vars
  <1>7. ASSUME NEW p \in Workers, NEW o \in Orders, NEW to \in Status, Receive(p, o, to)
        PROVE  OnceInv'
    BY <1>1, <1>7, ReceiveOnce
  <1>8. ASSUME NEW p \in Workers, NEW m \in Movements, ReceiveMovement(p, m) PROVE OnceInv'
    BY <1>1, <1>8, ReceiveMovementOnce
  <1>9. ASSUME NEW p \in Workers, ConnectionLost(p) PROVE OnceInv' BY <1>2, <1>9, Failures
  <1> QED BY <1>3, <1>5, <1>6, <1>7, <1>8, <1>9 DEF Next

(***************************************************************************)
(* Served one request at a time, each order has had exactly the inventory  *)
(* transactions its status calls for, and each of them once, unless a      *)
(* request of it was lost between the two commits (sales.service.ts:199).  *)
(***************************************************************************)
THEOREM OnceEach ==
    ASSUME OneAtATime
    PROVE  Spec => []EffectsExactlyOnce
  <1>1. OnceInv /\ [Next]_vars => OnceInv' BY OnceNext
  <1>2. OnceInv => EffectsExactlyOnce BY DEF OnceInv
  <1> QED BY OnceInit, <1>1, <1>2, PTL DEF Spec

-----------------------------------------------------------------------------
(* What is reserved.                                                       *)

\* The lines of sales orders ask the same slots whatever the default warehouse is:
\* they name their warehouse, or there is only one.
PlacesFixed ==
    \A o \in SalesOrders : \A n \in DOMAIN Lines[o] : \A v, w \in Warehouses :
        SlotOf(Lines[o][n], v) = SlotOf(Lines[o][n], w)

Place(o, n) == SlotOf(Lines[o][n], CHOOSE w \in Warehouses : TRUE)

\* The quantity that line n of order o asks of slot s, that its first n lines do,
\* and that each order does.
AskedAt(o, s)      == [n \in 1 .. Len(Lines[o]) |-> IF Place(o, n) = s THEN Lines[o][n].qty ELSE 0]
AskedUpTo(o, s, n) == SumOver(AskedAt(o, s), 1 .. n)
AskedIn(s)         == [o \in SalesOrders |-> AskedUpTo(o, s, Len(Lines[o]))]

\* The orders that are confirmed, or will be when the request that has yet to save
\* the status has.
Saves(o) == \E p \in Workers : req[p].pc = "save" /\ req[p].ref = o
Holding ==
    {o \in SalesOrders :
        IF Saves(o) THEN \E p \in Workers : /\ req[p].pc = "save" /\ req[p].ref = o
                                            /\ req[p].to = "CONFIRMED"
        ELSE status[o] = "CONFIRMED"}

\* What an inner transaction has done so far to the reserved quantity of s.
LinesDone(r) == IF r.pc = "commit" THEN Len(LinesOf(r.ref)) ELSE r.line - 1

ReservedFit(p, s) ==
    LET r == req[p]
        n == AskedUpTo(r.ref, s, LinesDone(r))
    IN  View(p, s).reserved =
            CASE r.eff = "reserve"            -> level[s].reserved + n
              [] r.eff \in {"release", "ship"} -> level[s].reserved - n
              [] OTHER                         -> level[s].reserved

ReservedInv ==
    /\ BooksInv /\ OnceInv
    /\ IsFiniteSet(Holding)
    /\ \A s \in Slots \ present : level[s] = EmptyRow
    /\ \A p \in Workers : ~InnerOpen(p) => tx[p].locked = {}
    /\ torn = {} => \A s \in PlainSlots :
           /\ level[s].reserved = InitLevel[s].reserved + SumOver(AskedIn(s), Holding)
           /\ \A p \in Workers : InnerOpen(p) => ReservedFit(p, s)

LEMMA PlaceIs ==
    ASSUME PlacesFixed, NEW o \in SalesOrders, NEW n \in DOMAIN Lines[o], NEW w \in Warehouses
    PROVE  SlotOf(Lines[o][n], w) = Place(o, n)
  <1> DEFINE v == CHOOSE v \in Warehouses : TRUE
  <1>1. v \in Warehouses BY IdsAssumption
  <1> HIDE DEF v
  <1>2. SlotOf(Lines[o][n], w) = SlotOf(Lines[o][n], v) BY <1>1 DEF PlacesFixed
  <1> QED BY <1>2 DEF Place, v

LEMMA AskedAll ==
    ASSUME NEW o \in SalesOrders, NEW s \in PlainSlots
    PROVE  LET l == Len(Lines[o])
           IN  /\ l \in Nat /\ DOMAIN Lines[o] = 1 .. l
               /\ \A n \in 1 .. l : AskedAt(o, s)[n] \in Nat
               /\ AskedUpTo(o, s, 0) = 0
               /\ \A n \in 1 .. l : AskedUpTo(o, s, n) = AskedUpTo(o, s, n - 1) + AskedAt(o, s)[n]
               /\ \A n \in 0 .. l : /\ AskedUpTo(o, s, n) \in Nat
                                    /\ AskedUpTo(o, s, n) <= AskedUpTo(o, s, l)
               /\ AskedIn(s)[o] = AskedUpTo(o, s, l)
               /\ AskedIn(s)[o] \in Nat
  <1> DEFINE l == Len(Lines[o])
             F == AskedAt(o, s)
  <1>1. Lines[o] \in Seq(Line) BY LinesAssumption DEF Orders
  <1>2. l \in Nat /\ DOMAIN Lines[o] = 1 .. l BY <1>1
  <1>3. ASSUME NEW n \in 1 .. l, Place(o, n) = s PROVE Lines[o][n].qty \in Nat
    <2>1. Lines[o][n].qty \in Int
      <3>1. Lines[o][n] \in Line BY <1>1
      <3> QED BY <3>1 DEF Line
    <2>2. (CHOOSE w \in Warehouses : TRUE) \in Warehouses BY IdsAssumption
    <2>3. Lines[o][n].qty >= 0 BY <1>2, <1>3, <2>2 DEF PlainSlots, Place, Orders
    <2> QED BY <2>1, <2>3
  <1>4. \A n \in 1 .. l : F[n] \in Nat BY <1>3 DEF AskedAt
  <1> HIDE DEF l, F
  <1>5. AskedUpTo(o, s, 0) = 0
    <2>1. 1 .. 0 = {} OBVIOUS
    <2> QED BY <2>1, SumEmpty DEF AskedUpTo
  <1>6. ASSUME NEW n \in 0 .. l
        PROVE  AskedUpTo(o, s, n) \in Nat /\ AskedUpTo(o, s, n) <= AskedUpTo(o, s, l)
    <2>1. 1 .. n \in SUBSET (1 .. l) BY <1>2
    <2>2. IsFiniteSet(1 .. l) BY <1>2, FS_Interval
    <2> QED BY <1>4, <2>1, <2>2, SumPart DEF AskedUpTo, F
  <1>7. ASSUME NEW n \in 1 .. l
        PROVE  AskedUpTo(o, s, n) = AskedUpTo(o, s, n - 1) + F[n]
    <2>1. IsFiniteSet(1 .. (n - 1)) BY <1>2, FS_Interval
    <2>2. n \notin 1 .. (n - 1) /\ 1 .. n = (1 .. (n - 1)) \cup {n} BY <1>2
    <2>3. \A y \in (1 .. (n - 1)) \cup {n} : F[y] \in Int BY <1>2, <1>4
    <2>4. SumOver(F, (1 .. (n - 1)) \cup {n}) = F[n] + SumOver(F, 1 .. (n - 1))
      BY <2>1, <2>2, <2>3, SumMore
    <2>5. n - 1 \in 0 .. l BY <1>2
    <2>6. SumOver(F, 1 .. (n - 1)) \in Nat BY <1>6, <2>5 DEF AskedUpTo, F
    <2>7. F[n] \in Nat BY <1>4
    <2>8. SumOver(F, 1 .. n) = F[n] + SumOver(F, 1 .. (n - 1)) BY <2>2, <2>4
    <2>9. SumOver(F, 1 .. n) = SumOver(F, 1 .. (n - 1)) + F[n] BY <2>6, <2>7, <2>8
    <2> QED BY <2>9 DEF AskedUpTo, F
  <1>8. AskedIn(s)[o] = AskedUpTo(o, s, l) BY DEF AskedIn, l
  <1>9. l \in 0 .. l BY <1>2
  <1>10. AskedIn(s)[o] \in Nat BY <1>6, <1>8, <1>9
  <1> QED BY <1>2, <1>4, <1>5, <1>6, <1>7, <1>8, <1>10 DEF l, F

\* Asked and ReservedMatchesOrders in these terms.
LEMMA AskedIs ==
    ASSUME PlacesFixed, defaultWh \in Warehouses, NEW o \in SalesOrders, NEW s \in PlainSlots
    PROVE  Asked(o, s) = AskedIn(s)[o]
  <1> DEFINE l == Len(Lines[o])
             D == DOMAIN Lines[o]
             F == AskedAt(o, s)
             Op(n) == IF SlotOf(Lines[o][n], defaultWh) = s THEN Lines[o][n].qty ELSE 0
             IsIt(h) == h = [T \in SUBSET D |-> IF T = {} THEN 0
                                                ELSE Op(CHOOSE x \in T : TRUE) + h[T \ {CHOOSE x \in T : TRUE}]]
             g == CHOOSE h : IsIt(h)
  <1>1. l \in Nat /\ D = 1 .. l /\ (\A n \in 1 .. l : F[n] \in Nat)
        /\ AskedIn(s)[o] = AskedUpTo(o, s, l)
    BY AskedAll
  <1>2. \A n \in D : Op(n) = F[n]
    <2> SUFFICES ASSUME NEW n \in D PROVE Op(n) = F[n] OBVIOUS
    <2>1. SlotOf(Lines[o][n], defaultWh) = Place(o, n) BY PlaceIs
    <2> QED BY <1>1, <2>1 DEF AskedAt
  <1>3. Asked(o, s) = g[D] BY DEF Asked, MapThenSumSet, MapThenFoldSet
  <1> HIDE DEF D, F, Op
  <1>4. ASSUME NEW h PROVE IsSum(h, F, D) <=> IsIt(h)
    <2>1. \A T \in SUBSET D : T # {} => (CHOOSE x \in T : TRUE) \in D OBVIOUS
    <2>2. \A T \in SUBSET D :
              SumStep(F, h, T) = IF T = {} THEN 0 ELSE Op(CHOOSE x \in T : TRUE)
                                                      + h[T \ {CHOOSE x \in T : TRUE}]
      BY <1>2, <2>1 DEF SumStep, One
    <2> QED BY <2>2 DEF IsSum
  <1>5. IsFiniteSet(D) BY <1>1, FS_Interval
  <1>6. IsSum(g, F, D)
    <2>1. PICK h : IsSum(h, F, D) BY <1>5, SumExists
    <2>2. IsIt(h) BY <1>4, <2>1
    <2>3. IsIt(g) BY <2>2
    <2> QED BY <1>4, <2>3
  <1> HIDE DEF g
  <1>7. SumOver(F, D) = g[D]
    <2>1. \A n \in D : F[n] \in Int BY <1>1
    <2> QED BY <1>5, <1>6, <2>1, SumOfAny
  <1> QED BY <1>1, <1>3, <1>7 DEF AskedUpTo, F

LEMMA ConfirmedAsk ==
    ASSUME PlacesFixed, defaultWh \in Warehouses, IsFiniteSet(ConfirmedOrders),
           NEW s \in PlainSlots
    PROVE  MapThenSumSet(LAMBDA o : Asked(o, s), ConfirmedOrders)
               = SumOver(AskedIn(s), ConfirmedOrders)
  <1> DEFINE C == ConfirmedOrders
             F == AskedIn(s)
             IsIt(h) == h = [T \in SUBSET C |-> IF T = {} THEN 0
                                                ELSE Asked(CHOOSE x \in T : TRUE, s) + h[T \ {CHOOSE x \in T : TRUE}]]
             g == CHOOSE h : IsIt(h)
  <1>1. \A o \in C : Asked(o, s) = F[o] /\ F[o] \in Int BY AskedIs, AskedAll DEF ConfirmedOrders
  <1>2. MapThenSumSet(LAMBDA o : Asked(o, s), C) = g[C] BY DEF MapThenSumSet, MapThenFoldSet
  <1> HIDE DEF C, F
  <1>3. ASSUME NEW h PROVE IsSum(h, F, C) <=> IsIt(h)
    <2>1. \A T \in SUBSET C : T # {} => (CHOOSE x \in T : TRUE) \in C OBVIOUS
    <2>2. \A T \in SUBSET C :
              SumStep(F, h, T) = IF T = {} THEN 0 ELSE Asked(CHOOSE x \in T : TRUE, s)
                                                      + h[T \ {CHOOSE x \in T : TRUE}]
      BY <1>1, <2>1 DEF SumStep, One
    <2> QED BY <2>2 DEF IsSum
  <1>4. IsFiniteSet(C) BY DEF C
  <1>5. IsSum(g, F, C)
    <2>1. PICK h : IsSum(h, F, C) BY <1>4, SumExists
    <2>2. IsIt(h) BY <1>3, <2>1
    <2>3. IsIt(g) BY <2>2
    <2> QED BY <1>3, <2>3
  <1> HIDE DEF g
  <1>6. SumOver(F, C) = g[C] BY <1>1, <1>4, <1>5, SumOfAny
  <1> QED BY <1>2, <1>6 DEF C, F

\* The orders that hold stock, seen from the one worker.
Holders(r, st) ==
    {o \in SalesOrders : IF r.pc = "save" /\ r.ref = o THEN r.to = "CONFIRMED"
                         ELSE st[o] = "CONFIRMED"}

LEMMA HoldingIs ==
    ASSUME OneAtATime, NEW p \in Workers
    PROVE  /\ Holding = Holders(req[p], status) /\ Holding' = Holders(req'[p], status')
           /\ req[p].pc # "save" => Holding = ConfirmedOrders
           /\ req'[p].pc # "save" => Holding' = ConfirmedOrders'
  <1>1. \A q \in Workers : q = p BY DEF OneAtATime
  <1>2. ASSUME NEW o
        PROVE  /\ Saves(o) <=> req[p].pc = "save" /\ req[p].ref = o
               /\ Saves(o)' <=> req'[p].pc = "save" /\ req'[p].ref = o
    BY <1>1 DEF Saves
  <1>3. ASSUME NEW o
        PROVE  /\ (\E q \in Workers : req[q].pc = "save" /\ req[q].ref = o /\ req[q].to = "CONFIRMED")
                      <=> req[p].pc = "save" /\ req[p].ref = o /\ req[p].to = "CONFIRMED"
               /\ (\E q \in Workers : req'[q].pc = "save" /\ req'[q].ref = o /\ req'[q].to = "CONFIRMED")
                      <=> req'[p].pc = "save" /\ req'[p].ref = o /\ req'[p].to = "CONFIRMED"
    BY <1>1
  <1>4. Holding = Holders(req[p], status) BY <1>2, <1>3 DEF Holding, Holders
  <1>5. Holding' = Holders(req'[p], status') BY <1>2, <1>3 DEF Holding, Holders
  <1> QED BY <1>4, <1>5 DEF Holders, ConfirmedOrders

\* Two sets of orders that differ at most in one that asks for nothing.
LEMMA SameHeld ==
    ASSUME NEW o, NEW H \in SUBSET SalesOrders, IsFiniteSet(H), NEW C \in SUBSET SalesOrders,
           H \ {o} = C \ {o}, H = C \/ Lines[o] = <<>>, NEW s \in PlainSlots
    PROVE  SumOver(AskedIn(s), C) = SumOver(AskedIn(s), H)
  <1> DEFINE F == AskedIn(s)
  <1>1. CASE H = C BY <1>1
  <1>2. CASE Lines[o] = <<>> /\ o \in SalesOrders
    <2>1. \A x \in SalesOrders : F[x] \in Int BY AskedAll
    <2>2. F[o] = 0
      <3>1. Len(Lines[o]) = 0 BY <1>2
      <3> QED BY <1>2, <3>1, AskedAll
    <2> HIDE DEF F
    <2>3. ASSUME NEW S, IsFiniteSet(S), S \subseteq SalesOrders
          PROVE  SumOver(F, S) = SumOver(F, S \ {o})
      <3>1. \A y \in S \cup {o} : F[y] \in Int BY <1>2, <2>1, <2>3
      <3>2. SumOver(F, S \ {o}) \in Int /\ (o \in S => SumOver(F, S) = F[o] + SumOver(F, S \ {o}))
        BY <2>3, <3>1, SumWithout
      <3>3. CASE o \in S
        <4>1. SumOver(F, S) = 0 + SumOver(F, S \ {o}) BY <2>2, <3>2, <3>3
        <4> QED BY <3>2, <4>1
      <3>4. CASE o \notin S
        <4>1. S \ {o} = S BY <3>4
        <4> QED BY <4>1
      <3> QED BY <3>3, <3>4
    <2>4. IsFiniteSet(C)
      <3>1. IsFiniteSet(H \cup {o}) /\ C \subseteq H \cup {o} BY FS_AddElement
      <3> QED BY <3>1, FS_Subset
    <2>5. SumOver(F, C) = SumOver(F, H) BY <2>3, <2>4
    <2> QED BY <2>5 DEF F
  <1>3. CASE o \notin SalesOrders BY <1>3
  <1> QED BY <1>1, <1>2, <1>3

\* No step makes infinitely many orders hold stock.
LEMMA HeldFinite ==
    ASSUME OneAtATime, IsFiniteSet(Holding), NEW p \in Workers, UNCHANGED status
    PROVE  IsFiniteSet(Holding') /\ IsFiniteSet(ConfirmedOrders)
  <1> DEFINE S == (Holding \cup {req[p].ref}) \cup {req'[p].ref}
  <1>1. IsFiniteSet(S) BY FS_AddElement
  <1>2. Holding' \subseteq S /\ ConfirmedOrders \subseteq S
    BY HoldingIs DEF Holders, ConfirmedOrders
  <1> QED BY <1>1, <1>2, FS_Subset

\* What the effect of a request says of its order.
LEMMA EffectOf ==
    ASSUME OnceInv, torn = {}, NEW p \in Workers, req[p].pc # "idle", req[p].ref \in Orders,
           Lines[req[p].ref] # <<>>
    PROVE  LET r == req[p]
           IN  /\ r.eff = "reserve" =>
                      r.ref \in SalesOrders /\ r.to = "CONFIRMED" /\ status[r.ref] = "DRAFT"
               /\ r.eff \in {"release", "ship"} =>
                      r.ref \in SalesOrders /\ r.to # "CONFIRMED" /\ status[r.ref] = "CONFIRMED"
               /\ r.eff = "consume" => r.ref \notin SalesOrders
               /\ r.eff = "none" /\ r.ref \in SalesOrders =>
                      r.to # "CONFIRMED" /\ status[r.ref] # "CONFIRMED"
  <1> DEFINE r == req[p]
             o == r.ref
  <1>1. Allowed(o, status[o], r.to) /\ r.eff = Effect(o, status[o], r.to)
    BY DEF OnceInv, OnceFit
  <1>2. o \in SalesOrders => status[o] \in SalesStatus \ {"PARTIALLY_SHIPPED", "INVOICED"}
    BY DEF OnceInv, SagaInv, NoLimbo, TypeInv, Typed
  <1> HIDE DEF r, o
  <1>3. CASE o \in SalesOrders
    <2>1. o \notin ProductionOrders BY <1>3, IdsAssumption
    <2>2. SalesAllowed(status[o], r.to) /\ r.eff = SalesEffect(status[o], r.to)
      BY <1>1, <1>3, <2>1 DEF Allowed, Effect
    <2>3. /\ r.eff = "reserve" => r.to = "CONFIRMED" /\ status[o] = "DRAFT"
          /\ r.eff \in {"release", "ship"} => r.to # "CONFIRMED" /\ status[o] = "CONFIRMED"
          /\ r.eff # "consume"
          /\ r.eff = "none" => r.to # "CONFIRMED" /\ status[o] # "CONFIRMED"
      BY <1>2, <1>3, <2>2 DEF SalesAllowed, SalesEffect
    <2> QED BY <1>3, <2>3 DEF r, o
  <1>4. CASE o \notin SalesOrders
    <2>1. r.eff \in {"consume", "none"} BY <1>1, <1>4 DEF Effect, ProductionEffect
    <2> QED BY <1>4, <2>1 DEF r, o
  <1> QED BY <1>3, <1>4

\* A request that has committed no stock saves a status that holds as much.
LEMMA HoldsAsMuch ==
    ASSUME OneAtATime, OnceInv, torn = {}, IsFiniteSet(Holding), NEW p \in Workers,
           ~EffectDone(p), NEW s \in PlainSlots
    PROVE  SumOver(AskedIn(s), ConfirmedOrders) = SumOver(AskedIn(s), Holding)
  <1> DEFINE o == req[p].ref
             H == Holding
             C == ConfirmedOrders
  <1>1. H = Holders(req[p], status) /\ (req[p].pc # "save" => H = C) BY HoldingIs
  <1>2. CASE req[p].pc # "save" BY <1>1, <1>2
  <1>3. CASE req[p].pc = "save"
    <2>1. H \ {o} = C \ {o} /\ C \subseteq SalesOrders /\ H \subseteq SalesOrders
      BY <1>1 DEF Holders, ConfirmedOrders
    <2>2. o \in Orders
      <3>1. RequestOK(req[p]) BY DEF OnceInv, SagaInv, TypeInv, RequestsOK
      <3> QED BY <1>3, <3>1 DEF RequestOK, OrderRequest, MovementRequest, InTransaction
    <2>3. ASSUME Lines[o] # <<>> PROVE H = C
      <3>1. CASE o \notin SalesOrders BY <1>1, <3>1 DEF Holders, ConfirmedOrders
      <3>2. CASE o \in SalesOrders
        <4>1. req[p].eff = "none" BY <1>3, <2>2, <2>3, OrderLines DEF EffectDone
        <4>2. req[p].to # "CONFIRMED" /\ status[o] # "CONFIRMED"
          BY <1>3, <2>2, <2>3, <3>2, <4>1, EffectOf
        <4> QED BY <1>1, <4>2 DEF Holders, ConfirmedOrders
      <3> QED BY <3>1, <3>2
    <2> HIDE DEF H, C, o
    <2>4. IsFiniteSet(H) BY DEF H
    <2>5. H \in SUBSET SalesOrders /\ C \in SUBSET SalesOrders BY <2>1
    <2>6. H = C \/ Lines[o] = <<>> BY <2>3
    <2>7. SumOver(AskedIn(s), C) = SumOver(AskedIn(s), H) BY <2>1, <2>4, <2>5, <2>6, SameHeld
    <2> QED BY <2>7 DEF H, C
  <1> QED BY <1>2, <1>3

\* The one worker, for what is said of each.
LEMMA OneReserves ==
    ASSUME OneAtATime, NEW p \in Workers, BooksInv', OnceInv', IsFiniteSet(Holding)',
           \A s \in Slots \ present' : level'[s] = EmptyRow,
           ~InnerOpen(p)' => tx'[p].locked = {},
           torn' = {} => \A s \in PlainSlots :
               /\ level'[s].reserved = InitLevel[s].reserved + SumOver(AskedIn(s), Holding')
               /\ InnerOpen(p)' => ReservedFit(p, s)'
    PROVE  ReservedInv'
  <1>1. \A q \in Workers : q = p BY DEF OneAtATime
  <1> QED BY <1>1 DEF ReservedInv

\* A step that commits nothing and whose transaction sees what it saw.
LEMMA ReservesNoMore ==
    ASSUME OneAtATime, ReservedInv, BooksInv', OnceInv', NEW p \in Workers,
           UNCHANGED <<level, present, torn, status, tx>>,
           IsFiniteSet(Holding)',
           torn = {} => \A s \in PlainSlots :
               SumOver(AskedIn(s), Holding') = SumOver(AskedIn(s), Holding),
           ~InnerOpen(p)' => tx[p].locked = {},
           torn = {} /\ InnerOpen(p)' => \A s \in PlainSlots : ReservedFit(p, s)'
    PROVE  ReservedInv'
  <1>1. \A s \in Slots \ present' : level'[s] = EmptyRow BY DEF ReservedInv
  <1>2. torn' = {} => \A s \in PlainSlots :
               /\ level'[s].reserved = InitLevel[s].reserved + SumOver(AskedIn(s), Holding')
               /\ InnerOpen(p)' => ReservedFit(p, s)'
    BY DEF ReservedInv
  <1> QED BY <1>1, <1>2, OneReserves

\* The rows that a confirmed order's release or shipment is still to take from are
\* reserved for it.
LEMMA EnoughReserved ==
    ASSUME OneAtATime, ReservedInv, torn = {}, NEW p \in Workers, InnerOpen(p),
           req[p].eff \in {"release", "ship"}, NEW s \in PlainSlots
    PROVE  req[p].ref \in SalesOrders /\ AskedIn(s)[req[p].ref] <= level[s].reserved
  <1> DEFINE o == req[p].ref
             F == AskedIn(s)
             C == ConfirmedOrders
  <1>1. OnceInv /\ RequestOK(req[p]) /\ IsFiniteSet(Holding)
    BY DEF ReservedInv, OnceInv, SagaInv, TypeInv, RequestsOK
  <1>2. OrderRequest(req[p]) BY <1>1 DEF RequestOK, MovementRequest, InnerOpen
  <1>3. o \in Orders /\ Lines[o] # <<>> BY <1>2 DEF OrderRequest, InTransaction, InnerOpen
  <1>4. o \in SalesOrders /\ status[o] = "CONFIRMED" BY <1>1, <1>3, EffectOf DEF InnerOpen
  <1>5. Holding = C BY HoldingIs DEF InnerOpen
  <1>6. o \in C /\ C \subseteq SalesOrders /\ IsFiniteSet(C)
    BY <1>1, <1>4, <1>5 DEF ConfirmedOrders
  <1>7. \A x \in SalesOrders : F[x] \in Nat BY AskedAll
  <1>8. level[s].reserved = InitLevel[s].reserved + SumOver(F, C) BY <1>5 DEF ReservedInv
  <1> HIDE DEF C, F, o
  <1>9. SumOver(F, C) = F[o] + SumOver(F, C \ {o})
    <2>1. \A y \in C \cup {o} : F[y] \in Int BY <1>6, <1>7
    <2> QED BY <1>6, <2>1, SumWithout
  <1>10. SumOver(F, C \ {o}) \in Nat
    <2>1. \A x \in C : F[x] \in Nat BY <1>6, <1>7
    <2>2. C \ {o} \in SUBSET C OBVIOUS
    <2> QED BY <1>6, <2>1, <2>2, SumPart
  <1>11. InitLevel[s].reserved \in Nat BY PlainAre
  <1>12. F[o] \in Nat BY <1>4, <1>7 DEF o
  <1>13. F[o] <= level[s].reserved BY <1>8, <1>9, <1>10, <1>11, <1>12
  <1> QED BY <1>4, <1>13 DEF o, F

\* The line of a sales order a request is at.
LEMMA SalesLine ==
    ASSUME PlacesFixed, TypeInv, NEW p \in Workers, req[p].pc \in AtLine,
           req[p].ref \in SalesOrders, NEW s \in PlainSlots
    PROVE  LET o == req[p].ref
               n == req[p].line
           IN  /\ n \in 1 .. Len(Lines[o])
               /\ AskedUpTo(o, s, n) = AskedUpTo(o, s, n - 1)
                                          + (IF Slot(p) = s THEN LineAt(p).qty ELSE 0)
               /\ Slot(p) \in PlainSlots => LineAt(p).qty \in Nat
  <1> DEFINE r == req[p]
             o == r.ref
             n == r.line
  <1>1. r \in Request /\ RequestOK(r) BY DEF TypeInv, Typed, RequestsOK
  <1>2. o \in Orders /\ o \notin Movements BY IdsAssumption DEF Orders
  <1>3. OrderRequest(r) BY <1>1, <1>2 DEF RequestOK, MovementRequest, AtLine
  <1>4. r.wh \in Warehouses BY <1>3 DEF OrderRequest, AtLine, InTransaction
  <1>5. LinesOf(o) = Lines[o] BY <1>2 DEF LinesOf
  <1>6. n \in 1 .. Len(Lines[o]) BY <1>1, <1>5 DEF RequestOK
  <1>7. LineAt(p) = Lines[o][n] BY <1>5 DEF LineAt
  <1>8. DOMAIN Lines[o] = 1 .. Len(Lines[o]) BY AskedAll
  <1>9. Slot(p) = Place(o, n) BY <1>4, <1>6, <1>7, <1>8, PlaceIs DEF Slot
  <1>10. AskedAt(o, s)[n] = IF Slot(p) = s THEN LineAt(p).qty ELSE 0
    BY <1>6, <1>7, <1>9 DEF AskedAt
  <1>11. AskedUpTo(o, s, n) = AskedUpTo(o, s, n - 1) + AskedAt(o, s)[n]
    BY <1>6, AskedAll
  <1>12. r.eff # "adjust" BY <1>3 DEF OrderRequest
  <1>13. Slot(p) \in PlainSlots => LineAt(p).qty \in Nat BY <1>12, LineInfo
  <1> QED BY <1>6, <1>10, <1>11, <1>13

\* The steps of an inner transaction that only look, and those outside of any.
LEMMA LooksReserved ==
    ASSUME OneAtATime, ReservedInv, BooksInv', OnceInv', NEW p \in Workers,
           UNCHANGED <<level, present, torn, status, tx>>,
           req[p].pc \in AtLine, req'[p].pc \in AtLine,
           req'[p].ref = req[p].ref, req'[p].eff = req[p].eff, req'[p].line = req[p].line
    PROVE  ReservedInv'
  <1>1. Holding' = Holding BY HoldingIs DEF AtLine, ConfirmedOrders
  <1>2. InnerOpen(p) /\ InnerOpen(p)' BY DEF InnerOpen, AtLine
  <1>3. LinesDone(req'[p]) = LinesDone(req[p]) BY DEF LinesDone, AtLine
  <1>4. \A s : ReservedFit(p, s)' <=> ReservedFit(p, s) BY <1>3 DEF ReservedFit, View
  <1>5. torn = {} => \A s \in PlainSlots : ReservedFit(p, s) BY <1>2 DEF ReservedInv
  <1>6. IsFiniteSet(Holding) BY DEF ReservedInv
  <1> QED BY <1>1, <1>2, <1>4, <1>5, <1>6, ReservesNoMore

LEMMA ReceiveReserved ==
    ASSUME OneAtATime, ReservedInv, BooksInv', OnceInv', NEW p \in Workers,
           \/ \E o \in Orders, to \in Status : Receive(p, o, to)
           \/ \E m \in Movements : ReceiveMovement(p, m)
    PROVE  ReservedInv'
  <1>1. /\ UNCHANGED <<level, present, torn, status, tx>>
        /\ req[p].pc = "idle" /\ req \in [Workers -> Request]
    BY DEF Receive, ReceiveMovement, db, ReservedInv, BooksInv, TypeInv, Typed
  <1>2. /\ req'[p].pc \in {"save", "warehouse", "connect"}
        /\ req'[p].pc = "save" /\ req'[p].ref \in SalesOrders =>
               req'[p].to # "CONFIRMED" /\ status[req'[p].ref] # "CONFIRMED"
    <2>1. ASSUME NEW o \in Orders, NEW to \in Status, Receive(p, o, to)
          PROVE  /\ req'[p].pc \in {"save", "warehouse"}
                 /\ req'[p].pc = "save" /\ req'[p].ref \in SalesOrders =>
                        req'[p].to # "CONFIRMED" /\ status[req'[p].ref] # "CONFIRMED"
      <3> DEFINE eff == Effect(o, status[o], to)
                 pc == IF eff = "none" THEN "save" ELSE "warehouse"
      <3>1. req' = [req EXCEPT ![p] = [Idle EXCEPT !.pc = pc, !.ref = o, !.to = to, !.eff = eff]]
        BY <2>1 DEF Receive
      <3>2. pc \in {"save", "warehouse"} /\ (pc = "save" => eff = "none") OBVIOUS
      <3> HIDE DEF eff, pc
      <3>3. req'[p].pc = pc /\ req'[p].ref = o /\ req'[p].to = to
        BY <1>1, <3>1 DEF Idle
      <3>4. ASSUME pc = "save", o \in SalesOrders PROVE to # "CONFIRMED" /\ status[o] # "CONFIRMED"
        <4>1. SalesEffect(status[o], to) = "none" BY <3>2, <3>4 DEF eff, Effect
        <4>2. o \notin ProductionOrders BY <3>4, IdsAssumption
        <4>3. SalesAllowed(status[o], to) BY <2>1, <4>2 DEF Receive, Allowed
        <4> QED BY <4>1, <4>3 DEF SalesEffect, SalesAllowed
      <3> QED BY <3>2, <3>3, <3>4
    <2>2. ASSUME NEW m \in Movements, ReceiveMovement(p, m) PROVE req'[p].pc = "connect"
      BY <1>1, <2>2 DEF ReceiveMovement, Idle
    <2> QED BY <2>1, <2>2
  <1>3. Holding' = Holding
    <2>1. Holding = ConfirmedOrders /\ Holding' = Holders(req'[p], status') BY <1>1, HoldingIs
    <2> QED BY <1>1, <1>2, <2>1 DEF Holders, ConfirmedOrders
  <1>4. ~InnerOpen(p) /\ ~InnerOpen(p)' BY <1>1, <1>2 DEF InnerOpen
  <1>5. IsFiniteSet(Holding) /\ tx[p].locked = {} BY <1>4 DEF ReservedInv
  <1> QED BY <1>1, <1>3, <1>4, <1>5, ReservesNoMore

LEMMA PickWarehouseReserved ==
    ASSUME OneAtATime, ReservedInv, BooksInv', OnceInv', NEW p \in Workers, PickWarehouse(p)
    PROVE  ReservedInv'
  <1> DEFINE o == req[p].ref
             H == Holding
             C == ConfirmedOrders
  <1>1. /\ UNCHANGED <<level, present, torn, status, tx>>
        /\ req[p].pc = "warehouse" /\ req \in [Workers -> Request] /\ IsFiniteSet(H)
    BY DEF PickWarehouse, db, ReservedInv, BooksInv, TypeInv, Typed
  <1>2. /\ req'[p].pc \in {"save", "connect"} /\ req'[p].ref = o
        /\ req'[p].pc = "save" => Lines[o] = <<>>
    <2> DEFINE pc == IF Lines[o] = <<>> THEN "save" ELSE "connect"
    <2>1. req' = [req EXCEPT ![p].wh = defaultWh, ![p].pc = pc] BY DEF PickWarehouse
    <2>2. pc \in {"save", "connect"} /\ (pc = "save" => Lines[o] = <<>>) OBVIOUS
    <2> HIDE DEF pc, o
    <2>3. req'[p].pc = pc /\ req'[p].ref = req[p].ref BY <1>1, <2>1 DEF Request
    <2> QED BY <2>2, <2>3 DEF o
  <1>3. H = C /\ Holding' = Holders(req'[p], status') BY <1>1, HoldingIs
  <1>4. IsFiniteSet(Holding') BY <1>1, HeldFinite
  <1>5. H \in SUBSET SalesOrders /\ Holding' \in SUBSET SalesOrders
        /\ H \ {o} = Holding' \ {o} /\ (H = Holding' \/ Lines[o] = <<>>)
    BY <1>1, <1>2, <1>3 DEF Holders, ConfirmedOrders
  <1>6. ASSUME NEW s \in PlainSlots
        PROVE  SumOver(AskedIn(s), Holding') = SumOver(AskedIn(s), Holding)
    <2> DEFINE G == Holding'
    <2> HIDE DEF H, G, o
    <2>1. SumOver(AskedIn(s), G) = SumOver(AskedIn(s), H) BY <1>1, <1>5, SameHeld DEF G
    <2> QED BY <2>1 DEF G, H
  <1>7. ~InnerOpen(p) /\ ~InnerOpen(p)' BY <1>1, <1>2 DEF InnerOpen
  <1>8. tx[p].locked = {} BY <1>7 DEF ReservedInv
  <1> QED BY <1>1, <1>4, <1>6, <1>7, <1>8, ReservesNoMore

LEMMA SaveStatusReserved ==
    ASSUME OneAtATime, ReservedInv, BooksInv', OnceInv', NEW p \in Workers, SaveStatus(p)
    PROVE  ReservedInv'
  <1> DEFINE o == req[p].ref
  <1>1. /\ UNCHANGED <<level, present, torn, tx>> /\ req[p].pc = "save"
        /\ status' = [status EXCEPT ![o] = req[p].to] /\ req' = [req EXCEPT ![p] = Idle]
        /\ req \in [Workers -> Request] /\ status \in [Orders -> Status]
    BY DEF SaveStatus, ReservedInv, BooksInv, TypeInv, Typed
  <1>2. req'[p].pc = "idle" BY <1>1 DEF Idle
  <1>3. Holding = Holders(req[p], status) /\ Holding' = ConfirmedOrders' BY <1>2, HoldingIs
  <1>4. Holding' = Holding BY <1>1, <1>3 DEF Holders, ConfirmedOrders, Orders
  <1>5. ~InnerOpen(p) /\ ~InnerOpen(p)' BY <1>1, <1>2 DEF InnerOpen
  <1>6. tx[p].locked = {} /\ IsFiniteSet(Holding) BY <1>5 DEF ReservedInv
  <1>7. \A s \in Slots \ present' : level'[s] = EmptyRow BY <1>1 DEF ReservedInv
  <1>8. torn' = {} => \A s \in PlainSlots :
            level'[s].reserved = InitLevel[s].reserved + SumOver(AskedIn(s), Holding')
    BY <1>1, <1>4 DEF ReservedInv
  <1> QED BY <1>1, <1>4, <1>5, <1>6, <1>7, <1>8, OneReserves

LEMMA AbortReserved ==
    ASSUME OneAtATime, ReservedInv, BooksInv', OnceInv', NEW p \in Workers, Abort(p)
    PROVE  ReservedInv'
  <1>1. /\ UNCHANGED <<level, present, status>> /\ tx' = [tx EXCEPT ![p] = NoTx]
        /\ req' = [req EXCEPT ![p] = Idle]
        /\ torn' = IF EffectDone(p) THEN torn \cup {req[p].ref} ELSE torn
        /\ req \in [Workers -> Request] /\ tx \in [Workers -> Tx]
    BY DEF Abort, db, ReservedInv, BooksInv, TypeInv, Typed
  <1>2. req'[p].pc = "idle" /\ tx'[p].locked = {} BY <1>1 DEF Idle, NoTx
  <1>3. Holding' = ConfirmedOrders BY <1>1, <1>2, HoldingIs DEF ConfirmedOrders
  <1>4. ~InnerOpen(p)' BY <1>2 DEF InnerOpen
  <1>5. IsFiniteSet(Holding') BY <1>1, HeldFinite DEF ReservedInv
  <1>6. \A s \in Slots \ present' : level'[s] = EmptyRow BY <1>1 DEF ReservedInv
  <1>7. ASSUME torn' = {}, NEW s \in PlainSlots
        PROVE  level'[s].reserved = InitLevel[s].reserved + SumOver(AskedIn(s), Holding')
    <2>1. torn = {} /\ ~EffectDone(p) BY <1>1, <1>7
    <2>2. SumOver(AskedIn(s), ConfirmedOrders) = SumOver(AskedIn(s), Holding)
      BY <2>1, HoldsAsMuch DEF ReservedInv
    <2> QED BY <1>1, <1>3, <2>1, <2>2 DEF ReservedInv
  <1> QED BY <1>2, <1>4, <1>5, <1>6, <1>7, OneReserves

LEMMA ConnectReserved ==
    ASSUME OneAtATime, ReservedInv, BooksInv', OnceInv', NEW p \in Workers, Connect(p)
    PROVE  ReservedInv'
  <1> DEFINE r == req[p]
             o == r.ref
  <1>1. /\ UNCHANGED <<level, present, torn, status, tx>> /\ r.pc = "connect"
        /\ req \in [Workers -> Request] /\ level \in [Slots -> Row] /\ RequestOK(r)
        /\ IsFiniteSet(Holding) /\ OnceInv
    BY DEF Connect, db, ReservedInv, BooksInv, TypeInv, Typed, RequestsOK
  <1>2. /\ req'[p].pc \in {"commit", "read"} /\ req'[p].ref = o /\ req'[p].eff = r.eff
        /\ req'[p].line = r.line
        /\ req'[p].pc = "commit" => LinesOf(o) = <<>>
    <2> DEFINE pc == IF LinesOf(o) = <<>> THEN "commit" ELSE "read"
    <2>1. req' = [req EXCEPT ![p].pc = pc] BY DEF Connect
    <2>2. pc \in {"commit", "read"} /\ (pc = "commit" => LinesOf(o) = <<>>) OBVIOUS
    <2> HIDE DEF pc, o
    <2>3. req'[p].pc = pc /\ req'[p].ref = req[p].ref /\ req'[p].eff = req[p].eff
          /\ req'[p].line = req[p].line
      BY <1>1, <2>1 DEF Request
    <2> QED BY <2>2, <2>3 DEF o
  <1>3. Holding' = Holding BY <1>1, <1>2, HoldingIs DEF ConfirmedOrders
  <1>4. ~InnerOpen(p) /\ InnerOpen(p)' BY <1>1, <1>2 DEF InnerOpen
  <1>5. tx[p].locked = {} BY <1>4 DEF ReservedInv
  <1>6. \A s : View(p, s)' = level[s] BY <1>1, <1>5 DEF View
  <1>7. OrderRequest(r) \/ MovementRequest(r) BY <1>1 DEF RequestOK
  <1>8. ASSUME torn = {}, NEW s \in PlainSlots PROVE ReservedFit(p, s)'
    <2>1. level[s].reserved \in Int BY <1>1, PlainAre DEF Row
    <2>2. CASE r.eff \in {"reserve", "release", "ship"}
      <3>1. OrderRequest(r) BY <1>7, <2>2 DEF MovementRequest
      <3>2. o \in Orders /\ Lines[o] # <<>> BY <1>1, <3>1 DEF OrderRequest, InTransaction
      <3>3. o \in SalesOrders BY <1>1, <1>8, <2>2, <3>2, EffectOf
      <3>4. req'[p].pc = "read" BY <1>2, <3>2, OrderLines
      <3>5. LinesDone(req'[p]) = 0 BY <1>1, <1>2, <3>4 DEF LinesDone, RequestOK
      <3>6. AskedUpTo(o, s, 0) = 0 BY <3>3, AskedAll
      <3> HIDE DEF o, r
      <3> QED BY <1>1, <1>2, <1>6, <2>1, <3>5, <3>6 DEF ReservedFit
    <2>3. CASE r.eff \notin {"reserve", "release", "ship"}
      BY <1>1, <1>2, <1>6, <2>3 DEF ReservedFit
    <2> QED BY <2>2, <2>3
  <1> QED BY <1>1, <1>3, <1>4, <1>8, ReservesNoMore

LEMMA ReadsReserved ==
    ASSUME OneAtATime, ReservedInv, BooksInv', OnceInv', NEW p \in Workers,
           ReadLevel(p) \/ Reload(p)
    PROVE  ReservedInv'
  <1>1. /\ UNCHANGED <<level, present, torn, status, tx>> /\ req \in [Workers -> Request]
        /\ req[p].pc \in AtLine
    BY DEF ReadLevel, Reload, db, ReservedInv, BooksInv, TypeInv, Typed, AtLine
  <1>2. /\ req'[p].pc \in AtLine
        /\ req'[p].ref = req[p].ref /\ req'[p].eff = req[p].eff /\ req'[p].line = req[p].line
    <2>1. CASE ReadLevel(p)
      <3> DEFINE e == Exists(p, Slot(p))
                 row == After(req[p].eff, View(p, Slot(p)), LineAt(p).qty)
                 fresh == ~e
                 dirty == IF e THEN {} ELSE Columns
                 pc == IF e THEN "reload" ELSE "write"
      <3>1. req' = [req EXCEPT ![p].row = row, ![p].fresh = fresh, ![p].dirty = dirty, ![p].pc = pc]
        BY <2>1 DEF ReadLevel
      <3>2. pc \in {"reload", "write"} OBVIOUS
      <3> HIDE DEF e, row, fresh, dirty, pc
      <3> QED BY <1>1, <3>1, <3>2 DEF Request, AtLine
    <2>2. CASE Reload(p)
      <3>1. PICK dirty : req' = [req EXCEPT ![p].dirty = dirty, ![p].pc = "write"]
        BY <2>2 DEF Reload
      <3> QED BY <1>1, <3>1 DEF Request, AtLine
    <2> QED BY <2>1, <2>2
  <1> QED BY <1>1, <1>2, LooksReserved

\* After its line a request has done one more.
LEMMA OneMoreDone ==
    ASSUME NEW r \in Request, RequestOK(r), r.pc \in AtLine
    PROVE  /\ LinesDone(r) = r.line - 1 /\ LinesDone(NextLine(r)) = r.line
           /\ NextLine(r).ref = r.ref /\ NextLine(r).eff = r.eff
           /\ NextLine(r).pc \in {"read", "commit"}
  <1>1. r.line \in 1 .. Len(LinesOf(r.ref)) /\ r.line \in Nat BY DEF RequestOK, Request
  <1>2. NextLine(r).ref = r.ref /\ NextLine(r).eff = r.eff /\ NextLine(r).pc \in {"read", "commit"}
    BY NextLineOK
  <1>3. Len(LinesOf(r.ref)) \in Nat
    <2>1. OrderRequest(r) \/ MovementRequest(r) BY DEF RequestOK, AtLine
    <2> QED BY <2>1, OrderLines, MovementLinesShape DEF OrderRequest, MovementRequest
  <1>4. CASE r.line < Len(LinesOf(r.ref))
    <2>1. NextLine(r).pc = "read" /\ NextLine(r).line = r.line + 1 BY <1>4 DEF NextLine, Request
    <2> QED BY <1>1, <1>2, <2>1 DEF LinesDone, AtLine
  <1>5. CASE ~(r.line < Len(LinesOf(r.ref)))
    <2>1. NextLine(r).pc = "commit" BY <1>5 DEF NextLine, Request
    <2>2. r.line = Len(LinesOf(r.ref)) BY <1>1, <1>3, <1>5
    <2>3. LinesDone(NextLine(r)) = r.line BY <1>2, <2>1, <2>2 DEF LinesDone
    <2>4. LinesDone(r) = r.line - 1 BY DEF LinesDone, AtLine
    <2> QED BY <1>2, <2>3, <2>4
  <1> QED BY <1>4, <1>5

\* The line a request is at, done: what its order has asked for with it.
LEMMA LineReserved ==
    ASSUME OneAtATime, PlacesFixed, ReservedInv, torn = {}, NEW p \in Workers,
           req[p].pc \in AtLine, UNCHANGED level, req'[p] = NextLine(req[p]), NEW s \in PlainSlots,
           LET v == View(p, s).reserved
               q == IF Slot(p) = s THEN LineAt(p).qty ELSE 0
           IN  View(p, s)'.reserved = CASE req[p].eff = "reserve"             -> v + q
                                        [] req[p].eff \in {"release", "ship"} -> Clamp(v - q)
                                        [] OTHER                              -> v
    PROVE  ReservedFit(p, s)'
  <1> DEFINE r == req[p]
             o == r.ref
             n == r.line
             q == IF Slot(p) = s THEN LineAt(p).qty ELSE 0
             v == View(p, s).reserved
             a == AskedUpTo(o, s, n - 1)
             b == AskedUpTo(o, s, n)
  <1>1. /\ r \in Request /\ RequestOK(r) /\ TypeInv /\ OnceInv /\ InnerOpen(p)
        /\ level[s].reserved \in Int
    BY PlainAre DEF ReservedInv, BooksInv, TypeInv, Typed, RequestsOK, InnerOpen, AtLine, Row
  <1>2. LinesDone(r) = n - 1 /\ LinesDone(req'[p]) = n /\ req'[p].ref = o /\ req'[p].eff = r.eff
    BY <1>1, OneMoreDone
  <1>3. ReservedFit(p, s) BY <1>1 DEF ReservedInv
  <1>4. CASE r.eff \in {"reserve", "release", "ship"}
    <2>1. OrderRequest(r) BY <1>1, <1>4 DEF RequestOK, MovementRequest, AtLine
    <2>2. o \in Orders /\ Lines[o] # <<>> BY <2>1 DEF OrderRequest, InTransaction, AtLine
    <2>3. o \in SalesOrders BY <1>1, <1>4, <2>2, EffectOf DEF AtLine
    <2>4. /\ n \in 1 .. Len(Lines[o]) /\ b = a + q
          /\ Slot(p) \in PlainSlots => LineAt(p).qty \in Nat
      BY <1>1, <2>3, SalesLine
    <2>5. n - 1 \in 0 .. Len(Lines[o]) /\ n \in 0 .. Len(Lines[o])
      <3>1. Len(Lines[o]) \in Nat BY <2>3, AskedAll
      <3> QED BY <2>4, <3>1
    <2>6. a \in Nat /\ b \in Nat /\ b <= AskedIn(s)[o] BY <2>3, <2>5, AskedAll
    <2>7. r.eff \in {"release", "ship"} => b <= level[s].reserved
      <3>1. r.eff \in {"release", "ship"} => AskedIn(s)[o] <= level[s].reserved
        BY <1>1, EnoughReserved
      <3>2. AskedIn(s)[o] \in Nat BY <2>3, AskedAll
      <3> QED BY <1>1, <2>6, <3>1, <3>2
    <2>8. q \in Nat BY <2>4
    <2>9. CASE r.eff = "reserve"
      <3>1. v = level[s].reserved + a BY <1>2, <1>3, <2>9 DEF ReservedFit
      <3>2. View(p, s)'.reserved = v + q BY <2>9
      <3>3. View(p, s)'.reserved = level[s].reserved + b
        <4> HIDE DEF a, b, q, v
        <4> QED BY <1>1, <2>4, <2>6, <2>8, <3>1, <3>2
      <3> QED BY <1>2, <2>9, <3>3 DEF ReservedFit
    <2>10. CASE r.eff \in {"release", "ship"}
      <3>1. v = level[s].reserved - a BY <1>2, <1>3, <2>10 DEF ReservedFit
      <3>2. View(p, s)'.reserved = Clamp(v - q) BY <2>10
      <3>3. View(p, s)'.reserved = level[s].reserved - b
        <4> HIDE DEF a, b, q, v
        <4>1. v - q = level[s].reserved - b /\ ~(v - q < 0)
          BY <1>1, <2>4, <2>6, <2>7, <2>8, <2>10, <3>1
        <4> QED BY <3>2, <4>1 DEF Clamp
      <3> QED BY <1>2, <2>10, <3>3 DEF ReservedFit
    <2> QED BY <1>4, <2>9, <2>10
  <1>5. CASE r.eff \notin {"reserve", "release", "ship"}
    <2>1. v = level[s].reserved BY <1>3, <1>5 DEF ReservedFit
    <2> QED BY <1>2, <1>5, <2>1 DEF ReservedFit
  <1> QED BY <1>4, <1>5

LEMMA AfterReserves ==
    ASSUME NEW kind \in Kinds, NEW r \in Row, NEW q \in Int
    PROVE  After(kind, r, q).reserved = CASE kind = "reserve"             -> r.reserved + q
                                          [] kind \in {"release", "ship"} -> Clamp(r.reserved - q)
                                          [] OTHER                        -> r.reserved
  <1>1. CASE kind = "reserve" BY <1>1 DEF After, Row
  <1>2. CASE kind = "release" BY <1>2 DEF After, Row
  <1>3. CASE kind = "ship"    BY <1>3 DEF After, Row
  <1>4. CASE kind = "consume" BY <1>4 DEF After, Row
  <1>5. CASE kind = "adjust"  BY <1>5 DEF After, Row
  <1> QED BY <1>1, <1>2, <1>3, <1>4, <1>5 DEF Kinds

LEMMA SkipLineReserved ==
    ASSUME OneAtATime, PlacesFixed, FloorInv, ReservedInv, BooksInv', OnceInv',
           NEW p \in Workers, SkipLine(p)
    PROVE  ReservedInv'
  <1> DEFINE r == req[p]
             o == r.ref
  <1>1. /\ UNCHANGED <<level, present, torn, status, tx>> /\ r.pc = "read" /\ r.eff = "release"
        /\ req'[p] = NextLine(r) /\ ~Exists(p, Slot(p))
        /\ r \in Request /\ RequestOK(r) /\ TypeInv /\ level \in [Slots -> Row]
        /\ IsFiniteSet(Holding)
    BY DEF SkipLine, Skips, db, ReservedInv, BooksInv, TypeInv, Typed, RequestsOK
  <1>2. /\ req'[p].pc \in {"read", "commit"} /\ Slot(p) \in Slots
        /\ Slot(p) \in PlainSlots => LineAt(p).qty \in Nat
    BY <1>1, OneMoreDone, LineInfo DEF AtLine
  <1>3. Holding' = Holding BY <1>1, <1>2, HoldingIs DEF ConfirmedOrders
  <1>4. InnerOpen(p) /\ InnerOpen(p)' BY <1>1, <1>2 DEF InnerOpen
  <1>5. View(p, Slot(p)) = EmptyRow /\ level[Slot(p)] = EmptyRow
    BY <1>1, <1>2 DEF Exists, View, ReservedInv
  <1>6. ASSUME torn = {}, Slot(p) \in PlainSlots PROVE LineAt(p).qty = 0
    <2> DEFINE s == Slot(p)
               n == r.line
    <2>1. o \in SalesOrders /\ AskedIn(s)[o] <= level[s].reserved
      BY <1>1, <1>2, <1>4, <1>6, EnoughReserved
    <2>2. AskedIn(s)[o] <= 0 BY <1>5, <2>1 DEF EmptyRow
    <2>3. n \in 1 .. Len(Lines[o]) /\ AskedUpTo(o, s, n) = AskedUpTo(o, s, n - 1) + LineAt(p).qty
      BY <1>1, <1>6, <2>1, SalesLine DEF AtLine
    <2>4. n - 1 \in 0 .. Len(Lines[o]) /\ n \in 0 .. Len(Lines[o])
      <3>1. Len(Lines[o]) \in Nat BY <1>6, <2>1, AskedAll
      <3> QED BY <2>3, <3>1
    <2>5. /\ AskedUpTo(o, s, n) \in Nat /\ AskedUpTo(o, s, n - 1) \in Nat
          /\ AskedUpTo(o, s, n) <= AskedIn(s)[o] /\ AskedIn(s)[o] \in Nat
      BY <1>6, <2>1, <2>4, AskedAll
    <2>6. LineAt(p).qty \in Nat BY <1>2, <1>6
    <2> HIDE DEF o, s, n
    <2> QED BY <2>2, <2>3, <2>5, <2>6
  <1>7. ASSUME torn = {}, NEW s \in PlainSlots PROVE ReservedFit(p, s)'
    <2>1. View(p, s)' = View(p, s) BY <1>1 DEF View
    <2>2. View(p, s).reserved \in Nat BY <1>1, SafeView DEF TypeInv
    <2>3. (IF Slot(p) = s THEN LineAt(p).qty ELSE 0) = 0 BY <1>6, <1>7
    <2>4. Clamp(View(p, s).reserved - 0) = View(p, s).reserved BY <2>2 DEF Clamp
    <2> QED BY <1>1, <1>7, <2>1, <2>3, <2>4, LineReserved DEF AtLine
  <1> QED BY <1>1, <1>3, <1>4, <1>7, ReservesNoMore

LEMMA WriteReserved ==
    ASSUME OneAtATime, PlacesFixed, FloorInv, ReservedInv, BooksInv', OnceInv',
           NEW p \in Workers, Write(p)
    PROVE  ReservedInv'
  <1> DEFINE r == req[p]
             x == Slot(p)
             new == Overwrite(View(p, x), r.row, r.dirty)
             moved == GoodsMoved(r.eff, LineAt(p).qty)
  <1>1. /\ UNCHANGED <<level, present, torn, status>> /\ r.pc = "write"
        /\ req' = [req EXCEPT ![p] = NextLine(r)]
        /\ tx' = [tx EXCEPT ![p].locked = @ \cup {x}, ![p].row[x] = new, ![p].moved[x] = @ + moved]
        /\ r \in Request /\ RequestOK(r) /\ TypeInv /\ IsFiniteSet(Holding)
        /\ req \in [Workers -> Request] /\ tx \in [Workers -> Tx]
        /\ GoodsFit(p)
    BY DEF Write, db, ReservedInv, BooksInv, TypeInv, Typed, RequestsOK
  <1>2. /\ req'[p] = NextLine(r) /\ req'[p].pc \in {"read", "commit"}
        /\ x \in Slots /\ r.eff \in Kinds /\ LineAt(p).qty \in Int
    BY <1>1, OneMoreDone, LineInfo DEF AtLine
  <1>3. new = After(r.eff, View(p, x), LineAt(p).qty) BY <1>1 DEF GoodsFit
  <1>4. Holding' = Holding BY <1>1, <1>2, HoldingIs DEF ConfirmedOrders
  <1>5. InnerOpen(p) /\ InnerOpen(p)' BY <1>1, <1>2 DEF InnerOpen
  <1> HIDE DEF x, new, moved, r
  <1>6. \A s \in Slots : View(p, s)' = IF s = x THEN new ELSE View(p, s)
    <2>1. tx'[p].locked = tx[p].locked \cup {x} /\ tx'[p].row = [tx[p].row EXCEPT ![x] = new]
      BY <1>1 DEF Tx
    <2>2. tx[p].row \in [Slots -> Row] BY <1>1 DEF Tx
    <2> QED BY <1>1, <2>1, <2>2 DEF View
  <1>7. ASSUME torn = {}, NEW s \in PlainSlots PROVE ReservedFit(p, s)'
    <2> DEFINE v == View(p, s).reserved
               q == IF Slot(p) = s THEN LineAt(p).qty ELSE 0
    <2>1. s \in Slots /\ View(p, s) \in Row /\ View(p, s).reserved \in Nat
      BY <1>1, PlainAre, SafeView DEF TypeInv
    <2>2. CASE s = x
      <3>1. View(p, s)' = After(r.eff, View(p, s), LineAt(p).qty) BY <1>3, <1>6, <2>1, <2>2
      <3>2. q = LineAt(p).qty BY <2>2 DEF x
      <3>3. View(p, s)'.reserved = CASE r.eff = "reserve"             -> v + q
                                     [] r.eff \in {"release", "ship"} -> Clamp(v - q)
                                     [] OTHER                         -> v
        BY <1>2, <2>1, <3>1, <3>2, AfterReserves
      <3> QED BY <1>1, <1>2, <1>7, <3>3, LineReserved DEF AtLine, r
    <2>3. CASE s # x
      <3>1. View(p, s)' = View(p, s) /\ q = 0 BY <1>6, <2>1, <2>3 DEF x
      <3>2. v \in Nat BY <2>1
      <3> HIDE DEF v, q
      <3>3. v + q = v /\ Clamp(v - q) = v BY <3>1, <3>2 DEF Clamp
      <3>4. View(p, s)'.reserved = CASE r.eff = "reserve"             -> v + q
                                     [] r.eff \in {"release", "ship"} -> Clamp(v - q)
                                     [] OTHER                         -> v
        BY <3>1, <3>3 DEF v
      <3> QED BY <1>1, <1>2, <1>7, <3>4, LineReserved DEF AtLine, r, v, q
    <2> QED BY <2>2, <2>3
  <1>8. \A s \in Slots \ present' : level'[s] = EmptyRow BY <1>1 DEF ReservedInv
  <1>9. torn' = {} => \A s \in PlainSlots :
            level'[s].reserved = InitLevel[s].reserved + SumOver(AskedIn(s), Holding')
    BY <1>1, <1>4 DEF ReservedInv
  <1> QED BY <1>1, <1>4, <1>5, <1>7, <1>8, <1>9, OneReserves

LEMMA CommitStockReserved ==
    ASSUME OneAtATime, ReservedInv, BooksInv', OnceInv', NEW p \in Workers, CommitStock(p)
    PROVE  ReservedInv'
  <1> DEFINE r == req[p]
             o == r.ref
             C == ConfirmedOrders
  <1>1. /\ r \in Request /\ RequestOK(r) /\ req \in [Workers -> Request] /\ tx \in [Workers -> Tx]
        /\ level \in [Slots -> Row] /\ r.pc = "commit" /\ UNCHANGED <<status, torn>>
        /\ level' = [s \in Slots |-> View(p, s)] /\ present' = present \cup tx[p].locked
        /\ tx' = [tx EXCEPT ![p] = NoTx] /\ OnceInv /\ IsFiniteSet(Holding)
    BY DEF CommitStock, ReservedInv, BooksInv, TypeInv, Typed, RequestsOK
  <1>2. tx'[p].locked = {} BY <1>1 DEF NoTx
  <1>3. OrderRequest(r) \/ MovementRequest(r) BY <1>1 DEF RequestOK
  <1>4. InnerOpen(p) BY <1>1 DEF InnerOpen
  <1>5. Holding = C /\ Holding' = Holders(req'[p], status) BY <1>1, HoldingIs
  <1>6. C \in SUBSET SalesOrders /\ IsFiniteSet(C) BY <1>1, <1>5 DEF ConfirmedOrders
  <1>7. IsFiniteSet(Holding') BY <1>1, HeldFinite
  <1>8. req'[p].pc \in {"idle", "save"} /\ ~InnerOpen(p)'
    <2>1. CASE o \in Movements BY <1>1, <2>1 DEF CommitStock, Idle, InnerOpen
    <2>2. CASE o \notin Movements BY <1>1, <2>2 DEF CommitStock, Request, InnerOpen
    <2> QED BY <2>1, <2>2
  <1>9. \A s \in Slots \ present' : level'[s] = EmptyRow
    <2> TAKE s \in Slots \ present'
    <2>1. s \in Slots \ present /\ s \notin tx[p].locked BY <1>1
    <2> QED BY <1>1, <2>1 DEF View, ReservedInv
  <1>10. ASSUME torn = {}, NEW s \in PlainSlots
         PROVE  level'[s].reserved = InitLevel[s].reserved + SumOver(AskedIn(s), Holding')
    <2> DEFINE F == AskedIn(s)
    <2>1. level[s].reserved = InitLevel[s].reserved + SumOver(F, C)
      BY <1>5, <1>10 DEF ReservedInv
    <2>2. level'[s] = View(p, s) /\ ReservedFit(p, s)
      BY <1>1, <1>4, <1>10, PlainAre DEF ReservedInv
    <2>3. level[s].reserved \in Int /\ InitLevel[s].reserved \in Nat
      BY <1>1, PlainAre DEF Row
    <2>4. \A x \in SalesOrders : F[x] \in Nat BY AskedAll
    <2>5. CASE o \in Movements
      <3>1. r.eff = "adjust"
        BY <1>3, <2>5, IdsAssumption DEF OrderRequest, MovementRequest
      <3>2. level'[s].reserved = level[s].reserved BY <2>2, <3>1 DEF ReservedFit
      <3>3. req'[p].pc = "idle" BY <1>1, <2>5 DEF CommitStock, Idle
      <3>4. Holding' = C BY <1>5, <3>3 DEF Holders, ConfirmedOrders
      <3> QED BY <2>1, <3>2, <3>4
    <2>6. CASE o \notin Movements
      <3>1. OrderRequest(r) BY <1>3, <2>6 DEF MovementRequest
      <3>2. o \in Orders /\ Lines[o] # <<>> /\ r.eff \notin {"none", "adjust"}
        BY <1>1, <3>1 DEF OrderRequest, InTransaction
      <3>3. req'[p].pc = "save" /\ req'[p].ref = o /\ req'[p].to = r.to
        BY <1>1, <2>6 DEF CommitStock, Request
      <3>4. Holding' = {x \in SalesOrders : IF x = o THEN r.to = "CONFIRMED"
                                            ELSE status[x] = "CONFIRMED"}
        BY <1>5, <3>3 DEF Holders
      <3>5. LinesDone(r) = Len(Lines[o]) BY <1>1, <3>2, OrderLines DEF LinesDone
      <3>6. o \in SalesOrders => AskedUpTo(o, s, LinesDone(r)) = F[o] BY <3>5, AskedAll
      <3>7. CASE r.eff = "reserve"
        <4>1. o \in SalesOrders /\ r.to = "CONFIRMED" /\ status[o] = "DRAFT"
          BY <1>1, <1>10, <3>2, <3>7, EffectOf
        <4>2. Holding' = C \cup {o} /\ o \notin C BY <3>4, <4>1 DEF ConfirmedOrders
        <4>3. level'[s].reserved = level[s].reserved + F[o]
          BY <2>2, <3>6, <3>7, <4>1 DEF ReservedFit
        <4>4. \A y \in C \cup {o} : F[y] \in Int BY <1>6, <2>4, <4>1
        <4>5. o \in SalesOrders BY <4>1
        <4> HIDE DEF C, F, o
        <4>6. SumOver(F, C \cup {o}) = F[o] + SumOver(F, C)
          BY <1>6, <4>2, <4>4, SumMore
        <4>7. SumOver(F, C) \in Int BY <1>6, <4>4, SumInt
        <4>8. F[o] \in Int BY <4>4
        <4>9. level'[s].reserved = InitLevel[s].reserved + SumOver(F, C \cup {o})
          BY <2>1, <2>3, <4>3, <4>6, <4>7, <4>8
        <4> QED BY <4>2, <4>9 DEF F
      <3>8. CASE r.eff \in {"release", "ship"}
        <4>1. o \in SalesOrders /\ r.to # "CONFIRMED" /\ status[o] = "CONFIRMED"
          BY <1>1, <1>10, <3>2, <3>8, EffectOf
        <4>2. Holding' = C \ {o} /\ o \in C BY <3>4, <4>1 DEF ConfirmedOrders
        <4>3. level'[s].reserved = level[s].reserved - F[o]
          BY <2>2, <3>6, <3>8, <4>1 DEF ReservedFit
        <4>4. \A y \in C \cup {o} : F[y] \in Int BY <1>6, <2>4, <4>1
        <4> HIDE DEF C, F, o
        <4>5. SumOver(F, C) = F[o] + SumOver(F, C \ {o}) /\ SumOver(F, C \ {o}) \in Int
          BY <1>6, <4>2, <4>4, SumWithout
        <4>6. F[o] \in Int BY <4>4
        <4>7. level'[s].reserved = InitLevel[s].reserved + SumOver(F, C \ {o})
          BY <2>1, <2>3, <4>3, <4>5, <4>6
        <4> QED BY <4>2, <4>7 DEF F
      <3>9. CASE r.eff = "consume"
        <4>1. o \notin SalesOrders BY <1>1, <1>10, <3>2, <3>9, EffectOf
        <4>2. Holding' = C BY <3>4, <4>1 DEF ConfirmedOrders
        <4>3. level'[s].reserved = level[s].reserved BY <2>2, <3>9 DEF ReservedFit
        <4> QED BY <2>1, <4>2, <4>3
      <3> QED BY <1>1, <3>2, <3>7, <3>8, <3>9 DEF Request, Kinds
    <2> QED BY <2>5, <2>6
  <1> QED BY <1>1, <1>2, <1>7, <1>8, <1>9, <1>10, OneReserves

LEMMA ReservedInit == OneAtATime /\ Init => ReservedInv
  <1> SUFFICES ASSUME OneAtATime, Init PROVE ReservedInv OBVIOUS
  <1>1. BooksInv /\ OnceInv BY BooksInit, OnceInit
  <1>2. /\ \A o \in SalesOrders : status[o] = "DRAFT"
        /\ \A p \in Workers : req[p].pc = "idle" /\ tx[p].locked = {}
    BY DEF Init, Idle, NoTx, Orders
  <1>3. Holding = {} BY <1>2 DEF Holding, Saves
  <1>4. \A s \in PlainSlots : SumOver(AskedIn(s), Holding) = 0 BY <1>3, SumEmpty
  <1>5. \A s \in PlainSlots : InitLevel[s].reserved \in Nat BY PlainAre
  <1>6. level = InitLevel /\ present = InitPresent BY DEF Init
  <1>7. \A s \in PlainSlots : level[s].reserved = InitLevel[s].reserved + SumOver(AskedIn(s), Holding)
    BY <1>4, <1>5, <1>6
  <1>8. IsFiniteSet(Holding) BY <1>3, FS_EmptySet
  <1>9. \A p \in Workers : ~InnerOpen(p) BY <1>2 DEF InnerOpen
  <1> QED BY <1>1, <1>2, <1>6, <1>7, <1>8, <1>9, StockAssumption DEF ReservedInv

LEMMA ReservedNext ==
    OneAtATime /\ PlacesFixed /\ FloorInv /\ ReservedInv /\ [Next]_vars => ReservedInv'
  <1> SUFFICES ASSUME OneAtATime, PlacesFixed, FloorInv, ReservedInv, [Next]_vars
               PROVE  ReservedInv'
    OBVIOUS
  <1>1. BooksInv' /\ OnceInv' BY BooksNext, OnceNext DEF ReservedInv
  <1>2. ASSUME NEW p \in Workers, Abort(p) PROVE ReservedInv' BY <1>1, <1>2, AbortReserved
  <1>3. ASSUME NEW p \in Workers, Serve(p) PROVE ReservedInv'
    <2>1. CASE PickWarehouse(p) BY <1>1, <2>1, PickWarehouseReserved
    <2>2. CASE Connect(p) BY <1>1, <2>2, ConnectReserved
    <2>3. CASE ReadLevel(p) \/ Reload(p) BY <1>1, <2>3, ReadsReserved
    <2>4. CASE SkipLine(p) BY <1>1, <2>4, SkipLineReserved
    <2>5. CASE Write(p) BY <1>1, <2>5, WriteReserved
    <2>6. CASE CommitStock(p) BY <1>1, <2>6, CommitStockReserved
    <2>7. CASE SaveStatus(p) BY <1>1, <2>7, SaveStatusReserved
    <2> QED BY <1>2, <1>3, <2>1, <2>2, <2>3, <2>4, <2>5, <2>6, <2>7, Failures DEF Serve
  <1>4. ASSUME UNCHANGED <<status, present, level, req, tx, torn>> PROVE ReservedInv'
    <2>1. Holding' = Holding BY <1>4 DEF Holding, Saves
    <2>2. \A p, s : ReservedFit(p, s)' <=> ReservedFit(p, s) BY <1>4 DEF ReservedFit, View
    <2>3. \A p : InnerOpen(p)' <=> InnerOpen(p) BY <1>4 DEF InnerOpen
    <2> QED BY <1>1, <1>4, <2>1, <2>2, <2>3 DEF ReservedInv
  <1>5. ASSUME NEW w \in Warehouses, ChangeDefault(w) PROVE ReservedInv'
    BY <1>4, <1>5 DEF ChangeDefault
  <1>6. CASE Drained \/ UNCHANGED vars BY <1>4, <1>6 DEF Drained, vars
  <1>7. ASSUME NEW p \in Workers,
               \/ \E o \in Orders, to \in Status : Receive(p, o, to)
               \/ \E m \in Movements : ReceiveMovement(p, m)
        PROVE  ReservedInv'
    BY <1>1, <1>7, ReceiveReserved
  <1>8. ASSUME NEW p \in Workers, ConnectionLost(p) PROVE ReservedInv' BY <1>2, <1>8, Failures
  <1> QED BY <1>3, <1>5, <1>6, <1>7, <1>8 DEF Next

LEMMA ReservedSays == OneAtATime /\ PlacesFixed /\ ReservedInv => ReservedMatchesOrders
  <1> SUFFICES ASSUME OneAtATime, PlacesFixed, ReservedInv, torn = {},
                      \A o \in Orders : Settled(o), NEW s \in PlainSlots
               PROVE  level[s].reserved = InitLevel[s].reserved
                          + MapThenSumSet(LAMBDA o : Asked(o, s), ConfirmedOrders)
    BY DEF ReservedMatchesOrders, ReservedAsAsked
  <1>1. /\ level[s].reserved = InitLevel[s].reserved + SumOver(AskedIn(s), Holding)
        /\ IsFiniteSet(Holding) /\ defaultWh \in Warehouses /\ OnceInv
    BY DEF ReservedInv, BooksInv, TypeInv, Typed
  <1>2. /\ IsFiniteSet(ConfirmedOrders)
        /\ SumOver(AskedIn(s), ConfirmedOrders) = SumOver(AskedIn(s), Holding)
    <2>1. CASE Workers = {}
      <3>1. Holding = ConfirmedOrders BY <2>1 DEF Holding, Saves, ConfirmedOrders
      <3> QED BY <1>1, <3>1
    <2>2. ASSUME NEW p \in Workers
          PROVE  /\ IsFiniteSet(ConfirmedOrders)
                 /\ SumOver(AskedIn(s), ConfirmedOrders) = SumOver(AskedIn(s), Holding)
      <3>1. IsFiniteSet(ConfirmedOrders)
        <4>1. ConfirmedOrders \subseteq Holding \cup {req[p].ref}
          BY HoldingIs DEF Holders, ConfirmedOrders
        <4> QED BY <1>1, <4>1, FS_AddElement, FS_Subset
      <3>2. ~EffectDone(p)
        <4>1. RequestOK(req[p]) BY <1>1 DEF OnceInv, SagaInv, TypeInv, RequestsOK
        <4>2. EffectDone(p) => req[p].ref \in Orders
          BY <4>1 DEF EffectDone, RequestOK, OrderRequest, MovementRequest, InTransaction
        <4> QED BY <4>2 DEF Settled
      <3> QED BY <1>1, <3>1, <3>2, HoldsAsMuch
    <2> QED BY <2>1, <2>2
  <1>3. MapThenSumSet(LAMBDA o : Asked(o, s), ConfirmedOrders)
            = SumOver(AskedIn(s), ConfirmedOrders)
    BY <1>1, <1>2, ConfirmedAsk
  <1> QED BY <1>1, <1>2, <1>3

(***************************************************************************)
(* Served one request at a time, with the lines of sales orders naming     *)
(* slots the default warehouse does not move, what is reserved in a row no *)
(* line asks less than nothing of is what the confirmed orders ask of it,  *)
(* for any orders and lines, as long as no request is lost between its two *)
(* commits (sales.service.ts:199, inventory.service.ts:343-444): so no     *)
(* reservation outlives its order, and the floor at zero of a release or a *)
(* shipment hides no loss. Of the other rows it does (NothingLeftReserved).*)
(***************************************************************************)
THEOREM ReservedForOrders ==
    ASSUME OneAtATime, PlacesFixed
    PROVE  Spec => []ReservedMatchesOrders
  <1>1. Init => ReservedInv BY ReservedInit
  <1>2. FloorInv /\ ReservedInv /\ [Next]_vars => ReservedInv' BY ReservedNext
  <1>3. ReservedInv => ReservedMatchesOrders BY ReservedSays
  <1> QED BY <1>1, <1>2, <1>3, FloorInvariant, PTL DEF Spec
-----------------------------------------------------------------------------
(* The calls of StockLedger.                                               *)

\* What the ledger makes of one line of a call, and of its first lines.
Taken(kind, st, l) ==
    IF Ledger!Skips(kind, l.slot \in st.present) THEN st
    ELSE [ok |-> st.ok /\ Ledger!Accepts(kind, l.slot \in st.present, st.level[l.slot], l.qty),
          present |-> st.present \cup {l.slot},
          level |-> [st.level EXCEPT ![l.slot] = Ledger!After(kind, @, l.qty)],
          goods |-> [st.goods EXCEPT ![l.slot] = @ + Ledger!GoodsMoved(kind, l.qty)]]

RunOf(call, st) ==
    LET run[n \in 0 .. Len(call.lines)] ==
            IF n = 0 THEN st ELSE Taken(call.kind, run[n - 1], call.lines[n])
    IN  run

\* The stock as it is committed, and as the transaction of p sees it.
Committed == [ok |-> TRUE, present |-> present, level |-> level, goods |-> goods]
Seen(p) ==
    [ok      |-> TRUE,
     present |-> present \cup tx[p].locked,
     level   |-> [s \in Slots |-> View(p, s)],
     goods   |-> [s \in Slots |-> goods[s] + tx[p].moved[s]]]

\* The call a request makes. A movement has no default warehouse, and its lines need none.
Picked(r) == IF r.wh \in Warehouses THEN r.wh ELSE CHOOSE w \in Warehouses : TRUE

CallOf(r) ==
    [kind  |-> r.eff,
     lines |-> [n \in DOMAIN LinesOf(r.ref) |->
                   [slot |-> SlotOf(LinesOf(r.ref)[n], Picked(r)), qty |-> LinesOf(r.ref)[n].qty]]]

\* What the transaction sees is what the ledger makes of the lines it has done, and the
\* line that it is writing was accepted.
CallFit(p) ==
    LET r == req[p]
        s == Slot(p)
    IN  /\ InnerOpen(p) => RunOf(CallOf(r), Committed)[LinesDone(r)] = Seen(p)
        /\ r.pc \in {"reload", "write"} =>
               /\ ~Skips(r.eff, Exists(p, s))
               /\ Accepts(r.eff, Exists(p, s), View(p, s), LineAt(p).qty)

LedgerInv ==
    /\ BooksInv
    /\ \A p \in Workers : ~InnerOpen(p) => tx[p] = NoTx
    /\ \A p \in Workers : req[p].pc # "idle" /\ req[p].eff # "none" =>
                              req[p].eff \in KindsOf(req[p].ref)
    /\ \A p \in Workers : CallFit(p)

LEMMA PrefixIs ==
    ASSUME NEW call
    PROVE  Ledger!Prefix(call) = RunOf(call, Committed)[Len(call.lines)]
  BY DEF Ledger!Prefix, RunOf, Taken, Committed

LEMMA SameRows ==
    ASSUME NEW kind \in Kinds, NEW e \in BOOLEAN, NEW r, NEW q
    PROVE  /\ Ledger!Skips(kind, e) <=> Skips(kind, e)
           /\ Ledger!Accepts(kind, e, r, q) = Accepts(kind, e, r, q)
           /\ Ledger!After(kind, r, q) = After(kind, r, q)
           /\ Ledger!GoodsMoved(kind, q) = GoodsMoved(kind, q)
  BY DEF Kinds, Ledger!Skips, Skips, Ledger!Accepts, Accepts, Ledger!After, After,
         Ledger!GoodsMoved, GoodsMoved, Ledger!Available, Available, Ledger!Clamp, Clamp

\* The run of a call, line by line: that there is such a function takes an induction.
LEMMA RunSteps ==
    ASSUME NEW call, Len(call.lines) \in Nat, NEW st
    PROVE  LET f == RunOf(call, st)
           IN  /\ f[0] = st
               /\ \A n \in 1 .. Len(call.lines) :
                      f[n] = Taken(call.kind, f[n - 1], call.lines[n])
  <1> DEFINE l == Len(call.lines)
             Next1(g, k) == IF k = 0 THEN st ELSE Taken(call.kind, g[k - 1], call.lines[k])
             Is(g, n) == g = [k \in 0 .. n |-> Next1(g, k)]
             N == {n \in Nat : \E g : Is(g, n)}
             f == RunOf(call, st)
  <1>1. 0 \in N
    <2>1. Is([k \in 0 .. 0 |-> st], 0) OBVIOUS
    <2> QED BY <2>1
  <1>2. ASSUME NEW n \in N PROVE n + 1 \in N
    <2>1. PICK g : Is(g, n) OBVIOUS
    <2> DEFINE x == Taken(call.kind, g[n], call.lines[n + 1])
               h == [k \in 0 .. n + 1 |-> IF k = n + 1 THEN x ELSE g[k]]
    <2>2. n \in Nat OBVIOUS
    <2>3. ASSUME NEW k \in 0 .. n + 1 PROVE h[k] = Next1(h, k)
      <3>1. CASE k = n + 1
        <4>1. h[k - 1] = g[n] /\ k # 0 BY <2>2, <3>1
        <4> QED BY <2>2, <3>1, <4>1
      <3>2. CASE k # n + 1
        <4>1. k \in 0 .. n BY <2>2, <3>2
        <4>2. h[k] = g[k] /\ g[k] = Next1(g, k) BY <2>1, <2>2, <4>1
        <4>3. k # 0 => h[k - 1] = g[k - 1] BY <2>2, <4>1
        <4> QED BY <4>2, <4>3
      <3> QED BY <3>1, <3>2
    <2>4. Is(h, n + 1)
      <3> DEFINE m == [k \in 0 .. n + 1 |-> Next1(h, k)]
      <3>1. h = m
        <4> HIDE DEF Next1, x
        <4> QED BY <2>3
      <3> QED BY <3>1
    <2> HIDE DEF Is
    <2> QED BY <2>2, <2>4
  <1>3. N = Nat
    <2>1. N \in SUBSET Nat OBVIOUS
    <2> HIDE DEF N
    <2> QED BY <1>1, <1>2, <2>1, NatSubset
  <1>4. \E g : Is(g, l)
    <2> HIDE DEF Is
    <2> QED BY <1>3
  <1>5. f = CHOOSE g : Is(g, l) BY DEF RunOf
  <1>6. Is(f, l)
    <2> HIDE DEF Is, f
    <2> QED BY <1>4, <1>5
  <1> HIDE DEF f
  <1>7. f = [k \in 0 .. l |-> Next1(f, k)] BY <1>6
  <1>8. \A k \in 0 .. l : f[k] = Next1(f, k)
    <2> HIDE DEF Next1, l
    <2> QED BY <1>7
  <1>9. f[0] = st BY <1>8
  <1>10. \A n \in 1 .. l : f[n] = Taken(call.kind, f[n - 1], call.lines[n]) BY <1>8
  <1> QED BY <1>9, <1>10 DEF f

\* The call of a request has a line for each line of its reference, and the one it is
\* at is the line, and names the row, that it reads and writes.
LEMMA CallLines ==
    ASSUME TypeInv, NEW p \in Workers, req[p].pc # "idle"
    PROVE  LET c == CallOf(req[p])
           IN  /\ c.kind = req[p].eff
               /\ Len(c.lines) = Len(LinesOf(req[p].ref)) /\ Len(c.lines) \in Nat
               /\ req[p].pc \in AtLine =>
                      /\ req[p].line \in 1 .. Len(c.lines)
                      /\ c.lines[req[p].line] = [slot |-> Slot(p), qty |-> LineAt(p).qty]
  <1> DEFINE r == req[p]
             ls == LinesOf(r.ref)
             c == CallOf(r)
             n == r.line
  <1>1. r \in Request /\ RequestOK(r) BY DEF TypeInv, Typed, RequestsOK
  <1>2. OrderRequest(r) \/ MovementRequest(r) BY <1>1 DEF RequestOK
  <1>3. Len(ls) \in Nat /\ DOMAIN ls = 1 .. Len(ls)
    <2>1. CASE OrderRequest(r)
      <3>1. ls \in Seq(Line) BY <2>1, OrderLines DEF OrderRequest
      <3> HIDE DEF ls
      <3> QED BY <3>1
    <2>2. CASE MovementRequest(r)
      <3>1. ls \in Seq(MovementLine) BY <2>2, MovementLinesShape DEF MovementRequest
      <3> HIDE DEF ls
      <3> QED BY <3>1
    <2> QED BY <1>2, <2>1, <2>2
  <1>4. c.kind = r.eff
        /\ c.lines = [k \in 1 .. Len(ls) |-> [slot |-> SlotOf(ls[k], Picked(r)), qty |-> ls[k].qty]]
    BY <1>3 DEF CallOf
  <1>5. Len(c.lines) = Len(ls)
    <2> HIDE DEF c, ls
    <2> QED BY <1>3, <1>4
  <1>6. ASSUME r.pc \in AtLine
        PROVE  n \in 1 .. Len(ls) /\ c.lines[n] = [slot |-> Slot(p), qty |-> LineAt(p).qty]
    <2>1. n \in 1 .. Len(ls) BY <1>1, <1>6 DEF RequestOK
    <2>2. c.lines[n] = [slot |-> SlotOf(ls[n], Picked(r)), qty |-> ls[n].qty]
      BY <1>4, <2>1
    <2>3. SlotOf(ls[n], Picked(r)) = SlotOf(ls[n], r.wh)
      <3>1. CASE OrderRequest(r)
        <4>1. r.wh \in Warehouses BY <1>6, <3>1 DEF OrderRequest, AtLine, InTransaction
        <4> QED BY <4>1 DEF Picked
      <3>2. CASE MovementRequest(r)
        <4>1. ls \in Seq(MovementLine) BY <3>2, MovementLinesShape DEF MovementRequest
        <4>2. ls[n] \in MovementLine BY <2>1, <4>1
        <4>3. ls[n].wh # Default BY <4>2, IdsAssumption DEF MovementLine
        <4> QED BY <4>3 DEF SlotOf
      <3> QED BY <1>2, <3>1, <3>2
    <2> QED BY <2>1, <2>2, <2>3 DEF Slot, LineAt
  <1> QED BY <1>3, <1>4, <1>5, <1>6

LEMMA AcceptsOrNot ==
    ASSUME NEW kind \in Kinds, NEW e \in BOOLEAN, NEW r, NEW q
    PROVE  Accepts(kind, e, r, q) \in BOOLEAN
  <1> kind \in {"reserve", "release", "ship", "consume", "adjust"} BY DEF Kinds
  <1>1. CASE kind = "reserve" BY <1>1 DEF Accepts
  <1>2. CASE kind = "release" BY <1>2 DEF Accepts
  <1>3. CASE kind = "ship" BY <1>3 DEF Accepts
  <1>4. CASE kind = "consume" BY <1>4 DEF Accepts
  <1>5. CASE kind = "adjust" BY <1>5 DEF Accepts
  <1> QED BY <1>1, <1>2, <1>3, <1>4, <1>5

\* The line a request is at, refused, left alone or done, as the ledger does it.
LEMMA TakenIs ==
    ASSUME TypeInv, NEW p \in Workers, req[p].pc \in AtLine
    PROVE  LET k == req[p].eff
               s == Slot(p)
               q == LineAt(p).qty
               next == Taken(k, Seen(p), [slot |-> s, qty |-> q])
           IN  /\ Skips(k, Exists(p, s)) => next = Seen(p)
               /\ ~Skips(k, Exists(p, s)) =>
                      next = [ok      |-> Accepts(k, Exists(p, s), View(p, s), q),
                              present |-> (present \cup tx[p].locked) \cup {s},
                              level   |-> [Seen(p).level EXCEPT ![s] = After(k, View(p, s), q)],
                              goods   |-> [Seen(p).goods EXCEPT ![s] = @ + GoodsMoved(k, q)]]
  <1> DEFINE k == req[p].eff
             s == Slot(p)
             q == LineAt(p).qty
             st == Seen(p)
  <1>1. k \in Kinds /\ s \in Slots BY LineInfo
  <1>2. /\ st.ok = TRUE /\ (s \in st.present) = Exists(p, s) /\ st.level[s] = View(p, s)
        /\ st.present = present \cup tx[p].locked
        /\ Exists(p, s) \in BOOLEAN
    BY <1>1 DEF Seen, Exists
  <1>3. /\ Ledger!Skips(k, Exists(p, s)) <=> Skips(k, Exists(p, s))
        /\ Ledger!Accepts(k, Exists(p, s), View(p, s), q) = Accepts(k, Exists(p, s), View(p, s), q)
        /\ Ledger!After(k, View(p, s), q) = After(k, View(p, s), q)
        /\ Ledger!GoodsMoved(k, q) = GoodsMoved(k, q)
    BY <1>1, <1>2, SameRows
  <1>4. Accepts(k, Exists(p, s), View(p, s), q) \in BOOLEAN BY <1>1, <1>2, AcceptsOrNot
  <1> DEFINE l == [slot |-> s, qty |-> q]
  <1>5. Taken(k, st, l) =
            IF Ledger!Skips(k, s \in st.present) THEN st
            ELSE [ok |-> st.ok /\ Ledger!Accepts(k, s \in st.present, st.level[s], q),
                  present |-> st.present \cup {s},
                  level |-> [st.level EXCEPT ![s] = Ledger!After(k, st.level[s], q)],
                  goods |-> [st.goods EXCEPT ![s] = st.goods[s] + Ledger!GoodsMoved(k, q)]]
    BY DEF Taken
  <1> HIDE DEF k, s, q, st, l
  <1>6. CASE Skips(k, Exists(p, s))
    <2>1. Taken(k, st, l) = st BY <1>2, <1>3, <1>5, <1>6
    <2> QED BY <1>6, <2>1 DEF k, s, q, st, l
  <1>7. CASE ~Skips(k, Exists(p, s))
    <2>1. Taken(k, st, l) =
              [ok |-> st.ok /\ Ledger!Accepts(k, s \in st.present, st.level[s], q),
               present |-> st.present \cup {s},
               level |-> [st.level EXCEPT ![s] = Ledger!After(k, st.level[s], q)],
               goods |-> [st.goods EXCEPT ![s] = st.goods[s] + Ledger!GoodsMoved(k, q)]]
      BY <1>2, <1>3, <1>5, <1>7
    <2>2. (st.ok /\ Ledger!Accepts(k, s \in st.present, st.level[s], q))
              = Accepts(k, Exists(p, s), View(p, s), q)
      BY <1>2, <1>3, <1>4
    <2>3. Ledger!After(k, st.level[s], q) = After(k, View(p, s), q) BY <1>2, <1>3
    <2>4. Taken(k, st, l) =
              [ok |-> Accepts(k, Exists(p, s), View(p, s), q),
               present |-> (present \cup tx[p].locked) \cup {s},
               level |-> [st.level EXCEPT ![s] = After(k, View(p, s), q)],
               goods |-> [st.goods EXCEPT ![s] = st.goods[s] + GoodsMoved(k, q)]]
      BY <1>2, <1>3, <2>1, <2>2, <2>3
    <2> QED BY <1>7, <2>4 DEF k, s, q, st, l
  <1> QED BY <1>6, <1>7 DEF k, s, q, st, l

\* The one worker, for what is said of each.
LEMMA OneCalls ==
    ASSUME OneAtATime, NEW p \in Workers, BooksInv', ~InnerOpen(p)' => tx'[p] = NoTx,
           req'[p].pc # "idle" /\ req'[p].eff # "none" => req'[p].eff \in KindsOf(req'[p].ref),
           CallFit(p)'
    PROVE  LedgerInv'
  <1>1. \A q \in Workers : q = p BY DEF OneAtATime
  <1> QED BY <1>1 DEF LedgerInv

\* A step outside of the inner transaction, before and after.
LEMMA OutsideCalls ==
    ASSUME OneAtATime, BooksInv', NEW p \in Workers, tx'[p] = NoTx, ~InnerOpen(p)',
           req'[p].pc # "idle" /\ req'[p].eff # "none" => req'[p].eff \in KindsOf(req'[p].ref)
    PROVE  LedgerInv'
  <1>1. CallFit(p)' BY DEF CallFit, InnerOpen
  <1> QED BY <1>1, OneCalls

\* A step inside it that only looks.
LEMMA LooksCalls ==
    ASSUME OneAtATime, LedgerInv, BooksInv', NEW p \in Workers,
           UNCHANGED <<level, present, goods, tx>>,
           req[p].pc \in AtLine, req'[p].pc \in AtLine, req'[p].ref = req[p].ref,
           req'[p].eff = req[p].eff, req'[p].line = req[p].line, req'[p].wh = req[p].wh,
           ~Skips(req[p].eff, Exists(p, Slot(p))),
           Accepts(req[p].eff, Exists(p, Slot(p)), View(p, Slot(p)), LineAt(p).qty)
    PROVE  LedgerInv'
  <1>1. InnerOpen(p) /\ InnerOpen(p)' BY DEF InnerOpen, AtLine
  <1>2. LinesDone(req'[p]) = LinesDone(req[p]) BY DEF LinesDone, AtLine
  <1>3. CallOf(req'[p]) = CallOf(req[p]) BY DEF CallOf, Picked
  <1>4. LineAt(p)' = LineAt(p) BY DEF LineAt
  <1>5. Slot(p)' = Slot(p) BY <1>4 DEF Slot
  <1>6. \A s : View(p, s)' = View(p, s) /\ Exists(p, s)' = Exists(p, s) BY DEF View, Exists
  <1>7. Committed' = Committed BY DEF Committed
  <1>8. Seen(p)' = Seen(p) BY <1>6 DEF Seen
  <1>9. RunOf(CallOf(req[p]), Committed)[LinesDone(req[p])] = Seen(p)
    BY <1>1 DEF LedgerInv, CallFit
  <1>10. CallFit(p)'
    <2>1. (RunOf(CallOf(req[p]), Committed)[LinesDone(req[p])] = Seen(p))'
      BY <1>2, <1>3, <1>7, <1>8, <1>9
    <2>2. (~Skips(req[p].eff, Exists(p, Slot(p)))
           /\ Accepts(req[p].eff, Exists(p, Slot(p)), View(p, Slot(p)), LineAt(p).qty))'
      BY <1>4, <1>5, <1>6
    <2> QED BY <2>1, <2>2 DEF CallFit
  <1>11. req[p].pc # "idle" BY DEF AtLine
  <1>12. req'[p].pc # "idle" /\ req'[p].eff # "none" => req'[p].eff \in KindsOf(req'[p].ref)
    BY <1>11 DEF LedgerInv
  <1> QED BY <1>1, <1>10, <1>12, OneCalls

\* A step that does a line.
LEMMA LineCalls ==
    ASSUME OneAtATime, LedgerInv, BooksInv', NEW p \in Workers,
           UNCHANGED <<level, present, goods>>, req[p].pc \in AtLine,
           req'[p] = NextLine(req[p]),
           Seen(p)' = Taken(req[p].eff, Seen(p), [slot |-> Slot(p), qty |-> LineAt(p).qty])
    PROVE  LedgerInv'
  <1> DEFINE r == req[p]
             n == r.line
             c == CallOf(r)
  <1>1. r \in Request /\ RequestOK(r) /\ TypeInv /\ r.pc # "idle"
    BY DEF LedgerInv, BooksInv, TypeInv, Typed, RequestsOK, AtLine
  <1>2. /\ LinesDone(r) = n - 1 /\ LinesDone(req'[p]) = n
        /\ req'[p].ref = r.ref /\ req'[p].eff = r.eff /\ req'[p].pc \in {"read", "commit"}
    BY <1>1, OneMoreDone
  <1>3. req'[p].wh = r.wh BY <1>1 DEF NextLine, Request
  <1>4. CallOf(req'[p]) = c BY <1>2, <1>3 DEF CallOf, Picked
  <1>5. Committed' = Committed BY DEF Committed
  <1>6. InnerOpen(p) /\ InnerOpen(p)' BY <1>2 DEF InnerOpen, AtLine
  <1>7. RunOf(c, Committed)[n - 1] = Seen(p) BY <1>2, <1>6 DEF LedgerInv, CallFit
  <1>8. /\ Len(c.lines) \in Nat /\ n \in 1 .. Len(c.lines) /\ c.kind = r.eff
        /\ c.lines[n] = [slot |-> Slot(p), qty |-> LineAt(p).qty]
    BY <1>1, CallLines
  <1>9. RunOf(c, Committed)[n] = Taken(c.kind, RunOf(c, Committed)[n - 1], c.lines[n])
    BY <1>8, RunSteps
  <1>10. RunOf(c, Committed)[n] = Seen(p)' BY <1>7, <1>8, <1>9
  <1>11. CallFit(p)'
    <2>1. (RunOf(CallOf(req[p]), Committed)[LinesDone(req[p])] = Seen(p))'
      BY <1>2, <1>4, <1>5, <1>10
    <2> QED BY <1>2, <2>1 DEF CallFit
  <1>12. req'[p].pc # "idle" /\ req'[p].eff # "none" => req'[p].eff \in KindsOf(req'[p].ref)
    BY <1>1, <1>2 DEF LedgerInv
  <1> QED BY <1>6, <1>11, <1>12, OneCalls

LEMMA ReceiveCalls ==
    ASSUME OneAtATime, LedgerInv, BooksInv', NEW p \in Workers, NEW o \in Orders,
           NEW to \in Status, Receive(p, o, to)
    PROVE  LedgerInv'
  <1> DEFINE eff == Effect(o, status[o], to)
  <1>1. /\ req \in [Workers -> Request] /\ req[p].pc = "idle" /\ tx' = tx
        /\ req' = [req EXCEPT ![p] = [Idle EXCEPT
                       !.pc = IF eff = "none" THEN "save" ELSE "warehouse",
                       !.ref = o, !.to = to, !.eff = eff]]
    BY DEF Receive, LedgerInv, BooksInv, TypeInv, Typed
  <1>2. tx'[p] = NoTx BY <1>1 DEF LedgerInv, InnerOpen
  <1>3. eff # "none" => eff \in KindsOf(o)
    <2>1. CASE o \in SalesOrders
      <3>1. o \notin ProductionOrders /\ o \notin Movements BY <2>1, IdsAssumption DEF Orders
      <3>2. KindsOf(o) = {"reserve", "release", "ship"} BY <2>1, <3>1 DEF KindsOf
      <3>3. eff = SalesEffect(status[o], to) BY <2>1 DEF Effect
      <3>4. SalesEffect(status[o], to) \in {"reserve", "release", "ship", "none"} BY DEF SalesEffect
      <3> QED BY <3>2, <3>3, <3>4
    <2>2. CASE o \in ProductionOrders
      <3>1. o \notin SalesOrders /\ o \notin Movements BY <2>2, IdsAssumption DEF Orders
      <3>2. KindsOf(o) = {"consume"} BY <2>2, <3>1 DEF KindsOf
      <3>3. eff \in {"consume", "none"} BY <3>1 DEF Effect, ProductionEffect
      <3> QED BY <3>2, <3>3
    <2> QED BY <2>1, <2>2 DEF Orders
  <1> HIDE DEF eff
  <1>4. req'[p].pc \in {"save", "warehouse"} /\ req'[p].ref = o /\ req'[p].eff = eff
    BY <1>1 DEF Idle
  <1>5. ~InnerOpen(p)' BY <1>4 DEF InnerOpen
  <1> QED BY <1>2, <1>3, <1>4, <1>5, OutsideCalls

LEMMA ReceiveMovementCalls ==
    ASSUME OneAtATime, LedgerInv, BooksInv', NEW p \in Workers, NEW m \in Movements,
           ReceiveMovement(p, m)
    PROVE  LedgerInv'
  <1>1. /\ req \in [Workers -> Request] /\ req[p].pc = "idle" /\ tx' = tx
        /\ req' = [req EXCEPT ![p] = [Idle EXCEPT !.pc = "connect", !.ref = m, !.eff = "adjust"]]
    BY DEF ReceiveMovement, LedgerInv, BooksInv, TypeInv, Typed
  <1>2. tx'[p] = NoTx BY <1>1 DEF LedgerInv, InnerOpen
  <1>3. "adjust" \in KindsOf(m)
    <2>1. m \notin SalesOrders /\ m \notin ProductionOrders BY IdsAssumption DEF Orders
    <2> QED BY <2>1 DEF KindsOf
  <1>4. req'[p].pc = "connect" /\ req'[p].ref = m /\ req'[p].eff = "adjust"
    BY <1>1 DEF Idle
  <1>5. ~InnerOpen(p)' BY <1>4 DEF InnerOpen
  <1> QED BY <1>2, <1>3, <1>4, <1>5, OutsideCalls

LEMMA PickWarehouseCalls ==
    ASSUME OneAtATime, LedgerInv, BooksInv', NEW p \in Workers, PickWarehouse(p)
    PROVE  LedgerInv'
  <1>1. req \in [Workers -> Request] /\ req[p].pc = "warehouse" /\ tx' = tx
    BY DEF PickWarehouse, LedgerInv, BooksInv, TypeInv, Typed
  <1>2. PICK pc : pc \in {"save", "connect"} /\ req' = [req EXCEPT ![p].wh = defaultWh, ![p].pc = pc]
    BY DEF PickWarehouse
  <1>3. req'[p].pc = pc /\ req'[p].ref = req[p].ref /\ req'[p].eff = req[p].eff
    BY <1>1, <1>2 DEF Request
  <1>4. ~InnerOpen(p) /\ ~InnerOpen(p)' BY <1>1, <1>2, <1>3 DEF InnerOpen
  <1>5. tx'[p] = NoTx BY <1>1, <1>4 DEF LedgerInv
  <1> QED BY <1>1, <1>3, <1>4, <1>5, OutsideCalls DEF LedgerInv

LEMMA ConnectCalls ==
    ASSUME OneAtATime, LedgerInv, BooksInv', NEW p \in Workers, Connect(p)
    PROVE  LedgerInv'
  <1> DEFINE r == req[p]
             c == CallOf(r)
             pc == IF LinesOf(r.ref) = <<>> THEN "commit" ELSE "read"
  <1>1. /\ req \in [Workers -> Request] /\ r.pc = "connect" /\ RequestOK(r) /\ TypeInv
        /\ UNCHANGED <<present, level, goods, tx>> /\ req' = [req EXCEPT ![p].pc = pc]
    BY DEF Connect, LedgerInv, BooksInv, TypeInv, Typed, RequestsOK, db
  <1>2. pc \in {"read", "commit"} /\ (pc = "commit" => LinesOf(r.ref) = <<>>) OBVIOUS
  <1>3. /\ req'[p].pc = pc /\ req'[p].ref = r.ref /\ req'[p].eff = r.eff
        /\ req'[p].line = r.line /\ req'[p].wh = r.wh
    <2> HIDE DEF pc
    <2> QED BY <1>1 DEF Request
  <1>4. ~InnerOpen(p) /\ InnerOpen(p)' BY <1>1, <1>2, <1>3 DEF InnerOpen
  <1>5. tx[p] = NoTx BY <1>4 DEF LedgerInv
  <1>6. LinesDone(req'[p]) = 0
    <2>1. r.line = 1 BY <1>1 DEF RequestOK
    <2> HIDE DEF pc
    <2> QED BY <1>2, <1>3, <2>1 DEF LinesDone
  <1>7. Seen(p)' = Committed
    <2>1. \A s \in Slots : View(p, s)' = level[s] /\ tx'[p].moved[s] = 0
      BY <1>1, <1>5 DEF View, NoTx
    <2>2. tx'[p].locked = {} BY <1>1, <1>5 DEF NoTx
    <2>3. level \in [Slots -> Row] /\ goods \in [Slots -> Int] BY <1>1 DEF TypeInv, Typed
    <2>4. [s \in Slots |-> View(p, s)]' = level BY <2>1, <2>3
    <2>5. [s \in Slots |-> goods[s] + tx[p].moved[s]]' = goods BY <1>1, <2>1, <2>3
    <2> QED BY <1>1, <2>2, <2>4, <2>5 DEF Seen, Committed
  <1>8. Committed' = Committed BY <1>1 DEF Committed
  <1>9. CallOf(req'[p]) = c BY <1>3 DEF CallOf, Picked
  <1>10. RunOf(c, Committed)[0] = Committed
    <2>1. Len(c.lines) \in Nat BY <1>1, CallLines
    <2> HIDE DEF c
    <2> QED BY <2>1, RunSteps
  <1>11. (RunOf(CallOf(req[p]), Committed)[LinesDone(req[p])] = Seen(p))'
    BY <1>6, <1>7, <1>8, <1>9, <1>10
  <1>12. CallFit(p)' BY <1>2, <1>3, <1>11 DEF CallFit
  <1> QED BY <1>1, <1>3, <1>4, <1>12, OneCalls DEF LedgerInv

LEMMA ReadsCalls ==
    ASSUME OneAtATime, LedgerInv, BooksInv', NEW p \in Workers, ReadLevel(p) \/ Reload(p)
    PROVE  LedgerInv'
  <1>1. /\ UNCHANGED <<level, present, goods, tx>> /\ req \in [Workers -> Request]
        /\ req[p].pc \in AtLine
    BY DEF ReadLevel, Reload, db, LedgerInv, BooksInv, TypeInv, Typed, AtLine
  <1>2. /\ req'[p].pc \in AtLine /\ req'[p].ref = req[p].ref /\ req'[p].eff = req[p].eff
        /\ req'[p].line = req[p].line /\ req'[p].wh = req[p].wh
    <2>1. CASE ReadLevel(p)
      <3> DEFINE e == Exists(p, Slot(p))
                 row == After(req[p].eff, View(p, Slot(p)), LineAt(p).qty)
                 fresh == ~e
                 dirty == IF e THEN {} ELSE Columns
                 pc == IF e THEN "reload" ELSE "write"
      <3>1. req' = [req EXCEPT ![p].row = row, ![p].fresh = fresh, ![p].dirty = dirty, ![p].pc = pc]
        BY <2>1 DEF ReadLevel
      <3>2. pc \in {"reload", "write"} OBVIOUS
      <3> HIDE DEF e, row, fresh, dirty, pc
      <3> QED BY <1>1, <3>1, <3>2 DEF Request, AtLine
    <2>2. CASE Reload(p)
      <3>1. PICK dirty : req' = [req EXCEPT ![p].dirty = dirty, ![p].pc = "write"]
        BY <2>2 DEF Reload
      <3> QED BY <1>1, <3>1 DEF Request, AtLine
    <2> QED BY <2>1, <2>2
  <1>3. /\ ~Skips(req[p].eff, Exists(p, Slot(p)))
        /\ Accepts(req[p].eff, Exists(p, Slot(p)), View(p, Slot(p)), LineAt(p).qty)
    BY DEF ReadLevel, Reload, LedgerInv, CallFit
  <1> QED BY <1>1, <1>2, <1>3, LooksCalls

LEMMA SkipLineCalls ==
    ASSUME OneAtATime, LedgerInv, BooksInv', NEW p \in Workers, SkipLine(p)
    PROVE  LedgerInv'
  <1>1. /\ UNCHANGED <<level, present, goods, tx>> /\ req[p].pc \in AtLine /\ TypeInv
        /\ req'[p] = NextLine(req[p]) /\ Skips(req[p].eff, Exists(p, Slot(p)))
    BY DEF SkipLine, db, LedgerInv, BooksInv, TypeInv, Typed, AtLine
  <1>2. Seen(p)' = Seen(p) BY <1>1 DEF Seen, View
  <1>3. Seen(p)' = Taken(req[p].eff, Seen(p), [slot |-> Slot(p), qty |-> LineAt(p).qty])
    BY <1>1, <1>2, TakenIs
  <1> QED BY <1>1, <1>3, LineCalls

LEMMA WriteCalls ==
    ASSUME OneAtATime, LedgerInv, BooksInv', NEW p \in Workers, Write(p)
    PROVE  LedgerInv'
  <1> DEFINE r == req[p]
             x == Slot(p)
             t == tx[p]
             new == Overwrite(View(p, x), r.row, r.dirty)
             moved == GoodsMoved(r.eff, LineAt(p).qty)
  <1>1. /\ UNCHANGED <<level, present, goods>> /\ r.pc = "write" /\ r.pc \in AtLine
        /\ req' = [req EXCEPT ![p] = NextLine(r)]
        /\ tx' = [tx EXCEPT ![p].locked = @ \cup {x}, ![p].row[x] = new, ![p].moved[x] = @ + moved]
        /\ TypeInv /\ req \in [Workers -> Request] /\ tx \in [Workers -> Tx]
        /\ goods \in [Slots -> Int] /\ GoodsFit(p) /\ CallFit(p)
    BY DEF Write, db, LedgerInv, BooksInv, TypeInv, Typed, AtLine
  <1>2. x \in Slots /\ r.eff \in Kinds /\ LineAt(p).qty \in Int BY <1>1, LineInfo
  <1>3. new = After(r.eff, View(p, x), LineAt(p).qty) BY <1>1 DEF GoodsFit
  <1>4. moved \in Int BY <1>2, WholeMove
  <1>5. /\ ~Skips(r.eff, Exists(p, x))
        /\ Accepts(r.eff, Exists(p, x), View(p, x), LineAt(p).qty) = TRUE
    BY <1>1 DEF CallFit
  <1>6. Taken(r.eff, Seen(p), [slot |-> x, qty |-> LineAt(p).qty]) =
            [ok      |-> TRUE,
             present |-> (present \cup t.locked) \cup {x},
             level   |-> [Seen(p).level EXCEPT ![x] = new],
             goods   |-> [Seen(p).goods EXCEPT ![x] = @ + moved]]
    BY <1>1, <1>3, <1>5, TakenIs
  <1>7. /\ Seen(p).level = [s \in Slots |-> View(p, s)]
        /\ Seen(p).goods = [s \in Slots |-> goods[s] + t.moved[s]]
    BY DEF Seen
  <1>8. req'[p] = NextLine(r) BY <1>1
  <1> HIDE DEF x, new, moved, r
  <1>9. /\ t \in Tx /\ tx'[p].locked = t.locked \cup {x}
        /\ tx'[p].row = [t.row EXCEPT ![x] = new]
        /\ tx'[p].moved = [t.moved EXCEPT ![x] = @ + moved]
    BY <1>1 DEF Tx
  <1> HIDE DEF t
  <1>10. [s \in Slots |-> View(p, s)]' = [Seen(p).level EXCEPT ![x] = new]
    <2>1. \A s \in Slots : View(p, s)' = IF s = x THEN new ELSE View(p, s)
      BY <1>1, <1>9 DEF View, Tx, t
    <2> QED BY <1>2, <1>7, <2>1
  <1>11. [s \in Slots |-> goods[s] + tx[p].moved[s]]' = [Seen(p).goods EXCEPT ![x] = @ + moved]
    <2>1. ASSUME NEW s \in Slots
          PROVE  goods'[s] + tx'[p].moved[s]
                     = IF s = x THEN (goods[s] + t.moved[s]) + moved ELSE goods[s] + t.moved[s]
      <3>1. t.moved \in [Slots -> Int] BY <1>9 DEF Tx
      <3>2. t.moved[s] \in Int /\ goods[s] \in Int /\ goods'[s] = goods[s] BY <1>1, <3>1
      <3>3. tx'[p].moved[s] = IF s = x THEN t.moved[s] + moved ELSE t.moved[s] BY <1>9, <3>1
      <3> QED BY <1>4, <3>2, <3>3
    <2> QED BY <1>2, <1>7, <2>1
  <1>12. Seen(p)' = [ok      |-> TRUE,
                     present |-> (present \cup t.locked) \cup {x},
                     level   |-> [Seen(p).level EXCEPT ![x] = new],
                     goods   |-> [Seen(p).goods EXCEPT ![x] = @ + moved]]
    <2>1. (present \cup tx[p].locked)' = (present \cup t.locked) \cup {x} BY <1>1, <1>9
    <2>2. Seen(p)' = [ok      |-> TRUE,
                      present |-> (present \cup tx[p].locked)',
                      level   |-> [s \in Slots |-> View(p, s)]',
                      goods   |-> [s \in Slots |-> goods[s] + tx[p].moved[s]]']
      BY DEF Seen
    <2> QED BY <1>10, <1>11, <2>1, <2>2
  <1>13. Seen(p)' = Taken(req[p].eff, Seen(p), [slot |-> Slot(p), qty |-> LineAt(p).qty])
    BY <1>6, <1>12 DEF r, x
  <1> QED BY <1>1, <1>8, <1>13, LineCalls DEF r

LEMMA CommitStockCalls ==
    ASSUME OneAtATime, LedgerInv, BooksInv', NEW p \in Workers, CommitStock(p)
    PROVE  LedgerInv'
  <1>1. /\ req \in [Workers -> Request] /\ tx \in [Workers -> Tx] /\ req[p].pc = "commit"
        /\ tx' = [tx EXCEPT ![p] = NoTx]
        /\ req' = [req EXCEPT ![p] = IF req[p].ref \in Movements THEN Idle
                                     ELSE [@ EXCEPT !.pc = "save"]]
    BY DEF CommitStock, LedgerInv, BooksInv, TypeInv, Typed
  <1>2. tx'[p] = NoTx BY <1>1
  <1>3. CASE req[p].ref \in Movements
    <2>1. req'[p].pc = "idle" BY <1>1, <1>3 DEF Idle
    <2>2. ~InnerOpen(p)' BY <2>1 DEF InnerOpen
    <2> QED BY <1>2, <2>1, <2>2, OutsideCalls
  <1>4. CASE req[p].ref \notin Movements
    <2>1. req'[p].pc = "save" /\ req'[p].ref = req[p].ref /\ req'[p].eff = req[p].eff
      BY <1>1, <1>4 DEF Request
    <2>2. ~InnerOpen(p)' BY <2>1 DEF InnerOpen
    <2> QED BY <1>1, <1>2, <2>1, <2>2, OutsideCalls DEF LedgerInv
  <1> QED BY <1>3, <1>4

LEMMA EndsCalls ==
    ASSUME OneAtATime, LedgerInv, BooksInv', NEW p \in Workers, Abort(p) \/ SaveStatus(p)
    PROVE  LedgerInv'
  <1>1. req \in [Workers -> Request] /\ tx \in [Workers -> Tx]
    BY DEF LedgerInv, BooksInv, TypeInv, Typed
  <1>2. req'[p].pc = "idle" BY <1>1 DEF Abort, SaveStatus, Idle
  <1>3. tx'[p] = NoTx
    <2>1. CASE Abort(p) BY <1>1, <2>1 DEF Abort
    <2>2. CASE SaveStatus(p) BY <2>2 DEF SaveStatus, LedgerInv, InnerOpen
    <2> QED BY <2>1, <2>2
  <1>4. ~InnerOpen(p)' BY <1>2 DEF InnerOpen
  <1> QED BY <1>2, <1>3, <1>4, OutsideCalls

LEMMA LedgerInit == OneAtATime /\ Init => LedgerInv
  <1> SUFFICES ASSUME OneAtATime, Init PROVE LedgerInv OBVIOUS
  <1>1. BooksInv BY BooksInit
  <1>2. \A p \in Workers : req[p].pc = "idle" /\ tx[p] = NoTx BY DEF Init, Idle
  <1>3. \A p \in Workers : CallFit(p) BY <1>2 DEF CallFit, InnerOpen
  <1> QED BY <1>1, <1>2, <1>3 DEF LedgerInv

LEMMA LedgerNext == OneAtATime /\ LedgerInv /\ [Next]_vars => LedgerInv'
  <1> SUFFICES ASSUME OneAtATime, LedgerInv, [Next]_vars PROVE LedgerInv' OBVIOUS
  <1>1. BooksInv' BY BooksNext DEF LedgerInv
  <1>2. ASSUME NEW p \in Workers, Abort(p) PROVE LedgerInv' BY <1>1, <1>2, EndsCalls
  <1>3. ASSUME NEW p \in Workers, Serve(p) PROVE LedgerInv'
    <2>1. CASE PickWarehouse(p) BY <1>1, <2>1, PickWarehouseCalls
    <2>2. CASE Connect(p) BY <1>1, <2>2, ConnectCalls
    <2>3. CASE ReadLevel(p) \/ Reload(p) BY <1>1, <2>3, ReadsCalls
    <2>4. CASE SkipLine(p) BY <1>1, <2>4, SkipLineCalls
    <2>5. CASE Write(p) BY <1>1, <2>5, WriteCalls
    <2>6. CASE CommitStock(p) BY <1>1, <2>6, CommitStockCalls
    <2>7. CASE SaveStatus(p) BY <1>1, <2>7, EndsCalls
    <2> QED BY <1>2, <1>3, <2>1, <2>2, <2>3, <2>4, <2>5, <2>6, <2>7, Failures DEF Serve
  <1>4. ASSUME UNCHANGED <<present, level, goods, req, tx>> PROVE LedgerInv'
    <2>1. ASSUME NEW p \in Workers PROVE CallFit(p)'
      <3>1. CallFit(p) BY DEF LedgerInv
      <3>2. /\ req'[p] = req[p] /\ Slot(p)' = Slot(p) /\ LineAt(p)' = LineAt(p)
            /\ InnerOpen(p)' <=> InnerOpen(p)
        BY <1>4 DEF Slot, LineAt, InnerOpen
      <3>3. Committed' = Committed /\ Seen(p)' = Seen(p) BY <1>4 DEF Committed, Seen, View
      <3>4. \A s : View(p, s)' = View(p, s) /\ Exists(p, s)' = Exists(p, s)
        BY <1>4 DEF View, Exists
      <3>5. (InnerOpen(p) => RunOf(CallOf(req[p]), Committed)[LinesDone(req[p])] = Seen(p))'
        BY <3>1, <3>2, <3>3 DEF CallFit
      <3>6. (req[p].pc \in {"reload", "write"} =>
                /\ ~Skips(req[p].eff, Exists(p, Slot(p)))
                /\ Accepts(req[p].eff, Exists(p, Slot(p)), View(p, Slot(p)), LineAt(p).qty))'
        BY <3>1, <3>2, <3>4 DEF CallFit
      <3> QED BY <3>5, <3>6 DEF CallFit
    <2>2. \A p : InnerOpen(p)' <=> InnerOpen(p) BY <1>4 DEF InnerOpen
    <2> QED BY <1>1, <1>4, <2>1, <2>2 DEF LedgerInv
  <1>5. ASSUME NEW w \in Warehouses, ChangeDefault(w) PROVE LedgerInv'
    BY <1>4, <1>5 DEF ChangeDefault
  <1>6. CASE Drained \/ UNCHANGED vars BY <1>4, <1>6 DEF Drained, vars
  <1>7. ASSUME NEW p \in Workers, NEW o \in Orders, NEW to \in Status, Receive(p, o, to)
        PROVE  LedgerInv'
    BY <1>1, <1>7, ReceiveCalls
  <1>8. ASSUME NEW p \in Workers, NEW m \in Movements, ReceiveMovement(p, m) PROVE LedgerInv'
    BY <1>1, <1>8, ReceiveMovementCalls
  <1>9. ASSUME NEW p \in Workers, ConnectionLost(p) PROVE LedgerInv' BY <1>2, <1>9, Failures
  <1> QED BY <1>3, <1>5, <1>6, <1>7, <1>8, <1>9 DEF Next


\* The COMMIT is the ledger's call, and no other step touches the ledger.
LEMMA CommitStockIsCall ==
    ASSUME LedgerInv, NEW p \in Workers, CommitStock(p)
    PROVE  Ledger!Next
  <1> DEFINE r == req[p]
             c == CallOf(r)
             f == RunOf(c, Committed)
  <1>1. /\ r.pc = "commit" /\ TypeInv /\ r \in Request /\ RequestOK(r)
        /\ CallFit(p) /\ InnerOpen(p)
    BY DEF CommitStock, LedgerInv, BooksInv, TypeInv, Typed, RequestsOK, InnerOpen
  <1>2. OrderRequest(r) \/ MovementRequest(r) BY <1>1 DEF RequestOK
  <1>3. r.ref \in Refs BY <1>2, KnownRef
  <1>4. r.eff # "none"
    BY <1>1, <1>2 DEF OrderRequest, MovementRequest
  <1>5. r.eff \in KindsOf(r.ref) BY <1>1, <1>4 DEF LedgerInv
  <1>6. Picked(r) \in Warehouses BY IdsAssumption DEF Picked
  <1>7. c \in CallsOf(r.ref) BY <1>5, <1>6 DEF CallOf, CallsOf
  <1>8. Ledger!Prefix(c) = Seen(p)
    <2>1. LinesDone(r) = Len(LinesOf(r.ref)) BY <1>1 DEF LinesDone
    <2>2. Len(c.lines) = Len(LinesOf(r.ref)) BY <1>1, CallLines
    <2>3. f[Len(LinesOf(r.ref))] = Seen(p) BY <1>1, <2>1 DEF CallFit
    <2>4. Ledger!Prefix(c) = f[Len(c.lines)] BY PrefixIs
    <2> QED BY <2>2, <2>3, <2>4
  <1>9. c.kind = r.eff BY DEF CallOf
  <1> HIDE DEF c
  <1>10. /\ Seen(p).ok /\ present' = Seen(p).present /\ level' = Seen(p).level
         /\ goods' = Seen(p).goods
         /\ applied' = [applied EXCEPT ![r.ref][c.kind] = @ + 1]
    BY <1>9 DEF CommitStock, Seen
  <1>11. Ledger!Commit(r.ref, c) BY <1>8, <1>10 DEF Ledger!Commit
  <1> QED BY <1>3, <1>7, <1>11 DEF Ledger!Next

LEMMA LedgerMapNext == LedgerInv /\ [Next]_vars => [Ledger!Next]_(Ledger!vars)
  <1> SUFFICES ASSUME LedgerInv, [Next]_vars PROVE [Ledger!Next]_(Ledger!vars) OBVIOUS
  <1> DEFINE same == UNCHANGED <<present, level, goods, applied>>
  <1>1. same => [Ledger!Next]_(Ledger!vars) BY DEF Ledger!vars
  <1>2. ASSUME NEW p \in Workers, Abort(p) PROVE same BY <1>2 DEF Abort, db
  <1>3. ASSUME NEW p \in Workers, Serve(p) PROVE same \/ CommitStock(p)
    <2>1. CASE PickWarehouse(p) \/ Connect(p) BY <2>1 DEF PickWarehouse, Connect, db
    <2>2. CASE ReadLevel(p) \/ SkipLine(p) \/ Reload(p) \/ Write(p)
      BY <2>2 DEF ReadLevel, SkipLine, Reload, Write, db
    <2>3. CASE SaveStatus(p) BY <2>3 DEF SaveStatus
    <2> QED BY <1>2, <1>3, <2>1, <2>2, <2>3, Failures DEF Serve
  <1>4. ASSUME NEW p \in Workers,
               \/ \E o \in Orders, to \in Status : Receive(p, o, to)
               \/ \E m \in Movements : ReceiveMovement(p, m)
        PROVE  same
    BY <1>4 DEF Receive, ReceiveMovement, db
  <1>5. ASSUME NEW p \in Workers, ConnectionLost(p) PROVE same BY <1>2, <1>5, Failures
  <1>6. ASSUME NEW w \in Warehouses, ChangeDefault(w) PROVE same BY <1>6 DEF ChangeDefault
  <1>7. ASSUME Drained \/ UNCHANGED vars PROVE same BY <1>7 DEF Drained, vars
  <1> HIDE DEF same
  <1>8. ASSUME NEW p \in Workers, Serve(p) PROVE [Ledger!Next]_(Ledger!vars)
    BY <1>1, <1>3, <1>8, CommitStockIsCall
  <1>9. same \/ \E p \in Workers : Serve(p) BY <1>4, <1>5, <1>6, <1>7 DEF Next
  <1> QED BY <1>1, <1>8, <1>9

(***************************************************************************)
(* Served one request at a time, the inner transactions implement          *)
(* StockLedger: each takes effect as one atomic call on the quantities its *)
(* lines read, for all of its lines or for none, whatever the lines (the   *)
(* same row twice, a row that is missing, no line at all) and wherever a   *)
(* request fails (sales.service.ts:197, "If any line cannot be reserved,   *)
(* the whole confirm rolls back").                                         *)
(***************************************************************************)
THEOREM RefinesLedger ==
    ASSUME OneAtATime
    PROVE  Spec => ImplementsLedger
  <1>1. Init => LedgerInv BY LedgerInit
  <1>2. LedgerInv /\ [Next]_vars => LedgerInv' BY LedgerNext
  <1>3. Init => Ledger!Init BY DEF Init, Ledger!Init, Ledger!Kinds, Kinds
  <1>4. LedgerInv /\ [Next]_vars => [Ledger!Next]_(Ledger!vars) BY LedgerMapNext
  <1> QED BY <1>1, <1>2, <1>3, <1>4, PTL DEF Spec, ImplementsLedger, Ledger!Spec
=============================================================================
