--------------------------- MODULE OrderFulfilment ---------------------------
(***************************************************************************)
(* Sales orders, production orders and stock: SalesService and             *)
(* ProductionService change the status of an order, InventoryService       *)
(* changes the stock the status stands for.                                *)
(*                                                                         *)
(* A status change is a request that runs TWO database transactions:       *)
(*                                                                         *)
(*   outer: BEGIN, read the order, check its status ...                    *)
(*     inner, on another connection: BEGIN, per line read / save the       *)
(*            stock level and insert a movement, COMMIT                    *)
(*   ... outer: save the order's new status, COMMIT                        *)
(*                                                                         *)
(* The inner transaction is InventoryService's own                         *)
(* `dataSource.transaction`, so it commits before the outer one does and   *)
(* does not roll back with it. There is no row lock on the reads and no    *)
(* version column. A worker below is one request in flight; it performs    *)
(* one database call per step, and the calls of the workers interleave     *)
(* under READ COMMITTED, PostgreSQL's default. One tenant is modelled:     *)
(* every query of the two services filters by tenantId.                    *)
(***************************************************************************)
EXTENDS Integers, Sequences, FiniteSets, StockRows

CONSTANTS
    SalesOrders,        \* ids of sales orders
    ProductionOrders,   \* ids of production orders
    Movements,          \* ids of manual stock movements (POST stock/movements)
    Items,              \* products and raw materials
    Warehouses,         \* warehouses that were ever the tenant's default
    Default,            \* stands for "no warehouse on this line"
    Lines,              \* order id -> its lines (the bill of materials, for production)
    MovementOf,         \* movement id -> the body of the request
    InitPresent,        \* the stock_levels rows that exist at the start
    InitLevel,          \* their quantities
    Workers,            \* requests the server may have in flight together
    PoolSize,           \* connections of the pool (DB_POOL_MAX)
    MaxCalls,           \* bound: requests received in a behaviour
    Faults              \* whether a request may lose its connection

Orders == SalesOrders \cup ProductionOrders
Refs   == Orders \cup Movements
Slots  == Items \X Warehouses

SalesStatus == {"DRAFT", "CONFIRMED", "PARTIALLY_SHIPPED", "SHIPPED", "INVOICED", "CANCELLED"}
ProductionStatus == {"DRAFT", "PLANNED", "CONFIRMED", "IN_PROGRESS", "COMPLETED", "CANCELLED"}
Status == SalesStatus \cup ProductionStatus

\* An order line; production's bill of materials names no warehouse. The
\* quantity is the line's, or quantityRequired * quantityPlanned. It may be
\* negative: createSalesOrder's DTO asks for @Min(0), but the quantity of a
\* quotation's line is any numeric string (sales-depth.dto.ts:24) and goes into
\* the order it is converted to as it is (sales-depth.service.ts:227).
Line == [item : Items, wh : Warehouses \cup {Default}, qty : Int]

MovementTypes == {"INBOUND", "OUTBOUND", "TRANSFER", "ADJUSTMENT", "PRODUCTION_OUTPUT",
                  "PRODUCTION_CONSUMPTION", "SCRAP", "RETURN"}
Movement == [type : MovementTypes, item : Items, qty : Int,
             source : Warehouses \cup {Default}, target : Warehouses \cup {Default}]

ASSUME IdsAssumption ==
    /\ SalesOrders \cap ProductionOrders = {}
    /\ Orders \cap Movements = {}
    /\ Default \notin Warehouses
    /\ Default \notin Refs
    /\ Warehouses # {}
ASSUME LinesAssumption ==
    /\ Lines \in [Orders -> Seq(Line)]
    /\ MovementOf \in [Movements -> Movement]
ASSUME StockAssumption ==
    /\ InitPresent \subseteq Slots
    /\ InitLevel \in [Slots -> Row]
    /\ \A s \in Slots \ InitPresent : InitLevel[s] = EmptyRow
ASSUME BoundsAssumption ==
    /\ IsFiniteSet(Workers)
    /\ PoolSize \in Nat
    /\ MaxCalls \in Nat
    /\ Faults \in BOOLEAN

VARIABLES
    status,       \* committed status of each order
    defaultWh,    \* the warehouse pickDefaultWarehouseId finds
    present,      \* committed stock_levels rows
    level,        \* their quantities
    goods,        \* per slot, the goods the committed stock_movements rows moved
    applied,      \* per reference and kind, inventory transactions committed
    req,          \* what each worker is doing
    tx,           \* the uncommitted inner transaction of each worker
    torn,         \* orders whose request was lost between its two commits
    calls         \* requests received so far

db   == <<status, defaultWh, present, level, goods, applied>>
vars == <<status, defaultWh, present, level, goods, applied, req, tx, torn, calls>>

-----------------------------------------------------------------------------
(* Which status changes a request may make, and what they do to stock.     *)

\* Mutant: a shipped order may be shipped again.
SalesAllowedTwice(from, to) ==
    \/ to = "CONFIRMED" /\ from = "DRAFT"
    \/ to = "SHIPPED"   /\ from \in {"CONFIRMED", "SHIPPED"}
    \/ to = "CANCELLED" /\ from \notin {"SHIPPED", "INVOICED"}

SalesAllowed(from, to) ==
    \/ to = "CONFIRMED" /\ from = "DRAFT"
    \/ to = "SHIPPED"   /\ from = "CONFIRMED"
    \/ to = "CANCELLED" /\ from \notin {"SHIPPED", "INVOICED"}

ProductionAllowed(from, to) ==
    <<from, to>> \in {<<"DRAFT", "PLANNED">>, <<"DRAFT", "CANCELLED">>,
                      <<"PLANNED", "CONFIRMED">>, <<"PLANNED", "CANCELLED">>,
                      <<"CONFIRMED", "IN_PROGRESS">>, <<"CONFIRMED", "CANCELLED">>,
                      <<"IN_PROGRESS", "COMPLETED">>, <<"IN_PROGRESS", "CANCELLED">>}

Allowed(o, from, to) ==
    \/ o \in SalesOrders      /\ SalesAllowed(from, to)
    \/ o \in ProductionOrders /\ ProductionAllowed(from, to)

\* Sales orders pick the default warehouse even when no line needs stock;
\* "none" means that the request goes straight to saving the status.
SalesEffect(from, to) ==
    CASE to = "CONFIRMED" -> "reserve"
      [] to = "SHIPPED"   -> "ship"
      [] to = "CANCELLED" /\ from \in {"CONFIRMED", "PARTIALLY_SHIPPED"} -> "release"
      [] OTHER            -> "none"

ProductionEffect(o, to) == IF to = "IN_PROGRESS" /\ Lines[o] # <<>> THEN "consume" ELSE "none"

Effect(o, from, to) ==
    IF o \in SalesOrders THEN SalesEffect(from, to) ELSE ProductionEffect(o, to)

\* applyMovementToLevels: the adjustments of a manual movement, in order. A
\* movement that names no warehouse on the side that counts adjusts nothing.
MovementLines(m) ==
    LET out == <<[item |-> m.item, wh |-> m.source, qty |-> -m.qty]>>
        in  == <<[item |-> m.item, wh |-> m.target, qty |-> m.qty]>>
    IN  CASE m.type \in {"INBOUND", "PRODUCTION_OUTPUT", "RETURN", "ADJUSTMENT"} ->
                 IF m.target # Default THEN in ELSE <<>>
          [] m.type \in {"OUTBOUND", "PRODUCTION_CONSUMPTION", "SCRAP"} ->
                 IF m.source # Default THEN out ELSE <<>>
          [] m.type = "TRANSFER" ->
                 IF m.source # Default /\ m.target # Default THEN out \o in ELSE <<>>

LinesOf(r) == IF r \in Movements THEN MovementLines(MovementOf[r]) ELSE Lines[r]

\* warehouseId: l.warehouseId ?? defaultWarehouseId
SlotOf(line, wh) == <<line.item, IF line.wh = Default THEN wh ELSE line.wh>>

-----------------------------------------------------------------------------
(* A worker. `pc` is the database call it makes next:                      *)
(*   warehouse  pickDefaultWarehouseId, on a connection of its own         *)
(*   connect    waits for the connection of the inner transaction          *)
(*   read       findOne of the stock level of the current line             *)
(*   reload     the SELECT of save(), which finds the differing columns    *)
(*   write      the UPDATE or INSERT of save(), and the movement's INSERT  *)
(*   commit     COMMIT of the inner transaction                            *)
(*   save       save() of the order and COMMIT of the outer transaction    *)

PCs == {"idle", "warehouse", "connect", "read", "reload", "write", "commit", "save"}

Request ==
    [pc : PCs, ref : Refs \cup {Default}, to : Status \cup {"none"},
     eff : Kinds \cup {"none"}, wh : Warehouses \cup {Default}, line : Nat \ {0},
     row : Row, fresh : BOOLEAN, dirty : SUBSET Columns]

Idle == [pc |-> "idle", ref |-> Default, to |-> "none", eff |-> "none", wh |-> Default,
         line |-> 1, row |-> EmptyRow, fresh |-> FALSE, dirty |-> {}]

\* The rows a transaction has written (and therefore locked), and the goods
\* its movement rows have moved.
Tx == [locked : SUBSET Slots, row : [Slots -> Row], moved : [Slots -> Int]]
NoTx == [locked |-> {}, row |-> [s \in Slots |-> EmptyRow], moved |-> [s \in Slots |-> 0]]

LineAt(p) == LinesOf(req[p].ref)[req[p].line]
Slot(p)   == SlotOf(LineAt(p), req[p].wh)

\* READ COMMITTED: a transaction sees its own writes over what is committed.
View(p, s)   == IF s \in tx[p].locked THEN tx[p].row[s] ELSE level[s]
Exists(p, s) == s \in present \/ s \in tx[p].locked

OuterOpen(p) == req[p].pc # "idle" /\ req[p].ref \in Orders
InnerOpen(p) == req[p].pc \in {"read", "reload", "write", "commit"}
FreeConnections == PoolSize - Cardinality({p \in Workers : OuterOpen(p)})
                            - Cardinality({p \in Workers : InnerOpen(p)})

\* The UPDATE of a row another transaction has written waits for its COMMIT,
\* and so does the INSERT of a row another transaction has inserted.
WaitsFor(p, q) == req[p].pc = "write" /\ q # p /\ Slot(p) \in tx[q].locked

\* PostgreSQL's deadlock detector: p is on a cycle of the waits-for graph.
Deadlocked(p) == \E S \in SUBSET Workers :
                    /\ p \in S
                    /\ \A q \in S : /\ \E r \in S : WaitsFor(q, r)
                                    /\ \E r \in S : WaitsFor(r, q)

\* The status is committed after the inner transaction: the goods have moved
\* and only the order's status is still to be saved.
EffectDone(p) == req[p].pc = "save" /\ req[p].eff # "none" /\ LinesOf(req[p].ref) # <<>>

\* After a line: the next one, or the end of the transaction.
NextLine(r) == IF r.line < Len(LinesOf(r.ref))
               THEN [r EXCEPT !.pc = "read", !.line = @ + 1, !.row = EmptyRow,
                              !.fresh = FALSE, !.dirty = {}]
               ELSE [r EXCEPT !.pc = "commit", !.line = 1, !.row = EmptyRow,
                              !.fresh = FALSE, !.dirty = {}]

-----------------------------------------------------------------------------
Init ==
    /\ status = [o \in Orders |-> "DRAFT"]
    /\ defaultWh \in Warehouses
    /\ present = InitPresent
    /\ level = InitLevel
    /\ goods = [s \in Slots |-> 0]
    /\ applied = [r \in Refs |-> [k \in Kinds |-> 0]]
    /\ req = [p \in Workers |-> Idle]
    /\ tx = [p \in Workers |-> NoTx]
    /\ torn = {}
    /\ calls = 0

\* confirmSalesOrder, cancelSalesOrder, shipSalesOrder and
\* updateProductionOrderStatus: BEGIN, read the order, check its status. A
\* request whose check fails answers 400 and changes nothing.
Receive(p, o, to) ==
    /\ req[p].pc = "idle" /\ calls < MaxCalls
    /\ FreeConnections > 0
    /\ Allowed(o, status[o], to)
    /\ LET eff == Effect(o, status[o], to)
       IN  req' = [req EXCEPT ![p] = [Idle EXCEPT
                       !.pc = IF eff = "none" THEN "save" ELSE "warehouse",
                       !.ref = o, !.to = to, !.eff = eff]]
    /\ calls' = calls + 1
    /\ UNCHANGED <<db, tx, torn>>

\* recordStockMovement: the product is looked up on a connection that is
\* given back, then the transaction begins. There is no order and no outer
\* transaction.
ReceiveMovement(p, m) ==
    /\ req[p].pc = "idle" /\ calls < MaxCalls
    /\ FreeConnections > 0
    /\ req' = [req EXCEPT ![p] = [Idle EXCEPT !.pc = "connect", !.ref = m, !.eff = "adjust"]]
    /\ calls' = calls + 1
    /\ UNCHANGED <<db, tx, torn>>

\* pickDefaultWarehouseId, or the same query in consumeBomForProductionOrder,
\* while the outer transaction stays open.
PickWarehouse(p) ==
    /\ req[p].pc = "warehouse" /\ FreeConnections > 0
    /\ req' = [req EXCEPT ![p].wh = defaultWh,
                          ![p].pc = IF Lines[req[p].ref] = <<>> THEN "save" ELSE "connect"]
    /\ UNCHANGED <<db, tx, torn, calls>>

\* The inner dataSource.transaction takes a second connection.
Connect(p) ==
    /\ req[p].pc = "connect" /\ FreeConnections > 0
    /\ req' = [req EXCEPT ![p].pc = IF LinesOf(req[p].ref) = <<>> THEN "commit" ELSE "read"]
    /\ UNCHANGED <<db, tx, torn, calls>>

-----------------------------------------------------------------------------
(* The inner transaction, one database call at a time.                     *)

\* Mutant: the line is computed whether or not the guard holds.
ReadLevelUnguarded(p) ==
    LET s == Slot(p)
    IN  /\ req[p].pc = "read"
        /\ ~Skips(req[p].eff, Exists(p, s))
        /\ req' = [req EXCEPT
               ![p].row   = After(req[p].eff, View(p, s), LineAt(p).qty),
               ![p].fresh = ~Exists(p, s),
               ![p].dirty = IF Exists(p, s) THEN {} ELSE Columns,
               ![p].pc    = IF Exists(p, s) THEN "reload" ELSE "write"]
        /\ UNCHANGED <<db, tx, torn, calls>>

\* findOne, the guard, and the new quantities in memory. An entity that was
\* not found has no id: save() will INSERT it without reading it again.
ReadLevel(p) ==
    LET s == Slot(p)
    IN  /\ req[p].pc = "read"
        /\ ~Skips(req[p].eff, Exists(p, s))
        /\ Accepts(req[p].eff, Exists(p, s), View(p, s), LineAt(p).qty)
        /\ req' = [req EXCEPT
               ![p].row   = After(req[p].eff, View(p, s), LineAt(p).qty),
               ![p].fresh = ~Exists(p, s),
               ![p].dirty = IF Exists(p, s) THEN {} ELSE Columns,
               ![p].pc    = IF Exists(p, s) THEN "reload" ELSE "write"]
        /\ UNCHANGED <<db, tx, torn, calls>>

\* `if (!stock) continue;`
SkipLine(p) ==
    /\ req[p].pc = "read"
    /\ Skips(req[p].eff, Exists(p, Slot(p)))
    /\ req' = [req EXCEPT ![p] = NextLine(@)]
    /\ UNCHANGED <<db, tx, torn, calls>>

\* The SELECT inside save(): the columns to write are chosen here, from what
\* is committed now; the entity keeps what it read before.
Reload(p) ==
    /\ req[p].pc = "reload"
    /\ req' = [req EXCEPT ![p].dirty = Differing(req[p].eff, req[p].row, View(p, Slot(p))),
                          ![p].pc = "write"]
    /\ UNCHANGED <<db, tx, torn, calls>>

\* The UPDATE or INSERT, once no other transaction holds the row, and the
\* INSERT of the stock_movements row.
Write(p) ==
    LET s == Slot(p)
    IN  /\ req[p].pc = "write"
        /\ \A q \in Workers : ~WaitsFor(p, q)
        /\ ~(req[p].fresh /\ s \in present)
        /\ tx' = [tx EXCEPT
               ![p].locked   = @ \cup {s},
               ![p].row[s]   = Overwrite(View(p, s), req[p].row, req[p].dirty),
               ![p].moved[s] = @ + GoodsMoved(req[p].eff, LineAt(p).qty)]
        /\ req' = [req EXCEPT ![p] = NextLine(@)]
        /\ UNCHANGED <<db, torn, calls>>

\* COMMIT of the inner transaction; the outer one is still open, and knows
\* nothing of it. A manual movement has no outer transaction and is done.
CommitStock(p) ==
    /\ req[p].pc = "commit"
    /\ level'   = [s \in Slots |-> View(p, s)]
    /\ present' = present \cup tx[p].locked
    /\ goods'   = [s \in Slots |-> goods[s] + tx[p].moved[s]]
    /\ applied' = [applied EXCEPT ![req[p].ref][req[p].eff] = @ + 1]
    /\ tx'  = [tx EXCEPT ![p] = NoTx]
    /\ req' = [req EXCEPT ![p] = IF req[p].ref \in Movements THEN Idle
                                 ELSE [@ EXCEPT !.pc = "save"]]
    /\ UNCHANGED <<status, defaultWh, torn, calls>>

\* save() of the order and COMMIT of the outer transaction. Nothing checks
\* that the order still has the status read at the start.
SaveStatus(p) ==
    /\ req[p].pc = "save"
    /\ status' = [status EXCEPT ![req[p].ref] = req[p].to]
    /\ req' = [req EXCEPT ![p] = Idle]
    /\ UNCHANGED <<defaultWh, present, level, goods, applied, tx, torn, calls>>

-----------------------------------------------------------------------------
(* How a request fails. Both open transactions roll back: what the inner   *)
(* one had already committed stays.                                        *)

\* Mutant: the rows were saved outside the transaction and stay.
AbortKeepsRows(p) ==
    /\ level' = [s \in Slots |-> View(p, s)]
    /\ present' = present \cup tx[p].locked
    /\ tx'   = [tx EXCEPT ![p] = NoTx]
    /\ req'  = [req EXCEPT ![p] = Idle]
    /\ torn' = IF EffectDone(p) THEN torn \cup {req[p].ref} ELSE torn
    /\ UNCHANGED <<status, defaultWh, goods, applied, calls>>

Abort(p) ==
    /\ tx'   = [tx EXCEPT ![p] = NoTx]
    /\ req'  = [req EXCEPT ![p] = Idle]
    /\ torn' = IF EffectDone(p) THEN torn \cup {req[p].ref} ELSE torn
    /\ UNCHANGED <<db, calls>>

\* Mutant: the exception is caught and the status is saved all the same.
RejectSwallowed(p) ==
    LET s == Slot(p)
    IN  /\ req[p].pc = "read" /\ req[p].ref \in Orders
        /\ ~Skips(req[p].eff, Exists(p, s))
        /\ ~Accepts(req[p].eff, Exists(p, s), View(p, s), LineAt(p).qty)
        /\ tx'  = [tx EXCEPT ![p] = NoTx]
        /\ req' = [req EXCEPT ![p].pc = "save"]
        /\ UNCHANGED <<db, torn, calls>>

\* The guard of a line throws BadRequestException out of both callbacks.
Reject(p) ==
    LET s == Slot(p)
    IN  /\ req[p].pc = "read"
        /\ ~Skips(req[p].eff, Exists(p, s))
        /\ ~Accepts(req[p].eff, Exists(p, s), View(p, s), LineAt(p).qty)
        /\ Abort(p)

\* The unique index on (tenantId, productId, warehouseId) refuses a row
\* that another request inserted after this one found none.
UniqueViolation(p) ==
    /\ req[p].pc = "write" /\ req[p].fresh /\ Slot(p) \in present
    /\ Abort(p)

\* Mutant: no connectionTimeoutMillis, a request waits for as long as it takes.
NoPoolTimeout(p) == FALSE /\ Abort(p)

\* connectionTimeoutMillis: no connection came free in five seconds.
PoolTimeout(p) ==
    /\ req[p].pc \in {"warehouse", "connect"} /\ FreeConnections <= 0
    /\ Abort(p)

\* PostgreSQL aborts one transaction of a cycle of waits.
DeadlockVictim(p) == Deadlocked(p) /\ Abort(p)

\* The server process stops, or the connection to the database breaks.
ConnectionLost(p) ==
    /\ Faults
    /\ req[p].pc # "idle"
    /\ Abort(p)

\* createWarehouse with a code that sorts first, or updateWarehouse of a code.
ChangeDefault(w) ==
    /\ w # defaultWh
    /\ defaultWh' = w
    /\ UNCHANGED <<status, present, level, goods, applied, req, tx, torn, calls>>

\* The bound on calls is reached and nothing is in flight.
Drained ==
    /\ calls = MaxCalls
    /\ \A p \in Workers : req[p].pc = "idle"
    /\ UNCHANGED vars

\* What a request in flight does next, left to itself.
Serve(p) ==
    \/ PickWarehouse(p)
    \/ Connect(p)
    \/ ReadLevel(p)
    \/ SkipLine(p)
    \/ Reload(p)
    \/ Write(p)
    \/ CommitStock(p)
    \/ SaveStatus(p)
    \/ Reject(p)
    \/ UniqueViolation(p)
    \/ PoolTimeout(p)
    \/ DeadlockVictim(p)

Next ==
    \/ \E p \in Workers, o \in Orders, to \in Status : Receive(p, o, to)
    \/ \E p \in Workers, m \in Movements : ReceiveMovement(p, m)
    \/ \E p \in Workers : Serve(p)
    \/ \E p \in Workers : ConnectionLost(p)
    \/ \E w \in Warehouses : ChangeDefault(w)
    \/ Drained

Spec == Init /\ [][Next]_vars

\* The event loop and the database keep serving a request they have begun;
\* nothing obliges a client to send one, or a connection to break.
FairSpec == Spec /\ \A p \in Workers : WF_vars(Serve(p))

-----------------------------------------------------------------------------
Typed ==
    /\ status \in [Orders -> Status]
    /\ \A o \in SalesOrders : status[o] \in SalesStatus
    /\ \A o \in ProductionOrders : status[o] \in ProductionStatus
    /\ defaultWh \in Warehouses
    /\ present \subseteq Slots
    /\ level \in [Slots -> Row]
    /\ goods \in [Slots -> Int]
    /\ applied \in [Refs -> [Kinds -> Nat]]
    /\ req \in [Workers -> Request]
    /\ tx \in [Workers -> Tx]
    /\ torn \subseteq Orders
    /\ calls \in 0 .. MaxCalls

\* The rows no line asks less than nothing of. Of another row, what a negative
\* line "reserves" is taken from the reserved quantity, and the floor of a release
\* or a shipment, meant for what is no longer reserved, then adds to it.
PlainSlots ==
    {s \in Slots : /\ InitLevel[s].reserved >= 0
                   /\ \A o \in Orders : \A n \in DOMAIN Lines[o], w \in Warehouses :
                         SlotOf(Lines[o][n], w) = s => Lines[o][n].qty >= 0}
ReservedNotNegative == \A s \in PlainSlots : level[s].reserved >= 0

(***************************************************************************)
(* The goods on hand are never fewer than none, in a committed row or in   *)
(* one a request still holds in memory (Row says so), and what is reserved *)
(* of a row is never less than nothing unless some line asks for that: a   *)
(* release or a shipment of what an overlapping request has overwritten or *)
(* already released is cut at zero. Guard and floor are evaluated on rows  *)
(* that may be stale when the result is written, so this is a property of  *)
(* the protocol and not of the column types, which are signed              *)
(* (inventory.entity.ts:187-194, inventory.service.ts:343-484).            *)
(***************************************************************************)
TypeOK == Typed /\ ReservedNotNegative
=============================================================================
