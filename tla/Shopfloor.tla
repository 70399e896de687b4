------------------------------ MODULE Shopfloor ------------------------------
(***************************************************************************)
(* The parts of ProductionService and InventoryService that leave the      *)
(* stock alone: production and work orders, the dashboard; products and    *)
(* warehouses, what the stock is worth. What moving a production order     *)
(* does to the stock is in OrderFulfilment. Hours are the clock's units.   *)
(***************************************************************************)
EXTENDS Requests, FiniteSetsExt

CONSTANTS
    Skus,           \* of the products that may be created
    Quantities,     \* what an operation may report as produced
    Sequence        \* places of an operation among those of its order

-----------------------------------------------------------------------------
(* Entities.                                                               *)

ProductionOrder(n) ==
    [table |-> "production_order", status |-> "draft", key |-> n, quantityProduced |-> 0]

\* createdAt is left out: of two operations in one place either may count as last.
WorkOrder(n, o, place) ==
    [table |-> "work_order", status |-> "pending", key |-> n, productionOrder |-> o,
     sequenceNumber |-> place, quantityProduced |-> None, startedAt |-> None,
     completedAt |-> None, actualDuration |-> None]

\* isActive is `status`.
Product(sku) == [table |-> "product", status |-> "active", key |-> sku]
Warehouse(code) == [table |-> "warehouse", status |-> "active", key |-> code]

WorkOrderStatus == {"pending", "ready", "in_progress", "paused", "completed", "cancelled"}

-----------------------------------------------------------------------------
(* Production and work orders.                                             *)

\* generateOrderNumber counts the orders.
CreateProductionOrder(p) ==
    /\ Free("production_order") # {}
    /\ LET o == New("production_order")
       IN  Handle(p, {o}, <<Only(o, ProductionOrder(Count("production_order") + 1))>>)

\* generateWorkOrderNumber counts the operations of all orders.
CreateWorkOrder(p) ==
    /\ Free("work_order") # {}
    /\ \E o \in Rows("production_order"), place \in Sequence :
        LET w == New("work_order")
        IN  Handle(p, {w}, <<Only(w, WorkOrder(Count("work_order") + 1, o, place))>>)

\* The operation as updateWorkOrderStatus changes it.
Operated(w, to, quantity) ==
    [w EXCEPT !.status = to,
              !.startedAt        = IF to = "in_progress" /\ @ = None THEN now ELSE @,
              !.completedAt      = IF to = "completed" THEN now ELSE @,
              !.actualDuration   = IF to = "completed" /\ w.startedAt # None
                                   THEN now - w.startedAt ELSE @,
              !.quantityProduced = IF quantity = None THEN @ ELSE quantity]

Completed(o) ==
    {w \in Rows("work_order") : db[w].productionOrder = o /\ db[w].status = "completed"}

\* Mutant: the first operation of an order instead of the last.
FirstCompleted(o) ==
    {w \in Completed(o) : \A v \in Completed(o) : db[w].sequenceNumber <= db[v].sequenceNumber}

\* The last of the completed operations of an order, as sort() puts them.
LastCompleted(o) ==
    {w \in Completed(o) : \A v \in Completed(o) : db[v].sequenceNumber <= db[w].sequenceNumber}

\* updateWorkOrderStatus: any status after any other. A completion that reports
\* a quantity goes on to updateProductionOrderQuantity once it is saved. Nought
\* reported is a number there and false; read back it is the string '0.00' and true.
UpdateWorkOrderStatus(p) ==
    \/ \E w \in Rows("work_order"), to \in WorkOrderStatus, quantity \in Quantities \cup {None} :
        Begin(p, {w, db[w].productionOrder}, <<Only(w, Operated(db[w], to, quantity))>>,
              IF to = "completed" /\ quantity \notin {None, 0} THEN "produced" ELSE "idle")
    \/ /\ req[p].pc = "produced"
       /\ \E w \in {d \in DOMAIN req[p].base : db[d].table = "work_order"} :
        LET o    == req[p].base[w].productionOrder
            told == {l \in LastCompleted(o) : db[l].quantityProduced # None}
        IN  \/ \E l \in told :
                GoOn(p, "produced", {}, <<Only(o, [quantityProduced |-> db[l].quantityProduced])>>,
                     "idle")
            \/ /\ LastCompleted(o) \ told # {} \/ LastCompleted(o) = {}
               /\ GoOn(p, "produced", {}, <<>>, "idle")

-----------------------------------------------------------------------------
(* Products and warehouses.                                                *)

CreateProduct(p) ==
    /\ Free("product") # {}
    /\ \E sku \in Skus :
        /\ \A x \in Rows("product") : db[x].key # sku
        /\ LET x == New("product") IN Handle(p, {x}, <<Only(x, Product(sku))>>)

\* updateProduct: another sku, or active or not as the client says. The sku is
\* left to the unique index.
UpdateProduct(p) ==
    \E x \in Rows("product") :
        \/ \E sku \in Skus : Handle(p, {x}, <<Only(x, [db[x] EXCEPT !.key = sku])>>)
        \/ \E to \in {"active", "inactive"} :
            Handle(p, {x}, <<Only(x, [db[x] EXCEPT !.status = to])>>)

DeleteProduct(p) ==
    \E x \in Rows("product") : Handle(p, {x}, <<Only(x, [db[x] EXCEPT !.status = "inactive"])>>)

CreateWarehouse(p) ==
    /\ Free("warehouse") # {}
    /\ \E code \in Skus :
        /\ \A x \in Rows("warehouse") : db[x].key # code
        /\ LET x == New("warehouse") IN Handle(p, {x}, <<Only(x, Warehouse(code))>>)

UpdateWarehouse(p) ==
    \E x \in Rows("warehouse"), code \in Skus :
        Handle(p, {x}, <<Only(x, [db[x] EXCEPT !.key = code])>>)

\* ProductionController, InventoryController.
ShopfloorStep(p) ==
    \/ CreateProductionOrder(p) \/ CreateWorkOrder(p) \/ UpdateWorkOrderStatus(p)
    \/ CreateProduct(p) \/ UpdateProduct(p) \/ DeleteProduct(p)
    \/ CreateWarehouse(p) \/ UpdateWarehouse(p)

-----------------------------------------------------------------------------
(* What should hold of it.                                                 *)

\* The produced quantity of an order only ever becomes that of the completed
\* operation that comes last in it, as long as no other request has the order or
\* an operation of it in hand. It is not taken back when the operation is reopened.
ProducedByLastOperation ==
    [][\A o \in Rows("production_order") \ contended' :
          db'[o].quantityProduced # db[o].quantityProduced =>
            \E w \in Completed(o) :
                /\ \A v \in Completed(o) : db[v].sequenceNumber <= db[w].sequenceNumber
                /\ db'[o].quantityProduced = db[w].quantityProduced]_vars
=============================================================================
