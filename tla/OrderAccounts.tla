---------------------------- MODULE OrderAccounts ----------------------------
(***************************************************************************)
(* The books OrderFulfilment keeps: what the reserved quantities, the      *)
(* on-hand quantities and the movement log say of each other and of the    *)
(* statuses of the orders.                                                 *)
(***************************************************************************)
EXTENDS OrderFulfilment, FiniteSetsExt

\* The quantity that order o asks of slot s (with the present default).
Asked(o, s) == MapThenSumSet(LAMBDA n : IF SlotOf(Lines[o][n], defaultWh) = s
                                        THEN Lines[o][n].qty ELSE 0,
                             DOMAIN Lines[o])

\* Nothing in flight for o has committed stock without its status.
Settled(o) == ~ \E p \in Workers : req[p].ref = o /\ EffectDone(p)

ConfirmedOrders == {o \in SalesOrders : status[o] = "CONFIRMED"}

-----------------------------------------------------------------------------
(* Served one request at a time (one worker).                              *)

(***************************************************************************)
(* On-hand stock is what it was at first plus what the movement log says   *)
(* has come and gone, whatever requests fail: the level and the movement   *)
(* of a line are written by one transaction (inventory.service.ts:258).    *)
(***************************************************************************)
StockMatchesMovements ==
    \A s \in Slots : level[s].onHand = InitLevel[s].onHand + goods[s]

\* How often an order with lines has had each effect when its status is s.
AsOften(o, s, n) ==
    CASE o \in SalesOrders /\ s = "DRAFT" ->
             n["reserve"] = 0 /\ n["release"] = 0 /\ n["ship"] = 0
      [] o \in SalesOrders /\ s = "CONFIRMED" ->
             n["reserve"] = 1 /\ n["release"] = 0 /\ n["ship"] = 0
      [] o \in SalesOrders /\ s = "SHIPPED" ->
             n["reserve"] = 1 /\ n["release"] = 0 /\ n["ship"] = 1
      [] o \in SalesOrders /\ s = "CANCELLED" ->
             n["reserve"] = n["release"] /\ n["release"] <= 1 /\ n["ship"] = 0
      [] o \in ProductionOrders /\ s \in {"DRAFT", "PLANNED", "CONFIRMED"} ->
             n["consume"] = 0
      [] o \in ProductionOrders /\ s \in {"IN_PROGRESS", "COMPLETED"} ->
             n["consume"] = 1
      [] OTHER -> n["consume"] <= 1

(***************************************************************************)
(* Each order has had exactly the inventory transactions its status calls  *)
(* for, and each of them once, unless a request of it was lost between the *)
(* two commits (sales.service.ts:199-292, production.service.ts:315-371).  *)
(***************************************************************************)
EffectsExactlyOnce ==
    \A o \in Orders : o \notin torn /\ Settled(o) /\ Lines[o] # <<>> =>
        AsOften(o, status[o], applied[o])

\* What is reserved of the rows in S is what the confirmed orders ask of them, as
\* long as no request is lost between its two commits.
ReservedAsAsked(S) ==
    torn = {} /\ (\A o \in Orders : Settled(o)) =>
        \A s \in S : level[s].reserved = InitLevel[s].reserved
                         + MapThenSumSet(LAMBDA o : Asked(o, s), ConfirmedOrders)

(***************************************************************************)
(* No reservation outlives its order or is eaten by another's: the floor   *)
(* at zero of a release or a shipment never hides a loss. It is a promise  *)
(* of the rows of which no order line takes less than nothing              *)
(* (sales.service.ts:199-292, inventory.service.ts:343-484); the next      *)
(* property is about the others.                                           *)
(***************************************************************************)
ReservedMatchesOrders == ReservedAsAsked(PlainSlots)

(***************************************************************************)
(* Once every order is cancelled, nothing of theirs is reserved            *)
(* (sales.service.ts:229, "Cancel a confirmed order and release reserved   *)
(* stock"). Two orders from quotations, for two bolts and for one bolt     *)
(* less than none, both confirmed and both cancelled, leave one bolt       *)
(* reserved for nobody: the release of the first is cut at zero.           *)
(***************************************************************************)
NothingLeftReserved ==
    (\A o \in SalesOrders : status[o] = "CANCELLED") => ReservedAsAsked(Slots)

(***************************************************************************)
(* Served one at a time, each inventory transaction takes effect as one    *)
(* atomic call: all of its lines or none ("If any line cannot be reserved, *)
(* the whole confirm rolls back", sales.service.ts:197).                   *)
(***************************************************************************)
KindsOf(r) ==
    CASE r \in SalesOrders      -> {"reserve", "release", "ship"}
      [] r \in ProductionOrders -> {"consume"}
      [] r \in Movements        -> {"adjust"}

CallsOf(r) ==
    {[kind  |-> k,
      lines |-> [n \in DOMAIN LinesOf(r) |->
                    [slot |-> SlotOf(LinesOf(r)[n], w), qty |-> LinesOf(r)[n].qty]]]
        : k \in KindsOf(r), w \in Warehouses}

Ledger == INSTANCE StockLedger WITH Calls <- CallsOf

ImplementsLedger == Ledger!Spec

-----------------------------------------------------------------------------
(* Overlapping requests.                                                   *)

(***************************************************************************)
(* A status is committed only after the stock effects it stands for, and a *)
(* shipment or a release only after a reservation, whatever overlaps and   *)
(* wherever a request fails (inner commit before outer commit).            *)
(***************************************************************************)
Saga == INSTANCE OrderSaga WITH done <- [o \in Orders |-> applied[o]]

ImplementsSaga == Saga!Spec

(***************************************************************************)
(* A cancelled order holds no reservation (sales.controller.ts:137,        *)
(* "Cancel a sales order (releases any stock reservation)"). A             *)
(* confirmation lost between its two commits leaves a DRAFT order with     *)
(* stock reserved, and cancelling a DRAFT order releases nothing.          *)
(***************************************************************************)
CancelReleases ==
    \A o \in SalesOrders : status[o] = "CANCELLED" /\ Settled(o) =>
        applied[o]["reserve"] = applied[o]["release"]

\* A request that was begun ends, answered or failed: waits for connections
\* and for row locks are all broken in the end.
EveryRequestEnds == \A p \in Workers : req[p].pc # "idle" ~> req[p].pc = "idle"
=============================================================================
