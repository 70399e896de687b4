------------------------------ MODULE StockRows ------------------------------
(***************************************************************************)
(* The arithmetic InventoryService does on ONE stock_levels row.           *)
(*                                                                         *)
(* Every call of the service is a loop over its lines; a line reads a row, *)
(* checks a guard on it, computes the new quantities in memory and saves.  *)
(* This module is that guard and that computation, with no transaction and *)
(* no interleaving: StockLedger applies them atomically, OrderFulfilment   *)
(* one database call at a time.                                            *)
(*                                                                         *)
(* Quantities are decimal(12,2) columns; they are counted here in          *)
(* hundredths, so a whole number stands for each value a column can hold.  *)
(***************************************************************************)
EXTENDS Integers

\* The two columns of a stock_levels row the service computes with. A row
\* that does not exist reads as two zeros (`Number(stock?.quantityOnHand ?? 0)`).
\* Both are signed; every guard keeps on-hand from turning negative, none keeps
\* a line that asks for less than nothing from reserving it.
Columns == {"onHand", "reserved"}
Row == [onHand : Nat, reserved : Int]
EmptyRow == [onHand |-> 0, reserved |-> 0]

\* The calls: reserveStock, releaseReservation, shipReservation,
\* consumeBomForProductionOrder, and adjustStock under recordStockMovement.
Kinds == {"reserve", "release", "ship", "consume", "adjust"}

Available(r) == r.onHand - r.reserved

Clamp(n) == IF n < 0 THEN 0 ELSE n

(***************************************************************************)
(* The guard of a line. `exists` says whether the row is in the table:     *)
(* shipReservation refuses a missing row, and consumeBom dereferences it   *)
(* (`stock!`), so a line of quantity 0 on a missing row throws as well.    *)
(* consumeBom and adjustStock look at on-hand only, not at what is         *)
(* reserved.                                                               *)
(***************************************************************************)
Accepts(kind, exists, r, q) ==
    CASE kind = "reserve" -> Available(r) >= q
      [] kind = "release" -> TRUE
      [] kind \in {"ship", "consume"} -> exists /\ r.onHand >= q
      [] kind = "adjust"  -> r.onHand + q >= 0

\* releaseReservation leaves a missing row alone and writes no movement for it.
Skips(kind, exists) == kind = "release" /\ ~exists

\* Mutants of After: a release without its floor, a shipment that forgets
\* the reservation it fulfils.
AfterUnclamped(kind, r, q) ==
    CASE kind = "reserve" -> [r EXCEPT !.reserved = @ + q]
      [] kind = "release" -> [r EXCEPT !.reserved = @ - q]
      [] kind = "ship"    -> [onHand |-> r.onHand - q, reserved |-> Clamp(r.reserved - q)]
      [] kind = "consume" -> [r EXCEPT !.onHand = @ - q]
      [] kind = "adjust"  -> [r EXCEPT !.onHand = @ + q]

AfterShipOnHandOnly(kind, r, q) ==
    CASE kind = "reserve"             -> [r EXCEPT !.reserved = @ + q]
      [] kind = "release"             -> [r EXCEPT !.reserved = Clamp(@ - q)]
      [] kind \in {"ship", "consume"} -> [r EXCEPT !.onHand = @ - q]
      [] kind = "adjust"              -> [r EXCEPT !.onHand = @ + q]

\* The row a line computes in memory, from the row it read.
After(kind, r, q) ==
    CASE kind = "reserve" -> [r EXCEPT !.reserved = @ + q]
      [] kind = "release" -> [r EXCEPT !.reserved = Clamp(@ - q)]
      [] kind = "ship"    -> [onHand |-> r.onHand - q, reserved |-> Clamp(r.reserved - q)]
      [] kind = "consume" -> [r EXCEPT !.onHand = @ - q]
      [] kind = "adjust"  -> [r EXCEPT !.onHand = @ + q]

(***************************************************************************)
(* What the stock_movements row of a line says of the goods themselves. A  *)
(* reservation and its release are also logged, as ADJUSTMENT rows told    *)
(* apart by their notes (docs/TECHNICAL-DEBT.md T-13), and move no goods.  *)
(***************************************************************************)
GoodsMoved(kind, q) ==
    CASE kind \in {"reserve", "release"} -> 0
      [] kind \in {"ship", "consume"}    -> -q
      [] kind = "adjust"                 -> q

(***************************************************************************)
(* Repository.save of an entity: TypeORM reads the row again and writes    *)
(* the columns in which the entity, perhaps stale by now, differs from it. *)
(* The driver returns a decimal as a string and the service assigns        *)
(* numbers, so a column the line assigned always differs.                  *)
(***************************************************************************)
Assigned(kind) ==
    CASE kind \in {"reserve", "release"} -> {"reserved"}
      [] kind \in {"consume", "adjust"}  -> {"onHand"}
      [] kind = "ship"                   -> Columns

Differing(kind, entity, stored) ==
    Assigned(kind) \cup {c \in Columns : entity[c] # stored[c]}

Overwrite(stored, entity, cols) ==
    [onHand   |-> IF "onHand"   \in cols THEN entity.onHand   ELSE stored.onHand,
     reserved |-> IF "reserved" \in cols THEN entity.reserved ELSE stored.reserved]
=============================================================================
