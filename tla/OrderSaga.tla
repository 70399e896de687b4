------------------------------ MODULE OrderSaga ------------------------------
(***************************************************************************)
(* What the two-transaction protocol of OrderFulfilment promises of an     *)
(* order, whatever requests overlap and wherever they fail: stock first,   *)
(* status second. A stock effect may be committed and its status never     *)
(* follow, but no status is ever committed before the stock effects it     *)
(* stands for, and goods are shipped, or a reservation released, only for  *)
(* an order whose reservation was committed.                               *)
(***************************************************************************)
EXTENDS Integers, Sequences

CONSTANTS SalesOrders, ProductionOrders, Lines, Kinds, Status

Orders == SalesOrders \cup ProductionOrders

VARIABLES
    status,     \* the committed status of each order
    done        \* how many times each effect was committed for each order

vars == <<status, done>>

\* The effects an order in status s must have had. An order that moves no
\* stock (no line) has none to wait for.
Backing(o, s) ==
    IF Lines[o] = <<>> THEN {}
    ELSE CASE o \in SalesOrders /\ s = "CONFIRMED"                      -> {"reserve"}
           [] o \in SalesOrders /\ s = "SHIPPED"                        -> {"reserve", "ship"}
           [] o \in ProductionOrders /\ s \in {"IN_PROGRESS", "COMPLETED"} -> {"consume"}
           [] OTHER                                                     -> {}

\* The effects an effect of kind k comes after.
Causes(k) == IF k \in {"ship", "release"} THEN {"reserve"} ELSE {}

Happened(o, kinds) == \A k \in kinds : done[o][k] > 0

Init ==
    /\ status = [o \in Orders |-> "DRAFT"]
    /\ done = [o \in Orders |-> [k \in Kinds |-> 0]]

\* An inventory transaction commits.
StockEffect(o, k) ==
    /\ Lines[o] # <<>>
    /\ Happened(o, Causes(k))
    /\ done' = [done EXCEPT ![o][k] = @ + 1]
    /\ UNCHANGED status

\* A status is saved; no request saves DRAFT.
SetStatus(o, s) ==
    /\ s # "DRAFT"
    /\ Happened(o, Backing(o, s))
    /\ status' = [status EXCEPT ![o] = s]
    /\ UNCHANGED done

Next == \E o \in Orders : \/ \E k \in Kinds : StockEffect(o, k)
                          \/ \E s \in Status : SetStatus(o, s)

Spec == Init /\ [][Next]_vars

-----------------------------------------------------------------------------
\* Every order's status is backed by committed stock effects.
StatusBacked == \A o \in Orders : Happened(o, Backing(o, status[o]))

\* Goods leave, and reservations are released, only for an order that reserved.
EffectsCaused ==
    \A o \in Orders, k \in Kinds : done[o][k] > 0 => Happened(o, Causes(k))
=============================================================================
