---------------------------- MODULE MCFulfilment ----------------------------
(***************************************************************************)
(* Instances of OrderFulfilment for TLC. Order and movement ids, products  *)
(* and warehouses are short strings; the configurations choose among the   *)
(* definitions below.                                                      *)
(***************************************************************************)
EXTENDS OrderAccounts, TLC

AnyOrder == Permutations(Workers)

line(i, w, n) == [item |-> i, wh |-> w, qty |-> n]
move(t, i, n, from, to) == [type |-> t, item |-> i, qty |-> n, source |-> from, target |-> to]
stock(onHand, reserved) == [onHand |-> onHand, reserved |-> reserved]

\* One warehouse, two products: two sales orders that compete for the bolts, one
\* of which also needs the nuts nobody has at first and the other, converted from
\* a quotation, takes a nut less than none; a production order that consumes
\* bolts; nuts come in, a bolt is written off.
BooksSales      == {"SO1", "SO2"}
BooksProduction == {"PO1"}
BooksMovements  == {"IN", "ADJ"}
BooksItems      == {"bolt", "nut"}
BooksWarehouses == {"W1"}
BooksLines == "SO1" :> <<line("bolt", Default, 2), line("nut", "W1", 1)>>
           @@ "SO2" :> <<line("bolt", "W1", 1), line("nut", "W1", -1)>>
           @@ "PO1" :> <<line("bolt", Default, 1)>>
BooksMovementOf == "IN"  :> move("INBOUND", "nut", 1, Default, "W1")
                @@ "ADJ" :> move("ADJUSTMENT", "bolt", -1, Default, "W1")
BooksPresent == {<<"bolt", "W1">>}
BooksLevel   == <<"bolt", "W1">> :> stock(3, 0) @@ <<"nut", "W1">> :> stock(0, 0)

\* Two warehouses: SO1 takes bolts and then a nut less than none, SO2 nuts, from the
\* default warehouse, and then bolts; a production order draws bolts from the default
\* warehouse; nuts come in to W2, which has no row for them.
OverlapSales      == {"SO1", "SO2"}
OverlapProduction == {"PO1"}
OverlapMovements  == {"IN"}
OverlapItems      == {"bolt", "nut"}
OverlapWarehouses == {"W1", "W2"}
OverlapLines == "SO1" :> <<line("bolt", "W1", 1), line("nut", "W1", -1)>>
             @@ "SO2" :> <<line("nut", Default, 1), line("bolt", "W1", 1)>>
             @@ "PO1" :> <<line("bolt", Default, 1)>>
OverlapMovementOf == "IN" :> move("INBOUND", "nut", 1, Default, "W2")
OverlapPresent == {<<"bolt", "W1">>, <<"nut", "W1">>}
OverlapLevel   == [s \in OverlapItems \X OverlapWarehouses |->
                      IF s \in OverlapPresent THEN stock(1, 0) ELSE stock(0, 0)]

\* For waits: two connections, two confirmations that each need both, and two
\* transfers that lock the same two rows in opposite orders.
WaitsMovements  == {"EAST", "WEST"}
WaitsItems      == {"bolt"}
WaitsLines      == "SO1" :> <<line("bolt", "W1", 1)>> @@ "SO2" :> <<line("bolt", "W2", 1)>>
WaitsMovementOf == "EAST" :> move("TRANSFER", "bolt", 1, "W1", "W2")
                @@ "WEST" :> move("TRANSFER", "bolt", 1, "W2", "W1")
WaitsPresent    == WaitsItems \X OverlapWarehouses
WaitsLevel      == [s \in WaitsPresent |-> stock(2, 0)]

\* Two sales orders for the one bolt there is.
OneBoltLines   == [o \in OverlapSales |-> <<line("bolt", "W1", 1)>>]
OneBoltPresent == {<<"bolt", "W1">>}
OneBoltLevel   == [s \in OneBoltPresent |-> stock(1, 0)]
NoMovements    == [m \in {} |-> {}]

\* Two bolts, and orders for both of them and for one less than none.
LessLines   == "SO1" :> <<line("bolt", "W1", 2)>> @@ "SO2" :> <<line("bolt", "W1", -1)>>
LessLevel   == [s \in OneBoltPresent |-> stock(2, 0)]
=============================================================================
