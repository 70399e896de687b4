----------------------------- MODULE MCReceiving -----------------------------
(***************************************************************************)
(* Instances of Receiving for TLC: an order of two lines, two receipts and *)
(* an invoice.                                                             *)
(***************************************************************************)
EXTENDS Receiving, TLC

AnyOrder == Permutations(Workers)

OneOrder    == {"PO1"}
TwoLines    == {"bolts", "nuts"}
Prices      == [l \in TwoLines |-> 10]
TwoReceipts == {"GR1", "GR2"}
OneInvoice  == {"SI1"}

Piece(n)         == n * 10000
All(n)           == [received |-> Piece(n), accepted |-> Piece(n), rejected |-> 0]
Part(n, ok)      == [received |-> Piece(n), accepted |-> Piece(ok), rejected |-> 0]
Verdict(ok, bad) == [accepted |-> Piece(ok), rejected |-> Piece(bad)]

\* Both lines; one of them, counted but not yet accepted.
SomeDeliveries == {[l \in TwoLines |-> All(1)], "bolts" :> Part(1, 0)}

\* One line is accepted, is rejected, is left half judged; both are accepted.
SomeVerdicts == {"bolts" :> Verdict(1, 0), "nuts" :> Verdict(0, 1), "bolts" :> Verdict(0, 0),
                 [l \in TwoLines |-> Verdict(1, 0)]}

Line(l, n) == [line |-> l, quantity |-> Piece(n), cost |-> 10, amount |-> 10 * n, rate |-> 20]
Bill(ls, total) == [lines |-> ls, total |-> total]

\* One bolt; a bolt and two nuts; a bolt and something nobody ordered.
SomeBills == {Bill(<<Line("bolts", 1)>>, 12),
              Bill(<<Line("bolts", 1), Line("nuts", 2)>>, 36),
              Bill(<<Line("bolts", 1), Line(None, 1)>>, 24)}
OneBill   == {Bill(<<Line("bolts", 1)>>, 12)}

Asked(q, p, t) == [quantity |-> q, price |-> p, total |-> t]

\* The defaults of the documentation, rounded to what a request may say; any
\* total; nothing at all.
SomeTolerances    == {Asked(20, 0, 10), Asked(20, 0, 1000), Asked(None, None, None)}
StatedTolerances  == {Asked(20, 0, 10)}
BoltDelivery      == {"bolts" :> All(1)}
=============================================================================
