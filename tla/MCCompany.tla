----------------------------- MODULE MCCompany -----------------------------
(***************************************************************************)
(* Small instances of BackOffice. Every scene is a database of one concern, *)
(* on which all handlers act that find their rows in it.                   *)
(***************************************************************************)
EXTENDS BackOffice, TLC

MCCodes    == {"C1", "C2"}
MCBaskets  == {[net |-> 1005, rate |-> 22]}
MCChart    == <<[code |-> "01", parent |-> None], [code |-> "01.05", parent |-> "01"],
                [code |-> "01.05.001", parent |-> "01.05"]>>
MCAccounts == {"01.05"}
MCEntries  == {[debit |-> 1000049, credit |-> 1000051], [debit |-> 500, credit |-> 700]}
Mixed      == <<[net |-> 1003, rate |-> 22, nature |-> None], [net |-> 51, rate |-> 10, nature |-> None]>>
Exempt     == <<[net |-> 700, rate |-> 0, nature |-> "N2"]>>
MCLines    == {Mixed, Exempt}
MCYears    == {2025, 2026}
MCNames    == {"main"}
MCAmounts  == [b \in {"intesa", "unicredit", "bper"} |->
                  CASE b = "intesa" -> 12500 [] b = "unicredit" -> -45000 [] b = "bper" -> None]
MCStamps   == {540, 1020, 1500}
MCBreaks   == {30}
MCRuns     == {"customer_revenue_ranking", "quotation_pipeline_summary"}
MCUuids    == <<"c1", "c2">>

Unused(ids, t) == [d \in ids |-> Absent(t)]

Client   == Only("c1", Customer("C1", FALSE))
Agency   == Only("c2", Customer("C2", TRUE))
Basket   == CHOOSE b \in MCBaskets : TRUE
Draft    == Quotation(1, "c1", Basket, 0)
Accepted == [Draft EXCEPT !.status = "accepted", !.sentAt = 0, !.acceptedAt = 0]
Issued   == [Ddt(1, "c1") EXCEPT !.status = "issued"]
Billed(n, c, lines) == Invoice(n, 2026, c, lines, SumOf(LineNet, lines), SumOf(LineTaxed, lines))

Sent(n, c, lines)   == [Billed(n, c, lines) EXCEPT !.status = "queued", !.submittedAt = 0]

QuotationScene ==
    And(Client, And(Only("q1", Accepted),
        And(Unused({"q2"}, "quotation"), Unused({"o1", "o2"}, "sales_order"))))
\* The quotation became an order that waits to be shipped.
OrderedScene ==
    And(Client, And(Only("q1", [Accepted EXCEPT !.status = "converted", !.order = "o1"]),
        Only("o1", [SalesOrder(1, "c1", Basket, Tax(Basket), "q1") EXCEPT !.status = "confirmed"])))
DdtScene ==
    And(Client, And(Only("d1", Issued),
        And(Unused({"d2"}, "ddt"), And(Unused({"i1"}, "invoice"),
            And(Unused({"a1"}, "activity"), Unused({"c3"}, "customer"))))))
ChartScene == Unused({"n1", "n2", "n3", "n4", "n5"}, "account")
InvoiceScene ==
    And(Client, And(Agency, And(Only("i1", Billed(1, "c1", Mixed)),
        And(Unused({"i2", "i3"}, "invoice"), Unused({"j1", "j2"}, "journal")))))
BankScene ==
    And(Only("b1", BankAccount("main", "unicredit")),
        And(Unused({"b2"}, "bank_account"), And(Unused({"t1", "t2"}, "bank_transaction"),
            And(Only("s1", Payable("approved", 45000)), Unused({"i1"}, "invoice")))))

Rossi == [table |-> "employee", status |-> "prospect", key |-> 1, alias |-> "RSS",
          hireDate |-> None, terminationDate |-> None, createdAt |-> 0]
Arrived == [table |-> "attendance", status |-> "open", key |-> <<"e1", 0>>, day |-> 0,
            clockInAt |-> 540, clockOutAt |-> None, breakMinutes |-> 0, workedHours |-> 0]
Partner(country) == [table |-> "customer", status |-> "active", country |-> country,
                     splitPayment |-> FALSE]
Goods      == <<[net |-> 1049, rate |-> 0, nature |-> "N3.2"]>>
Sold(n, c) == Invoice(n, 2026, c, Goods, 1049, 0)

EmployeeScene == And(Only("e1", Rossi), Unused({"e2", "e3"}, "employee"))
Gone(n, code) == [Rossi EXCEPT !.status = "terminated", !.key = n, !.alias = code,
                               !.hireDate = 0, !.terminationDate = 0]
AttendanceScene ==
    And(Only("e1", Gone(1, "RSS")), And(Only("e2", Gone(2, "BNC")),
    And(Only("a1", Arrived), Unused({"a2"}, "attendance"))))
LeaveScene == And(Only("e1", Rossi), Unused({"r1"}, "leave"))
DeclarationScene ==
    And(Only("c1", Partner("DE")), And(Only("c2", Partner("IT")),
    And(Only("i1", Sold(1, "c1")), And(Only("i2", Sold(2, "c1")),
    And(Only("s1", Purchase(2026, "FR", 5000)), And(Unused({"i3"}, "invoice"),
    And(Only("x1", IntrastatDeclaration("cessioni", 2026)), And(Unused({"x2"}, "declaration"),
        Unused({"l1", "l2", "l3", "l4", "l5", "l6", "l7", "l8", "l9"}, "line")))))))))
Started(n, place) ==
    [WorkOrder(n, "o1", place) EXCEPT !.status = "in_progress", !.startedAt = 0]
\* One operation of two is completed.
FloorScene ==
    And(Only("o1", [ProductionOrder(1) EXCEPT !.quantityProduced = 3]),
    And(Only("w1", [Started(1, 1) EXCEPT !.status = "completed", !.quantityProduced = 3,
                                         !.completedAt = 0, !.actualDuration = 0]),
        Only("w2", Started(2, 2))))
FilingScene ==
    And(Only("o1", ProductionOrder(1)), And(Unused({"o2"}, "production_order"),
        Unused({"w1", "w2"}, "work_order")))
CatalogueScene ==
    And(Only("p1", Product("S1")), And(Unused({"p2"}, "product"), Unused({"h1"}, "warehouse")))

\* The customer that comes first in the database has less revenue.
RevenueScene ==
    And(Client, And(Agency,
    And(Only("i1", Sent(1, "c1", Exempt)), And(Only("i2", Sent(2, "c2", Mixed)),
    And(Only("q1", Draft), And(Unused({"k1", "k2"}, "cursor"),
        Unused({"m1", "m2", "m3", "m4", "m5", "m6"}, "read_model")))))))
ReportScene ==
    And(Only("r1", ReportDefinition("sales")),
    And(Unused({"r2"}, "report"), Unused({"h1"}, "schedule")))

\* The companies in the other order than their codes; one has the VAT number of a
\* customer, none that of the other.
HoldingScene ==
    And(Client, And(Agency,
    And(Only("b1", Company(2, "c1")), And(Only("b2", [Company(1, None) EXCEPT !.isPrimary = TRUE]),
    And(Only("b3", Company(3, None)), And(Unused({"b4"}, "company"),
    And(Only("i1", Billed(1, "c1", Exempt)), And(Only("i2", Billed(2, "c2", Mixed)),
    And(Only("s1", Purchased("v1", 2026, 5000, 1100)),
    And(Only("k1", [table |-> "package", status |-> "active"]),
        Unused({"x1"}, "installation")))))))))))

MCScenes == {QuotationScene, OrderedScene, DdtScene, ChartScene, InvoiceScene, BankScene,
             EmployeeScene, AttendanceScene, LeaveScene, DeclarationScene, FloorScene, FilingScene,
             CatalogueScene, RevenueScene, ReportScene, HoldingScene}
Perms    == Permutations(Workers)
=============================================================================
