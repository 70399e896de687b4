----------------------------- MODULE Companies -----------------------------
(***************************************************************************)
(* MultiCompanyService, ConsolidationService and MarketplaceService: the   *)
(* companies of a tenant, which of them is primary, the sales and          *)
(* purchases of a year by company, and the packages a tenant installed.    *)
(* A VAT number is the id of the customer that has it.                     *)
(***************************************************************************)
EXTENDS Reporting

CONSTANTS
    CompanyCodes,   \* codes a company may be given, in their order
    CompanyVats     \* VAT numbers a company may be given

-----------------------------------------------------------------------------
(* Entities.                                                               *)

Company(code, vat) ==
    [table |-> "company", status |-> "active", key |-> code, alias |-> vat, isPrimary |-> FALSE]

Installation(package) ==
    [table |-> "installation", status |-> "active", key |-> package, installedAt |-> now,
     cancelledAt |-> None]

-----------------------------------------------------------------------------
(* MultiCompanyService.                                                    *)

\* Only the code is looked for; the VAT number is left to its index.
CreateCompany(p) ==
    /\ Free("company") # {}
    /\ \E code \in CompanyCodes, vat \in CompanyVats \cup {None} :
        /\ \A c \in Rows("company") : db[c].key # code
        /\ LET c == New("company") IN Handle(p, {c}, <<Only(c, Company(code, vat))>>)

\* Mutant: the company that was primary is left as it is.
SetPrimaryToo(p) ==
    \E c \in Rows("company") :
        Handle(p, Rows("company"),
               IF db[c].isPrimary THEN <<>> ELSE <<Only(c, [db[c] EXCEPT !.isPrimary = TRUE])>>)

\* The companies whose mark changes are saved one by one, in the order of their codes.
SetPrimary(p) ==
    \E target \in Rows("company") :
        LET changed == {c \in Rows("company") : db[c].isPrimary # (c = target)}
        IN  \E inOrder \in Bijection(1 .. Cardinality(changed), changed) :
                /\ \A m, n \in DOMAIN inOrder : m < n => db[inOrder[m]].key < db[inOrder[n]].key
                /\ Handle(p, Rows("company"),
                          [n \in DOMAIN inOrder |->
                              Only(inOrder[n], [db[inOrder[n]] EXCEPT !.isPrimary = ~@])])

-----------------------------------------------------------------------------
(* MarketplaceService.                                                     *)

\* Refused for a package that was installed once, cancelled or not.
Install(p) ==
    /\ Free("installation") # {}
    /\ \E package \in Rows("package") :
        /\ \A i \in Rows("installation") : db[i].key # package
        /\ LET i == New("installation") IN Handle(p, {i}, <<Only(i, Installation(package))>>)

CancelInstallation(p) ==
    \E i \in Rows("installation") :
        Handle(p, {i}, <<Only(i, [db[i] EXCEPT !.status = "cancelled", !.cancelledAt = now])>>)

\* MultiCompanyController, MarketplaceController.
CompanyStep(p) == CreateCompany(p) \/ SetPrimary(p) \/ Install(p) \/ CancelInstallation(p)

-----------------------------------------------------------------------------
(* ConsolidationService.consolidate.                                       *)

Primaries == {c \in Rows("company") : db[c].isPrimary}

\* Which company may come first: the rows have no order.
Heads == IF Primaries # {} THEN Primaries ELSE Rows("company")

\* The company an invoice counts for.
CompanyOf(i, head) ==
    LET own == {c \in Rows("company") : db[c].alias # None /\ db[c].alias = db[i].customer}
    IN  IF own # {} THEN CHOOSE c \in own : TRUE ELSE head

SalesOf(c, year, head) ==
    Total({i \in InvoicesOf(year) : CompanyOf(i, head) = c}, Gross)

\* Purchases have no company and are the primary's.
PurchasesOf(c, year, head) ==
    LET all == {s \in Rows("supplier_invoice") : db[s].period = year}
    IN  IF c = head THEN Total(all, LAMBDA s : db[s].total) ELSE 0

PerCompany(year, head) ==
    [c \in Rows("company") |-> [sales     |-> SalesOf(c, year, head),
                                purchases |-> PurchasesOf(c, year, head)]]

Rollup(year, head) ==
    LET lines == PerCompany(year, head)
    IN  [sales     |-> Total(DOMAIN lines, LAMBDA c : lines[c].sales),
         purchases |-> Total(DOMAIN lines, LAMBDA c : lines[c].purchases)]

-----------------------------------------------------------------------------
(* What should hold of it.                                                 *)

\* What a projection counts in a year.
Projected(rows, year) == Total({r \in rows : r.key = year}, LAMBDA r : r.payload.total)

\* The consolidation of a year is the same whichever row the database returns
\* first, once companies are at rest whose changes of primary neither overlapped
\* nor were cut off ("Exactly one Company per tenant should have isPrimary"). At
\* any moment, while the mark is on two companies or on none, its totals are
\* those the dashboards show for the year.
ConsolidatedAlike ==
    \A year \in Years :
        /\ \A head \in Heads :
            Rollup(year, head) =
                [sales     |-> Projected(MonthlyInvoiceTotals, year),
                 purchases |-> Projected(MonthlySupplierInvoiceTotals, year)]
        /\ (/\ Rows("company") \cap (contended \cup cut) = {}
            /\ \A c \in Rows("company") : Settled(c)
            /\ Primaries # {}) =>
               \A a, b \in Heads : PerCompany(year, a) = PerCompany(year, b)
=============================================================================
