----------------------------- MODULE Accounting -----------------------------
(***************************************************************************)
(* AccountingService: the chart of accounts and its seed, journal entries, *)
(* invoices from draft to acceptance, the IVA of a period; what            *)
(* FatturaPaAdapter writes of an invoice; computeIva and IossService.      *)
(*                                                                         *)
(* Amounts of invoices are cents, those typed into a journal hundredths of *)
(* a cent; rates are percent. One tenant.                                  *)
(***************************************************************************)
EXTENDS Requests, SequencesExt, FiniteSetsExt

CONSTANTS
    Chart,          \* the seed template: a sequence of [code, parent]
    AccountCodes,   \* codes a user may add, with no parent
    Entries,        \* what a journal entry may say: [debit |-> , credit |-> ]
    InvoiceLines,   \* what an invoice may list: sequences of [net, rate, nature]
    Years           \* fiscal years invoices may be dated in

\* The seed template names parents before their children; null is no number.
ASSUME AccountingAssumption ==
    /\ DOMAIN Chart \subseteq Nat
    /\ \A i \in DOMAIN Chart : Chart[i].parent = None \/
           \E j \in DOMAIN Chart : j < i /\ Chart[j].code = Chart[i].parent
    /\ None \notin Nat \X Years

-----------------------------------------------------------------------------
(* Entities.                                                               *)

Account(code, parent, seeded) ==
    [table |-> "account", status |-> "active", key |-> code, parent |-> parent,
     seeded |-> seeded]

\* Lines by what they are for; `invoice` is no column: what the entry registers.
JournalEntry(receivable, revenue, vat, invoice) ==
    [table |-> "journal", status |-> "posted", receivable |-> receivable,
     revenue |-> revenue, vat |-> vat, invoice |-> invoice]

\* An entry somebody typed, by its two totals.
TypedEntry(debit, credit) ==
    [table |-> "journal", status |-> "open", debit |-> debit, credit |-> credit,
     invoice |-> None]

Invoice(number, year, c, lines, net, tax) ==
    [table |-> "invoice", status |-> "draft", key |-> <<number, year>>, year |-> year,
     customer |-> c, lines |-> lines, net |-> net, tax |-> tax, submittedAt |-> None]

-----------------------------------------------------------------------------
(* Amounts.                                                                *)

SumOf(f(_), lines) == FoldLeft(LAMBDA s, l : s + f(l), 0, lines)

\* toFixed(2) of n units of which there are u in a cent.
ToCents(n, u) == (n + u \div 2) \div u

LineNet(l) == l.net

\* createInvoice rounds the tax of every line; a line with a nature has none.
LineTaxed(l) == IF l.nature = None THEN ToCents(l.net * l.rate, 100) ELSE 0

\* What ivaLiquidation and DatiRiepilogo add up instead, in hundredths of a cent.
LineTaxExact(l) == IF l.nature = None THEN l.net * l.rate ELSE 0

\* Lines with numbers for net amounts and rates, as InvoiceLineDto has them.
Listed(lines) ==
    /\ Len(lines) \in Nat /\ DOMAIN lines = 1 .. Len(lines)
    /\ \A n \in DOMAIN lines : lines[n].net \in Int /\ lines[n].rate \in Int

ASSUME AmountsAssumption == \A lines \in InvoiceLines : Listed(lines)

\* An invoice with the net amount and the tax of its lines.
AmountsRight(row) ==
    /\ Listed(row.lines)
    /\ row.net = SumOf(LineNet, row.lines) /\ row.tax = SumOf(LineTaxed, row.lines)

-----------------------------------------------------------------------------
(* Chart of accounts.                                                      *)

Known(code) == \E a \in Rows("account") : db[a].key = code

CreateAccount(p) ==
    /\ Free("account") # {}
    /\ \E code \in AccountCodes :
        /\ ~Known(code)
        /\ LET a == New("account") IN Handle(p, {a}, <<Only(a, Account(code, None, FALSE))>>)

\* Mutant: the template is gone through from its end.
SeedLastFirst(p) ==
    LET missing == {i \in DOMAIN Chart : ~Known(Chart[i].code)}
        last    == CHOOSE i \in missing : \A j \in missing : j <= i
        entry   == LET a == New("account")
                   IN  [id |-> a, row |-> Account(Chart[last].code, Chart[last].parent, TRUE)]
    IN  /\ missing # {} /\ Free("account") # {}
        /\ \/ Begin(p, {entry.id}, <<Only(entry.id, entry.row)>>, "seed")
           \/ GoOn(p, "seed", {entry.id}, <<Only(entry.id, entry.row)>>, "seed")

\* seedChartOfAccounts: for each code of the template, look for it and save it
\* if nobody has it, one after the other.
Seed(p) ==
    LET missing == {i \in DOMAIN Chart : ~Known(Chart[i].code)}
        first   == CHOOSE i \in missing : \A j \in missing : i <= j
        entry   == LET a == New("account")
                   IN  [id |-> a, row |-> Account(Chart[first].code, Chart[first].parent, TRUE)]
    IN  /\ missing # {} /\ Free("account") # {}
        /\ \/ Begin(p, {entry.id}, <<Only(entry.id, entry.row)>>, "seed")
           \/ GoOn(p, "seed", {entry.id}, <<Only(entry.id, entry.row)>>, "seed")

SeedDone(p) ==
    /\ \A i \in DOMAIN Chart : Known(Chart[i].code)
    /\ GoOn(p, "seed", {}, <<>>, "idle")

-----------------------------------------------------------------------------
(* Journal entries and invoices.                                           *)

\* createJournalEntry: debit and credit may differ by a tenth of a cent; each
\* total is rounded by itself.
CreateJournalEntry(p) ==
    /\ Free("journal") # {}
    /\ \E e \in Entries :
        /\ e.debit - e.credit \in -10 .. 10
        /\ LET d == New("journal")
           IN  Handle(p, {d}, <<Only(d, TypedEntry(ToCents(e.debit, 100), ToCents(e.credit, 100)))>>)

InvoicesOf(year) == {i \in Rows("invoice") : db[i].year = year}

\* Mutant: the invoices of all years are counted.
CreateInvoiceCountingAll(p) ==
    /\ Free("invoice") # {}
    /\ \E c \in Rows("customer"), year \in Years, lines \in InvoiceLines :
        LET i == New("invoice")
        IN  Handle(p, {i}, <<Only(i, Invoice(Count("invoice") + 1, year, c, lines,
                                 SumOf(LineNet, lines), SumOf(LineTaxed, lines)))>>)

\* createInvoice: the number is the count of the fiscal year's invoices plus one.
CreateInvoice(p) ==
    /\ Free("invoice") # {}
    /\ \E c \in Rows("customer"), year \in Years, lines \in InvoiceLines :
        LET i == New("invoice")
        IN  Handle(p, {i}, <<Only(i, Invoice(Cardinality(InvoicesOf(year)) + 1, year, c, lines,
                                 SumOf(LineNet, lines), SumOf(LineTaxed, lines)))>>)

\* The entry of an acceptance: a customer under split payment owes no IVA.
Registration(i) ==
    LET split == db[db[i].customer].splitPayment
    IN  JournalEntry(IF split THEN db[i].net ELSE db[i].net + db[i].tax,
                     db[i].net, IF split THEN 0 ELSE db[i].tax, i)

\* Mutant: the entry and the status are two transactions.
AcceptInTwo(p) ==
    /\ Free("journal") # {}
    /\ \E i \in Rows("invoice") :
        /\ db[i].status # "accepted"
        /\ LET j == New("journal")
           IN  Handle(p, {i, j}, <<Only(j, Registration(i)),
                                   Only(i, [db[i] EXCEPT !.status = "accepted"])>>)

\* acceptInvoice: from any other status, in one transaction.
AcceptInvoice(p) ==
    /\ Free("journal") # {}
    /\ \E i \in Rows("invoice") :
        /\ db[i].status # "accepted"
        /\ LET j == New("journal")
           IN  Handle(p, {i, j}, <<And(Only(j, Registration(i)),
                                       Only(i, [db[i] EXCEPT !.status = "accepted"]))>>)

QueueInvoiceForSdi(p) ==
    \E i \in Rows("invoice") :
        /\ db[i].status = "draft"
        /\ Handle(p, {i}, <<Only(i, [db[i] EXCEPT !.status = "queued", !.submittedAt = now])>>)

\* AccountingController.
AccountingStep(p) ==
    \/ CreateAccount(p) \/ Seed(p) \/ SeedDone(p)
    \/ CreateJournalEntry(p)
    \/ CreateInvoice(p) \/ AcceptInvoice(p) \/ QueueInvoiceForSdi(p)

-----------------------------------------------------------------------------
(* What is read of the invoices.                                           *)

\* Mutant: the IVA of invoices nobody accepted is due as well.
LiquidationOfAll(year) ==
    LET liable == InvoicesOf(year)
    IN  MapThenSumSet(LAMBDA i : SumOf(LineTaxExact, db[i].lines), liable)

\* ivaLiquidation, its totalIva before rounding; a period is a year here.
Liquidation(year) ==
    LET liable == {i \in InvoicesOf(year) : db[i].status = "accepted"}
    IN  MapThenSumSet(LAMBDA i : SumOf(LineTaxExact, db[i].lines), liable)

\* DatiRiepilogo: the lines of one rate and nature, with their rate as
\* extractRate finds it: that of the first line of that nature whose amount is
\* within 1000 euro of the block's.
Block(lines, l) ==
    LET same    == SelectSeq(lines, LAMBDA m : m.rate = l.rate /\ m.nature = l.nature)
        taxable == SumOf(LineNet, same)
        near    == {i \in DOMAIN lines : /\ lines[i].nature = l.nature
                                         /\ lines[i].net - taxable \in -99999 .. 99999}
    IN  [rate    |-> IF near = {} THEN 0
                     ELSE lines[CHOOSE i \in near : \A j \in near : i <= j].rate,
         nature  |-> l.nature,
         taxable |-> taxable,
         tax     |-> ToCents(SumOf(LineTaxExact, same), 100)]

\* FatturaPaAdapter.build: chargeability of the IVA, total, blocks.
FatturaPa(i) ==
    [esigibilitaIVA |-> IF db[db[i].customer].splitPayment THEN "S" ELSE "I",
     importoTotale  |-> db[i].net + db[i].tax,
     riepilogo      |-> {Block(db[i].lines, l) : l \in Range(db[i].lines)}]

\* computeIva.
ComputeIva(regime, taxable, rate, split, reverse) ==
    LET free == regime \in {"RF19", "RF02"} \/ reverse
        tax  == IF free THEN 0 ELSE ToCents(taxable * rate, 100)
        due  == IF split THEN 0 ELSE tax
    IN  [ivaRate                      |-> IF free THEN 0 ELSE rate,
         ivaAmount                    |-> tax,
         payableByBuyer               |-> taxable + due,
         treasuryReceivableFromSeller |-> due]

-----------------------------------------------------------------------------
(* What should hold of it.                                                 *)

\* The invoices of every fiscal year are numbered 1, 2, 3 ... ("Progressivo
\* annuale della fattura. Combined uniqueness with fiscalYear."), whatever
\* requests overlap.
InvoicesWithoutGap ==
    \A y \in Years :
        {db[i].key : i \in InvoicesOf(y)} = (1 .. Cardinality(InvoicesOf(y))) \X {y}

\* The revenue of an invoice is registered once when it is accepted and not
\* before, with what its customer owes on one side and revenue and IVA on the
\* other. Overlapping acceptances, or a queueing that overlaps one, break it.
PostedOnce ==
    \A i \in Rows("invoice") \ contended :
        LET entries == {j \in Rows("journal") : db[j].invoice = i}
        IN  /\ Cardinality(entries) = IF db[i].status = "accepted" THEN 1 ELSE 0
            /\ \A j \in entries : /\ db[j].receivable = db[j].revenue + db[j].vat
                                  /\ db[j].revenue = SumOf(LineNet, db[i].lines)

\* The IVA of a year's liquidation is that of the registered invoices, but for
\* half a cent a line, which createInvoice rounds and ivaLiquidation does not.
\* It holds while nobody is under split payment, whose IVA only the
\* liquidation counts.
LiquidationNearLedger ==
    \A y \in Years :
        (/\ InvoicesOf(y) \cap contended = {}
         /\ \A i \in InvoicesOf(y) : ~db[db[i].customer].splitPayment) =>
        LET entries == {j \in Rows("journal") : db[j].invoice \in InvoicesOf(y)}
            posted  == MapThenSumSet(LAMBDA j : 100 * db[j].vat, entries)
            lines   == MapThenSumSet(LAMBDA j : Len(db[db[j].invoice].lines), entries)
        IN  Liquidation(y) - posted \in -(50 * lines) .. 50 * lines

\* However often the seed of the chart of accounts runs, alone or twice at once,
\* and wherever it is cut off, an account it created has its parent.
ParentsFirst ==
    \A a \in Rows("account") : db[a].seeded /\ db[a].parent # None => Known(db[a].parent)
=============================================================================
