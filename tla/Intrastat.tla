------------------------------ MODULE Intrastat ------------------------------
(***************************************************************************)
(* IntrastatService: the declarations of a period's trade within the EU,   *)
(* from draft to the customs' answer, their lines and their export. Sales  *)
(* are the invoices of Accounting, purchases the supplier invoices that    *)
(* carry a partner's country. A period is a fiscal year here.              *)
(***************************************************************************)
EXTENDS Accounting

CONSTANT MemberStates   \* of the EU, Italy left out

-----------------------------------------------------------------------------
(* Entities.                                                               *)

IntrastatDeclaration(type, period) ==
    [table |-> "declaration", status |-> "draft", key |-> <<type, period>>, type |-> type,
     period |-> period, totalValueCents |-> 0, lineCount |-> 0, generatedAt |-> None,
     admProtocollo |-> None]

IntrastatLine(declaration, position, country, value, source) ==
    [table |-> "line", status |-> "stored", declaration |-> declaration, position |-> position,
     partnerCountry |-> country, valueCents |-> value, source |-> source]

\* Of a SupplierInvoice, what a declaration reads.
Purchase(period, country, total) ==
    [table |-> "supplier_invoice", status |-> "registered", period |-> period,
     partnerCountry |-> country, total |-> total]

CanIntrastat(from, to) ==
    \/ from = "draft" /\ to = "generated"
    \/ from = "generated" /\ to \in {"submitted", "draft"}
    \/ from = "submitted" /\ to \in {"accepted", "rejected"}

IsIntraEuPartner(country) == country \in MemberStates

-----------------------------------------------------------------------------
(* aggregateLines: the documents to declare, in no particular order, each  *)
(* as the partner's country, its value and where it comes from.            *)

\* Whatever the status of the invoice, and with its IVA: its totalAmount.
Cessioni(period) ==
    {[country |-> db[db[i].customer].country, value |-> db[i].net + db[i].tax, source |-> i] :
        i \in {j \in InvoicesOf(period) : IsIntraEuPartner(db[db[j].customer].country)}}

Acquisti(period) ==
    {[country |-> db[s].partnerCountry, value |-> db[s].total, source |-> s] :
        s \in {j \in Rows("supplier_invoice") :
                  db[j].period = period /\ IsIntraEuPartner(db[j].partnerCountry)}}

Aggregate(declaration) ==
    IF declaration.type = "cessioni" THEN Cessioni(declaration.period)
    ELSE Acquisti(declaration.period)

-----------------------------------------------------------------------------
(* Lifecycle.                                                              *)

\* createOrFindDraft, where there is none yet.
CreateDraft(p) ==
    /\ Free("declaration") # {}
    /\ \E type \in {"cessioni", "acquisti"}, period \in Years :
        /\ \A x \in Rows("declaration") : db[x].key # <<type, period>>
        /\ LET x == New("declaration")
           IN  Handle(p, {x}, <<Only(x, IntrastatDeclaration(type, period))>>)

LinesOf(x) == {l \in Rows("line") : db[l].declaration = x}

\* The lines of x to delete and those to insert, from the documents `found`.
Rewritten(x, found, ids) ==
    And([l \in LinesOf(x) |-> Absent("line")],
        [l \in ids |->
            LET n == CHOOSE k \in DOMAIN SetToSeq(ids) : SetToSeq(ids)[k] = l
                d == SetToSeq(found)[n]
            IN  IntrastatLine(x, n, d.country, d.value, d.source)])

\* Mutant: the lines of an earlier generation are left in place.
GenerateOver(p) ==
    \/ \E x \in Rows("declaration") :
        /\ CanIntrastat(db[x].status, "generated")
        /\ Begin(p, {x}, <<>>, "aggregate")
    \/ /\ req[p].pc = "aggregate"
       /\ \E x \in {d \in DOMAIN req[p].base : db[d].table = "declaration"} :
        LET declaration == req[p].base[x]
            found       == Aggregate(declaration)
            ids         == NewIds("line", Cardinality(found))
        IN  /\ Spare("line", Cardinality(found))
            /\ GoOn(p, "aggregate", ids,
                    <<And([l \in ids |-> Rewritten(x, found, ids)[l]],
                          Only(x, [declaration EXCEPT !.status = "generated", !.generatedAt = now,
                              !.totalValueCents = MapThenSumSet(LAMBDA d : d.value, found),
                              !.lineCount = Cardinality(found)]))>>, "idle")

\* generate: the declaration is read and judged; then its documents are added
\* up, its old lines deleted, the new ones inserted and the declaration saved,
\* in one transaction. The deletion is of the lines there are when it runs.
Generate(p) ==
    \/ \E x \in Rows("declaration") :
        /\ CanIntrastat(db[x].status, "generated")
        /\ Begin(p, {x}, <<>>, "aggregate")
    \/ /\ req[p].pc = "aggregate"
       /\ \E x \in {d \in DOMAIN req[p].base : db[d].table = "declaration"} :
        LET declaration == req[p].base[x]
            found       == Aggregate(declaration)
            ids         == NewIds("line", Cardinality(found))
        IN  /\ Spare("line", Cardinality(found))
            /\ GoOn(p, "aggregate", ids \cup LinesOf(x),
                    <<And(Rewritten(x, found, ids),
                          Only(x, [declaration EXCEPT !.status = "generated", !.generatedAt = now,
                              !.totalValueCents = MapThenSumSet(LAMBDA d : d.value, found),
                              !.lineCount = Cardinality(found)]))>>, "idle")

Submit(p) ==
    \E x \in Rows("declaration") :
        /\ CanIntrastat(db[x].status, "submitted")
        /\ Handle(p, {x}, <<Only(x, [db[x] EXCEPT !.status = "submitted", !.admProtocollo = p])>>)

\* accept and reject.
Answer(p) ==
    \E x \in Rows("declaration"), to \in {"accepted", "rejected"} :
        /\ CanIntrastat(db[x].status, to)
        /\ Handle(p, {x}, <<Only(x, [db[x] EXCEPT !.status = to])>>)

\* reopen: the lines stay until the next generation.
Reopen(p) ==
    \E x \in Rows("declaration") :
        /\ CanIntrastat(db[x].status, "draft")
        /\ Handle(p, {x}, <<Only(x, [db[x] EXCEPT !.status = "draft", !.generatedAt = None,
                                       !.totalValueCents = 0, !.lineCount = 0])>>)

\* IntrastatController.
IntrastatStep(p) ==
    CreateDraft(p) \/ Generate(p) \/ Submit(p) \/ Answer(p) \/ Reopen(p)

-----------------------------------------------------------------------------
(* Export: whole euros, each line and the total rounded by itself.         *)

Euros(cents) == (cents + 50) \div 100

\* exportCsv and the lines of renderIntrastatXml, by their position.
ExportedLine(l) ==
    [position |-> db[l].position, country |-> db[l].partnerCountry,
     ammontare |-> Euros(db[l].valueCents)]

\* renderIntrastatXml.
Exported(x) ==
    [totaleEuro |-> Euros(db[x].totalValueCents), righe |-> db[x].lineCount,
     lines |-> {ExportedLine(l) : l \in LinesOf(x)}]

-----------------------------------------------------------------------------
(* What should hold of it.                                                 *)

\* What a declaration that left the draft exports adds up ("lines frozen"): as
\* many lines as its head says, numbered from one, each document once, and the
\* euros of the lines those of the total but for half a euro a line. Two
\* generations at once can leave the lines of both.
FrozenTotals ==
    \A x \in Rows("declaration") \ contended : db[x].status # "draft" =>
        LET out == Exported(x)
            n   == Cardinality(LinesOf(x))
            sum == MapThenSumSet(LAMBDA l : l.ammontare, out.lines)
        IN  /\ out.righe = n
            /\ {l.position : l \in out.lines} = 1 .. n
            /\ Cardinality({db[l].source : l \in LinesOf(x)}) = n
            /\ 2 * (sum - out.totaleEuro) \in -(n + 1) .. n + 1
=============================================================================
