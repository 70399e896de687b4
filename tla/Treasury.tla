------------------------------ MODULE Treasury ------------------------------
(***************************************************************************)
(* TreasuryService: bank accounts, the import of their transactions from a *)
(* PSD2 provider, reconciliation by hand; what AutoReconcilerService and   *)
(* CashForecastService read. The adapters answer as their sandbox does,    *)
(* the only mode they have: Intesa and UniCredit one transaction, with a   *)
(* new external id, to an account that has no cursor, and none afterwards; *)
(* BPER none at all. Each gives a cursor.                                  *)
(***************************************************************************)
EXTENDS Requests, FiniteSetsExt

CONSTANTS
    AccountNames,   \* names an account may be given
    BankAmount      \* provider -> the cents of its sandbox transaction, or None

Providers == DOMAIN BankAmount

-----------------------------------------------------------------------------
(* Entities. `status` of a transaction is its reconciliationStatus.        *)

BankAccount(name, provider) ==
    [table |-> "bank_account", status |-> "active", key |-> name,
     psd2Provider |-> provider, lastTransactionCursor |-> None]

BankTransaction(externalId, account, amount) ==
    [table |-> "bank_transaction", status |-> "unmatched", key |-> externalId,
     account |-> account, amount |-> amount, document |-> None, matchedBy |-> None]

\* Of a SupplierInvoice, what the treasury reads.
Payable(status, total) == [table |-> "supplier_invoice", status |-> status, total |-> total]

\* The values of the enum that is the type of an invoice's status.
ReceivableStatus == {"draft", "queued", "sent", "received", "accepted", "rejected",
                     "not_delivered", "expired", "cancelled"}

-----------------------------------------------------------------------------
(* Accounts and their transactions.                                        *)

CreateBankAccount(p) ==
    /\ Free("bank_account") # {}
    /\ \E name \in AccountNames, provider \in Providers \cup {"manual"} :
        LET a == New("bank_account") IN Handle(p, {a}, <<Only(a, BankAccount(name, provider))>>)

\* How many transactions an account has once it was synced.
Given(provider) == IF BankAmount[provider] = None THEN 0 ELSE 1

\* What the provider of an account returns: the rows to insert, one by one.
Pulled(a, t) ==
    IF db[a].lastTransactionCursor # None \/ Given(db[a].psd2Provider) = 0 THEN <<>>
    ELSE <<Only(t, BankTransaction(t, a, BankAmount[db[a].psd2Provider]))>>

\* Mutant: the cursor is not saved.
SyncPsd2Forgetful(p) ==
    /\ Free("bank_transaction") # {}
    /\ \E a \in Rows("bank_account") :
        /\ db[a].psd2Provider \in Providers
        /\ LET t == New("bank_transaction") IN Handle(p, {a, t}, Pulled(a, t))

\* syncPsd2: every transaction nobody has is saved by itself, then the cursor.
SyncPsd2(p) ==
    /\ Free("bank_transaction") # {}
    /\ \E a \in Rows("bank_account") :
        /\ db[a].psd2Provider \in Providers
        /\ LET t == New("bank_transaction")
           IN  Handle(p, {a, t},
                      Append(Pulled(a, t), Only(a, [db[a] EXCEPT !.lastTransactionCursor = now])))

\* manualMatch: whatever the status was, with whatever document.
ManualMatch(p) ==
    \E t \in Rows("bank_transaction"), d \in IdsOf("invoice") \cup IdsOf("supplier_invoice") :
        Handle(p, {t}, <<Only(t, [db[t] EXCEPT !.document = d, !.status = "matched",
                                              !.matchedBy = p])>>)

IgnoreTransaction(p) ==
    \E t \in Rows("bank_transaction") :
        Handle(p, {t}, <<Only(t, [db[t] EXCEPT !.status = "ignored", !.matchedBy = p])>>)

\* TreasuryController.
TreasuryStep(p) ==
    CreateBankAccount(p) \/ SyncPsd2(p) \/ ManualMatch(p) \/ IgnoreTransaction(p)

-----------------------------------------------------------------------------
(* What is read.                                                           *)

\* The open supplier invoices of an amount.
Candidates(cents) ==
    {d \in Rows("supplier_invoice") :
        db[d].status \notin {"paid", "cancelled", "rejected"} /\ db[d].total = cents}

\* PostgreSQL refuses a query that compares an enum with a value it has not.
Comparable(literals, type) == literals \subseteq type

\* AutoReconcilerService.propose for a transaction: a document and a confidence,
\* any of several for a low one; None where there is nothing to propose. The
\* query for a credit compares the status of the invoices with 'paid'.
Proposals(t) ==
    LET found == Candidates(-db[t].amount)
    IN  IF db[t].amount >= 0
        THEN IF Comparable({"paid", "cancelled"}, ReceivableStatus) THEN {} ELSE {"error"}
        ELSE {[document |-> d, confidence |-> IF Cardinality(found) = 1 THEN "high" ELSE "low"] :
                 d \in found}

\* CashForecastService.forecast of one horizon, everything being due in it.
CashForecast ==
    IF ~Comparable({"paid", "cancelled"}, ReceivableStatus) THEN "error"
    ELSE MapThenSumSet(LAMBDA i : db[i].net + db[i].tax,
                       {i \in Rows("invoice") : db[i].status \notin {"cancelled"}})
         - MapThenSumSet(LAMBDA d : db[d].total,
                         {d \in Rows("supplier_invoice") :
                             db[d].status \notin {"paid", "cancelled", "rejected"}})

-----------------------------------------------------------------------------
(* What should hold of it.                                                 *)

\* A transaction of the bank is imported once ("Idempotency by externalId"): an
\* account has what its provider gives, one transaction or none, when it has a
\* cursor, and none before. Two syncs at once, or one that is cut off before it saves the cursor, import it
\* again, under another external id.
ImportedOnce ==
    \A a \in Rows("bank_account") \ (contended \cup cut) : Settled(a) =>
        Cardinality({t \in Rows("bank_transaction") : db[t].account = a})
            = IF db[a].lastTransactionCursor = None THEN 0 ELSE Given(db[a].psd2Provider)
=============================================================================
