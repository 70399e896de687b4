-------------------------- MODULE BackOfficeProofs --------------------------
(***************************************************************************)
(* Proofs about BackOffice: selling, accounting, treasury, personnel,      *)
(* customs, production, reports and companies with all their handlers at   *)
(* once, for every set of workers, of inputs and of databases to start     *)
(* from that are as the handlers leave one.                                *)
(***************************************************************************)
EXTENDS BackOffice, RequestsProofs, Sums

(***************************************************************************)
(* What the transactions to be committed say, beside the rows as they are  *)
(* now: of a row that is not stored yet, what a new one must; of one that  *)
(* is, what never changes, and nothing wrong unless it is contended.       *)
(***************************************************************************)
\* The columns no handler changes once a row is stored.
Fixed == {"key", "createdAt", "quotation", "year", "customer", "splitPayment", "lines", "net", "tax",
          "parent", "seeded", "account", "productionOrder", "psd2Provider"}

\* Order o is the one that unit u converts quotation q to.
Converts(rows, hot, u, q, o) ==
    /\ q \in DOMAIN u /\ q \in Stored(rows, "quotation")
    /\ u[q].order = o
    /\ q \notin hot => rows[q].order = None

\* Entry j is the one of the acceptance of invoice i, in unit u.
Posts(rows, hot, u, i, j) ==
    /\ i \in DOMAIN u /\ i \in Stored(rows, "invoice")
    /\ u[i].status = "accepted"
    /\ i \notin hot => rows[i].status # "accepted" /\ Registers(rows, u[j], rows[i])

\* An invoice is of a year that had, when it was counted, at most as many as now.
InYear(rows, o) ==
    /\ o.year \in Years
    /\ \E n \in 1 .. Cardinality(DatedIn(rows, o.year)) + 1 : o.key = <<n, o.year>>

\* An object of a unit to be inserted: of its table the only one.
Fresh(rows, hot, u, d, t) ==
    LET o == u[d]
    IN  /\ Columns(t) \subseteq DOMAIN o
        /\ \A x \in DOMAIN u : rows[x].table = t /\ rows[x].status = "absent" => x = d
        /\ t \in Numbered => o.key \in 1 .. Cardinality(Stored(rows, t)) + 1
        /\ t = "employee" => o.createdAt \in 0 .. MaxCalls
        /\ t = "quotation" => o.order = None
        /\ t = "invoice" =>
               o.status # "accepted" /\ InYear(rows, o) /\ o.customer \in Stored(rows, "customer")
        /\ t = "account" => UnderParent(rows, o)
        /\ t = "work_order" =>
               o.productionOrder \in Stored(rows, "production_order") /\ o.status # "completed"
        /\ t = "bank_account" => o.lastTransactionCursor = None
        /\ t = "cursor" => o.key # None
        /\ t = "bank_transaction" => o.account \in Stored(rows, "bank_account")
        /\ t = "sales_order" => o.quotation = None \/ Converts(rows, hot, u, o.quotation, d)
        /\ t = "journal" => o.invoice = None \/ Posts(rows, hot, u, o.invoice, d)

\* An order whose goods have left.
Away == {"shipped", "invoiced"}

\* And one to be updated.
Changed(rows, hot, u, d, t) ==
    LET o == u[d]
    IN  /\ t # "journal"
        /\ t # "production_order" => DOMAIN o = DOMAIN rows[d]
        /\ \A f \in Fixed \cap DOMAIN o \cap DOMAIN rows[d] : o[f] = rows[d][f]
        /\ t = "quotation" /\ d \notin hot =>
            \/ o.order = rows[d].order
            \/ \E x \in DOMAIN u : /\ rows[x].table = "sales_order" /\ rows[x].status = "absent"
                                   /\ u[x].quotation = d
        /\ t = "quotation" /\ d \notin hot /\ rows[d].status = "converted" =>
            o.status = "converted"
        /\ t = "sales_order" /\ d \notin hot /\ rows[d].status \in Away => o.status \in Away
        /\ t = "invoice" /\ d \notin hot =>
            \/ o.status = "accepted" <=> rows[d].status = "accepted"
            \/ \E x \in DOMAIN u : rows[x].table = "journal" /\ u[x].invoice = d

UnitOK(rows, hot, u) ==
    \A d \in DOMAIN u :
        LET t == rows[d].table
        IN  t \in Lasting =>
                /\ d \notin hot => Right(t, u[d])
                /\ IF rows[d].status = "absent" THEN Fresh(rows, hot, u, d, t)
                   ELSE Changed(rows, hot, u, d, t)

\* The completed operations of an order, and that one of those that come last made n.
DoneOf(rows, o) ==
    {w \in Stored(rows, "work_order") :
        rows[w].productionOrder = o /\ rows[w].status = "completed"}

LastMade(rows, o, n) ==
    \E w \in DoneOf(rows, o) :
        /\ \A v \in DoneOf(rows, o) : rows[v].sequenceNumber <= rows[w].sequenceNumber
        /\ n = rows[w].quantityProduced

\* What the last of its operations made is all that is saved to a production order,
\* and by itself.
Reports(rows, hot, txs) ==
    \A i \in 1 .. Len(txs) : \A o \in DOMAIN txs[i] :
        rows[o].table = "production_order" /\ rows[o].status # "absent" =>
            /\ Len(txs) = 1
            /\ o \notin hot => LastMade(rows, o, txs[i][o].quantityProduced)

\* A request that saves an operation has its order in hand, that inserts a
\* transaction of the bank its account.
Belongs(rows, u, E) ==
    \A d \in DOMAIN u :
        /\ rows[d].table = "work_order" /\ rows[d].status # "absent" =>
               rows[d].productionOrder \in E
        /\ rows[d].table = "bank_transaction" /\ rows[d].status = "absent" =>
               u[d].account \in E

\* A sync of account a: its transaction, unless that is there or its provider has
\* none, and then the cursor.
Syncs(rows, txs, a) ==
    LET last == txs[Len(txs)]
    IN  /\ DOMAIN last = {a} /\ last[a].lastTransactionCursor # None
        /\ \/ Len(txs) = 1 /\ HasGiven(rows, a)
           \/ /\ Len(txs) = 2 /\ ImportsOf(rows, a) = {} /\ Given(rows[a].psd2Provider) = 1
              /\ \E t \in DOMAIN txs[1] :
                    /\ DOMAIN txs[1] = {t} /\ txs[1][t].account = a
                    /\ rows[t].table = "bank_transaction" /\ rows[t].status = "absent"

\* The handlers that have an account in hand: one that inserts it, one that syncs it.
Banking(rows, hot, D, txs, then) ==
    \A a \in D \ hot : rows[a].table = "bank_account" =>
        /\ then = "idle"
        /\ IF rows[a].status = "absent" THEN Len(txs) = 1 ELSE Syncs(rows, txs, a)

Importing(rows, hot, r) ==
    /\ Banking(rows, hot, DOMAIN r.base, r.todo, r.then)
    /\ \A a \in DOMAIN r.base \ hot :
           rows[a].table = "bank_account" => r.pc \in {"reload", "write"}

\* What was read of a row, however stale, has its columns and what never changes.
ReadOK(rows, d, b) ==
    /\ Rowed(b) /\ b.table = rows[d].table
    /\ rows[d].table \in Lasting /\ b.status # "absent" =>
        /\ rows[d].status # "absent" /\ DOMAIN b = DOMAIN rows[d]
        /\ \A f \in Fixed \cap DOMAIN b : b[f] = rows[d][f]

\* Where a request goes on.
GoesOn(rows, r) ==
    /\ r.then = "convert" => r.todo = <<>>
    /\ r.pc = "convert" => \A d \in DOMAIN r.base :
        /\ rows[d].table = "quotation" => r.base[d].status = "accepted" /\ r.base[d].order = None
        /\ rows[d].table = "sales_order" => rows[d].status = "absent"
    /\ "produced" \in {r.pc, r.then} => \A d \in DOMAIN r.base : rows[d].table = "work_order" =>
        /\ rows[d].status # "absent" /\ r.base[d].status # "absent"
        /\ rows[d].productionOrder \in DOMAIN r.base
    /\ {"project", "refresh"} \cap {r.pc, r.then} # {} =>
        \E d \in DOMAIN r.base : rows[d].table = "cursor"

PendingOK(rows, hot, r) ==
    /\ \A i \in 1 .. Len(r.todo) : UnitOK(rows, hot, r.todo[i])
    /\ \A i, j \in 1 .. Len(r.todo) : i # j => DOMAIN r.todo[i] \cap DOMAIN r.todo[j] = {}
    /\ \A d \in DOMAIN r.base : ReadOK(rows, d, r.base[d])
    /\ \A i \in 1 .. Len(r.todo) : Belongs(rows, r.todo[i], DOMAIN r.base)
    /\ Reports(rows, hot, r.todo)
    /\ GoesOn(rows, r)

\* A bank account no request has in hand has the transactions it should have.
ImportInv ==
    /\ \A a \in Stored(db, "bank_account") \ (contended \cup cut) : Settled(a) => Imported(db, a)
    /\ \A p \in Workers : Importing(db, contended \cup cut, req[p])

\* The read model of a projection is written by the runs of its cursor alone: the rows
\* of a transaction that are inserted, and those that are deleted.
Models == {"cursor", "read_model"}

Brought(u) == {d \in DOMAIN u : u[d].status # "absent"}

\* A transaction that replaces the read model of a projection, its result being `seen`.
Swaps(rows, hot, u, c, seen) ==
    /\ \A d \in DOMAIN u : rows[d].table = "read_model"
    /\ \A d \in Brought(u) : /\ rows[d].status = "absent" /\ "projection" \in DOMAIN u[d]
                             /\ u[d].projection = rows[c].key
    /\ \A d \in DOMAIN u \ Brought(u) : u[d] = Absent("read_model")
    /\ c \notin hot => ModelIn(rows, rows[c].key) \subseteq DOMAIN u \ Brought(u)
    /\ seen = {u[d] : d \in Brought(u)}

\* A run has its cursor in hand, and rows of its projection, and is at one of its stages:
\* the cursor is to be saved as running; the projection is to read the source; its rows
\* are in memory; they, or the cursor alone, are to be saved.
Starts(rows, r, c) ==
    /\ r.pc \in {"reload", "write"} /\ r.then = "project" /\ DOMAIN r.base = {c}
    /\ Len(r.todo) = 1 /\ DOMAIN r.todo[1] = {c} /\ r.todo[1][c].status = "running"

Underway(rows, hot, r, c) ==
    /\ rows[c].status # "absent" /\ r.base[c].status # "absent"
    /\ c \notin hot => rows[c].status = "running"

Projects(rows, hot, r, c) ==
    /\ r.pc = "project" /\ r.then = "project" /\ r.todo = <<>> /\ DOMAIN r.base = {c}
    /\ Underway(rows, hot, r, c)

Refreshes(rows, hot, r, c) ==
    /\ r.pc = "refresh" /\ r.then = "refresh" /\ r.todo = <<>>
    /\ Underway(rows, hot, r, c)
    /\ \A d \in DOMAIN r.base \ {c} :
        /\ rows[d].status = "absent" /\ r.base[d].status # "absent"
        /\ "projection" \in DOMAIN r.base[d] /\ r.base[d].projection = rows[c].key

Finishes(rows, hot, r, c) ==
    /\ r.pc \in {"reload", "write"} /\ r.then = "idle" /\ rows[c].status # "absent"
    /\ Len(r.todo) \in 1 .. 2
    /\ LET done == r.todo[Len(r.todo)]
       IN  /\ DOMAIN done = {c}
           /\ IF Len(r.todo) = 1
              THEN c \notin hot /\ done[c].status = "idle" /\ done[c].rowsProjected > 0 =>
                       ResultIn(rows, rows[c].key) = done[c].seen
              ELSE /\ Swaps(rows, hot, r.todo[1], c, done[c].seen)
                   /\ c \notin hot => rows[c].status = "running"

IsRun(rows, hot, r, c) ==
    /\ rows[c].table = "cursor"
    /\ \A d \in DOMAIN r.base \ {c} : rows[d].table = "read_model"
    /\ \A d \in DOMAIN r.base \ {c} : rows[d].status # "absent" =>
           rows[c].status # "absent" /\ rows[d].projection = rows[c].key
    /\ \/ Starts(rows, r, c) \/ Projects(rows, hot, r, c)
       \/ Refreshes(rows, hot, r, c) \/ Finishes(rows, hot, r, c)
    /\ c \notin hot /\ r.pc = "write" =>
           \A d \in DOMAIN r.todo[1] : r.dirty[d] = ToWrite(r.todo[1][d], rows[d])

Running(rows, hot, r) ==
    (\E d \in DOMAIN r.base : rows[d].table \in Models) =>
        \E c \in DOMAIN r.base : IsRun(rows, hot, r, c)

\* The rows it is going to insert.
Brings(rows, r) ==
    {d \in DOMAIN r.base :
        /\ rows[d].table = "read_model"
        /\ r.pc = "refresh" \/ (Len(r.todo) = 2 /\ d \in Brought(r.todo[1]))}

\* Nobody else has them in hand; and nothing of what it has, if not its cursor.
Alone(rows, hot, r, s) ==
    /\ DOMAIN s.base \cap Brings(rows, r) = {}
    /\ \A c \in DOMAIN r.base \ hot :
           rows[c].table = "cursor" => DOMAIN r.base \cap DOMAIN s.base = {}

ModelInv ==
    /\ ModelsOK(db, contended)
    /\ \A p \in Workers : Running(db, contended, req[p])
    /\ \A p, q \in Workers : p # q => Alone(db, contended, req[p], req[q])

BackOfficeInv ==
    /\ Held({}, Lasting)
    /\ Sound(db, contended)
    /\ \A p \in Workers : PendingOK(db, contended, req[p])
    /\ ImportInv
    /\ ModelInv
    /\ calls \in 0 .. MaxCalls /\ now \in Nat
-----------------------------------------------------------------------------
(* What was decided stays right while others commit.                       *)

LEMMA SameRows == \A t : Rows(t) = Stored(db, t)
  BY DEF Rows, IdsOf, Present, Stored

\* Rows that last stay, with their columns and what never changes of them.
Grown(rows, after) ==
    /\ DOMAIN after = DOMAIN rows
    /\ \A d \in DOMAIN rows : after[d].table = rows[d].table
    /\ \A d \in DOMAIN rows : rows[d].table \in Lasting /\ rows[d].status # "absent" =>
        /\ after[d].status # "absent" /\ DOMAIN after[d] = DOMAIN rows[d]
        /\ \A f \in Fixed \cap DOMAIN rows[d] : after[d][f] = rows[d][f]

LEMMA TablesLast ==
    /\ {"quotation", "sales_order", "ddt", "employee", "production_order", "work_order",
        "customer", "account", "attendance", "invoice", "journal", "bank_account", "bank_transaction",
        "cursor"} = Lasting
    /\ Numbered \subseteq Lasting
  BY DEF Lasting, Numbered

LEMMA GrownStored ==
    ASSUME NEW rows, NEW after, Grown(rows, after), IsFiniteSet(DOMAIN rows), NEW t \in Lasting
    PROVE  /\ Stored(rows, t) \subseteq Stored(after, t)
           /\ IsFiniteSet(Stored(rows, t)) /\ IsFiniteSet(Stored(after, t))
           /\ Cardinality(Stored(rows, t)) \in Nat /\ Cardinality(Stored(after, t)) \in Nat
           /\ Cardinality(Stored(rows, t)) <= Cardinality(Stored(after, t))
  <1>1. Stored(rows, t) \subseteq Stored(after, t) BY DEF Grown, Stored
  <1>2. Stored(rows, t) \subseteq DOMAIN rows /\ Stored(after, t) \subseteq DOMAIN rows
    BY DEF Grown, Stored
  <1>3. IsFiniteSet(Stored(rows, t)) /\ IsFiniteSet(Stored(after, t)) BY <1>2, FS_Subset
  <1> QED BY <1>1, <1>3, FS_Subset, FS_CardinalityType

LEMMA Hotter ==
    ASSUME NEW rows, NEW hot, NEW hotter, hot \subseteq hotter, NEW u, UnitOK(rows, hot, u)
    PROVE  UnitOK(rows, hotter, u)
  <1> SUFFICES ASSUME NEW d \in DOMAIN u, rows[d].table \in Lasting
               PROVE  /\ d \notin hotter => Right(rows[d].table, u[d])
                      /\ IF rows[d].status = "absent" THEN Fresh(rows, hotter, u, d, rows[d].table)
                         ELSE Changed(rows, hotter, u, d, rows[d].table)
    BY DEF UnitOK
  <1>1. d \notin hotter => Right(rows[d].table, u[d]) BY DEF UnitOK
  <1>2. ASSUME rows[d].status = "absent" PROVE Fresh(rows, hotter, u, d, rows[d].table)
    <2>1. Fresh(rows, hot, u, d, rows[d].table) BY <1>2 DEF UnitOK
    <2> QED BY <2>1 DEF Fresh, Converts, Posts
  <1>3. ASSUME rows[d].status # "absent" PROVE Changed(rows, hotter, u, d, rows[d].table)
    <2>1. Changed(rows, hot, u, d, rows[d].table) BY <1>3 DEF UnitOK
    <2> QED BY <2>1 DEF Changed
  <1> QED BY <1>1, <1>2, <1>3

\* No invoice is lost to its year, no code to its account, no customer's column changed.
LEMMA GrownDated ==
    ASSUME NEW rows, NEW after, NEW hot, Grown(rows, after), Sound(rows, hot), NEW y
    PROVE  /\ DatedIn(rows, y) \subseteq DatedIn(after, y)
           /\ \A i \in DatedIn(rows, y) : after[i].key = rows[i].key
           /\ IsFiniteSet(DatedIn(rows, y)) /\ IsFiniteSet(DatedIn(after, y))
           /\ Cardinality(DatedIn(rows, y)) \in Nat /\ Cardinality(DatedIn(after, y)) \in Nat
           /\ Cardinality(DatedIn(rows, y)) <= Cardinality(DatedIn(after, y))
  <1>1. IsFiniteSet(DOMAIN rows) BY DEF Sound
  <1>2. \A i \in Stored(rows, "invoice") :
            i \in Stored(after, "invoice") /\ after[i].year = rows[i].year /\ after[i].key = rows[i].key
    <2> SUFFICES ASSUME NEW i \in Stored(rows, "invoice")
                 PROVE  /\ i \in Stored(after, "invoice")
                        /\ after[i].year = rows[i].year /\ after[i].key = rows[i].key
      OBVIOUS
    <2>1. i \in DOMAIN rows /\ rows[i].table = "invoice" /\ rows[i].status # "absent" BY DEF Stored
    <2>2. {"key", "year"} \subseteq DOMAIN rows[i] BY <2>1, TablesLast DEF Sound, Columns
    <2> QED BY <2>1, <2>2, TablesLast DEF Grown, Fixed, Stored
  <1>3. DatedIn(rows, y) \subseteq DatedIn(after, y) /\ \A i \in DatedIn(rows, y) : after[i].key = rows[i].key
    BY <1>2 DEF DatedIn
  <1>4. DatedIn(rows, y) \subseteq DOMAIN rows /\ DatedIn(after, y) \subseteq DOMAIN rows
    BY DEF DatedIn, Stored, Grown
  <1>5. IsFiniteSet(DatedIn(rows, y)) /\ IsFiniteSet(DatedIn(after, y)) BY <1>1, <1>4, FS_Subset
  <1> QED BY <1>3, <1>5, FS_Subset, FS_CardinalityType

LEMMA GrownAccounts ==
    ASSUME NEW rows, NEW after, NEW hot, Grown(rows, after), Sound(rows, hot), NEW c, CodeIn(rows, c)
    PROVE  CodeIn(after, c)
  <1>1. PICK b \in Stored(rows, "account") : rows[b].key = c BY DEF CodeIn
  <1>2. b \in DOMAIN rows /\ rows[b].table = "account" /\ rows[b].status # "absent" BY DEF Stored
  <1>3. "key" \in DOMAIN rows[b] BY <1>2, TablesLast DEF Sound, Columns
  <1>4. b \in Stored(after, "account") /\ after[b].key = c
    BY <1>1, <1>2, <1>3, TablesLast DEF Grown, Fixed, Stored
  <1> QED BY <1>4 DEF CodeIn

LEMMA SameSplit ==
    ASSUME NEW rows, NEW after, NEW hot, Grown(rows, after), Sound(rows, hot),
           NEW i \in Stored(rows, "invoice")
    PROVE  after[rows[i].customer].splitPayment = rows[rows[i].customer].splitPayment
  <1> DEFINE c == rows[i].customer
  <1>1. c \in Stored(rows, "customer") BY DEF Sound, Referring
  <1> HIDE DEF c
  <1>2. c \in DOMAIN rows /\ rows[c].table = "customer" /\ rows[c].status # "absent"
    BY <1>1 DEF Stored
  <1>3. "splitPayment" \in DOMAIN rows[c] BY <1>2, TablesLast DEF Sound, Columns
  <1>4. after[c].splitPayment = rows[c].splitPayment BY <1>2, <1>3, TablesLast DEF Grown, Fixed
  <1> QED BY <1>4 DEF c

LEMMA StillOK ==
    ASSUME NEW rows, NEW after, NEW hot, NEW u, DOMAIN u \subseteq DOMAIN rows,
           Grown(rows, after), IsFiniteSet(DOMAIN rows),
           \A d \in DOMAIN u : rows[d].table \in Lasting =>
               (d \in hot /\ rows[d].status # "absent") \/ after[d] = rows[d],
           Sound(rows, hot), UnitOK(rows, hot, u)
    PROVE  UnitOK(after, hot, u)
  <1> SUFFICES ASSUME NEW d \in DOMAIN u, after[d].table \in Lasting
               PROVE  /\ d \notin hot => Right(after[d].table, u[d])
                      /\ IF after[d].status = "absent" THEN Fresh(after, hot, u, d, after[d].table)
                         ELSE Changed(after, hot, u, d, after[d].table)
    BY DEF UnitOK
  <1> DEFINE t == rows[d].table
  <1>0. after[d].table = t /\ t \in Lasting /\ d \in DOMAIN rows BY DEF Grown
  <1> HIDE DEF t
  <1>1. d \notin hot => Right(t, u[d]) BY <1>0 DEF UnitOK, t
  <1>2. \A x \in DOMAIN u : /\ x \in DOMAIN rows /\ after[x].table = rows[x].table
                            /\ rows[x].table \in Lasting => (rows[x].status = "absent" <=> after[x].status = "absent")
    BY DEF Grown
  <1>3. \A l \in Lasting : /\ Stored(rows, l) \subseteq Stored(after, l)
                           /\ Cardinality(Stored(rows, l)) \in Nat
                           /\ Cardinality(Stored(after, l)) \in Nat
                           /\ Cardinality(Stored(rows, l)) <= Cardinality(Stored(after, l))
    BY GrownStored
  <1>4. ASSUME after[d].status = "absent" PROVE Fresh(after, hot, u, d, t)
    <2>1. Fresh(rows, hot, u, d, t) BY <1>0, <1>2, <1>4 DEF UnitOK, t
    <2>2. \A q : q \in DOMAIN u /\ q \in Stored(rows, "quotation") /\ q \notin hot => after[q] = rows[q]
      BY TablesLast DEF Stored
    <2>3. \A i : i \in DOMAIN u /\ i \in Stored(rows, "invoice") /\ i \notin hot => after[i] = rows[i]
      BY TablesLast DEF Stored
    <2>4. \A x \in DOMAIN u : after[x].table = t /\ after[x].status = "absent" => x = d
      BY <1>0, <1>2, <2>1 DEF Fresh
    <2>5. t \in Numbered => u[d].key \in 1 .. Cardinality(Stored(after, t)) + 1
      <3> SUFFICES ASSUME t \in Numbered PROVE u[d].key \in 1 .. Cardinality(Stored(after, t)) + 1
        OBVIOUS
      <3> DEFINE k == u[d].key
                 m == Cardinality(Stored(rows, t))
                 n == Cardinality(Stored(after, t))
      <3>1. k \in 1 .. m + 1 /\ m \in Nat /\ n \in Nat /\ m <= n BY <1>0, <1>3, <2>1 DEF Fresh
      <3> HIDE DEF k, m, n
      <3>2. k \in 1 .. n + 1 BY <3>1
      <3> QED BY <3>2 DEF k, n
    <2>8. ASSUME t = "invoice" PROVE InYear(after, u[d])
      <3>1. InYear(rows, u[d]) BY <2>1, <2>8 DEF Fresh
      <3> DEFINE y == u[d].year
                 m == Cardinality(DatedIn(rows, y))
                 n == Cardinality(DatedIn(after, y))
      <3>2. y \in Years BY <3>1 DEF InYear
      <3>3. m \in Nat /\ n \in Nat /\ m <= n BY <3>2, GrownDated
      <3>4. \E k \in 1 .. m + 1 : u[d].key = <<k, y>> BY <3>1 DEF InYear
      <3> HIDE DEF m, n
      <3>5. \E k \in 1 .. n + 1 : u[d].key = <<k, y>> BY <3>3, <3>4
      <3> QED BY <3>2, <3>5 DEF InYear, n
    <2>9. t = "account" => UnderParent(after, u[d])
      BY <2>1, GrownAccounts DEF Fresh, UnderParent
    <2>6. t = "sales_order" => u[d].quotation = None \/ Converts(after, hot, u, u[d].quotation, d)
      BY <1>3, <2>1, <2>2, TablesLast DEF Fresh, Converts
    <2>7. t = "journal" => u[d].invoice = None \/ Posts(after, hot, u, u[d].invoice, d)
      <3> SUFFICES ASSUME t = "journal", u[d].invoice # None
                   PROVE  Posts(after, hot, u, u[d].invoice, d)
        OBVIOUS
      <3> DEFINE i == u[d].invoice
      <3>1. Posts(rows, hot, u, i, d) BY <2>1 DEF Fresh
      <3>2. i \in Stored(after, "invoice") BY <1>3, <3>1, TablesLast DEF Posts
      <3>3. ASSUME i \notin hot PROVE after[i].status # "accepted" /\ Registers(after, u[d], after[i])
        <4>1. after[i] = rows[i] BY <2>3, <3>1, <3>3 DEF Posts
        <4>2. rows[i].status # "accepted" /\ Registers(rows, u[d], rows[i]) BY <3>1, <3>3 DEF Posts
        <4>3. i \in Stored(rows, "invoice") BY <3>1 DEF Posts
        <4>4. after[rows[i].customer].splitPayment = rows[rows[i].customer].splitPayment
          BY <4>3, SameSplit
        <4> QED BY <4>1, <4>2, <4>4 DEF Registers
      <3> QED BY <3>1, <3>2, <3>3 DEF Posts
    <2>10. t = "invoice" => u[d].customer \in Stored(after, "customer")
      BY <1>3, <2>1, TablesLast DEF Fresh
    <2> QED BY <1>3, <2>1, <2>4, <2>5, <2>6, <2>7, <2>8, <2>9, <2>10, TablesLast DEF Fresh
  <1>5. ASSUME after[d].status # "absent" PROVE Changed(after, hot, u, d, t)
    <2>1. Changed(rows, hot, u, d, t) BY <1>0, <1>2, <1>5 DEF UnitOK, t
    <2>2. rows[d].status # "absent" BY <1>0, <1>2, <1>5 DEF t
    <2>3. /\ DOMAIN after[d] = DOMAIN rows[d]
          /\ \A f \in Fixed \cap DOMAIN rows[d] : after[d][f] = rows[d][f]
      BY <1>0, <2>2 DEF Grown, t
    <2>4. d \notin hot => after[d] = rows[d] BY <1>0 DEF t
    <2>5. t = "quotation" /\ d \notin hot =>
            \/ u[d].order = after[d].order
            \/ \E x \in DOMAIN u : /\ after[x].table = "sales_order" /\ after[x].status = "absent"
                                   /\ u[x].quotation = d
      BY <1>2, <2>1, <2>4, TablesLast DEF Changed
    <2>6. t = "invoice" /\ d \notin hot =>
            \/ u[d].status = "accepted" <=> after[d].status = "accepted"
            \/ \E x \in DOMAIN u : after[x].table = "journal" /\ u[x].invoice = d
      BY <1>2, <2>1, <2>4 DEF Changed
    <2> QED BY <2>1, <2>3, <2>4, <2>5, <2>6 DEF Changed
  <1> QED BY <1>0, <1>1, <1>4, <1>5
-----------------------------------------------------------------------------
(* A COMMIT: the rows `after` it, from those before it and from the unit.  *)

Commits(rows, after, hot, u) ==
    /\ DOMAIN u \subseteq DOMAIN rows
    /\ Grown(rows, after)
    /\ \A d \in DOMAIN rows \ DOMAIN u : after[d] = rows[d]
    /\ \A d \in DOMAIN u : rows[d].status = "absent" => after[d] = u[d]
    /\ \A d \in DOMAIN u : rows[d].table \in Lasting => after[d].status # "absent"
    /\ \A d \in DOMAIN u \ hot :
        rows[d].status # "absent" /\ rows[d].table \in Lasting \ {"production_order"} =>
            DOMAIN u[d] = DOMAIN after[d] /\ \A f \in DOMAIN u[d] : after[d][f] = u[d][f]

LEMMA Commit ==
    ASSUME BackOfficeInv, NEW p \in Workers, Write(p)
    PROVE  UnitOK(db, contended, Unit(p)) /\ Commits(db, db', contended, Unit(p))
  <1> DEFINE u == Unit(p)
  <1>1. Held({}, Lasting) BY DEF BackOfficeInv
  <1>2. UnitOK(db, contended, u)
    <2>1. RequestFits(db, contended, req[p], {}, Lasting) /\ req[p].pc \in {"reload", "write"}
      BY <1>1 DEF Held, Write
    <2>2. u = req[p].todo[1] /\ Len(req[p].todo) \in Nat \ {0} BY <2>1, NextUnit DEF Unit
    <2> QED BY <2>2 DEF BackOfficeInv, PendingOK
  <1>3. /\ UnitFits(db, u, DOMAIN req[p].base, {}, Lasting)
        /\ DOMAIN u \subseteq DOMAIN db /\ DOMAIN db' = DOMAIN db
        /\ \A d \in DOMAIN db \ DOMAIN u : db'[d] = db[d]
        /\ \A d \in DOMAIN u : db[d].status = "absent" => db'[d] = u[d]
        /\ \A d \in DOMAIN u : db[d].status # "absent" =>
               /\ DOMAIN db'[d] = DOMAIN db[d]
               /\ \A f \in DOMAIN db[d] : db'[d][f] = db[d][f]
                           \/ (f \in DOMAIN u[d] /\ db'[d][f] = u[d][f])
        /\ \A d \in DOMAIN u \ contended : db'[d] = Updated(db[d], u[d])
    BY <1>1, WriteSaves
  <1>4. /\ \A d \in DOMAIN db : Rowed(db'[d]) /\ db'[d].table = db[d].table
        /\ \A d \in DOMAIN db : db[d].table \in Lasting /\ db[d].status # "absent"
                                   => db'[d].status # "absent"
        /\ \A d \in DOMAIN u : db[d].table \in Lasting => db'[d].status # "absent"
    BY <1>1, WriteKeeps
  <1> HIDE DEF u
  <1>5. \A d \in DOMAIN u : db[d].table \in Lasting /\ db[d].status # "absent" =>
            Changed(db, contended, u, d, db[d].table)
    BY <1>2 DEF UnitOK
  <1>6. Grown(db, db')
    <2> SUFFICES ASSUME NEW d \in DOMAIN db, db[d].table \in Lasting, db[d].status # "absent"
                 PROVE  /\ DOMAIN db'[d] = DOMAIN db[d]
                        /\ \A f \in Fixed \cap DOMAIN db[d] : db'[d][f] = db[d][f]
      BY <1>3, <1>4 DEF Grown
    <2>1. CASE d \notin DOMAIN u BY <1>3, <2>1
    <2>2. CASE d \in DOMAIN u
      <3>1. \A f \in Fixed \cap DOMAIN u[d] \cap DOMAIN db[d] : u[d][f] = db[d][f]
        BY <1>5, <2>2 DEF Changed
      <3> QED BY <1>3, <2>2, <3>1
    <2> QED BY <2>1, <2>2
  <1>7. ASSUME NEW d \in DOMAIN u \ contended, db[d].status # "absent",
               db[d].table \in Lasting \ {"production_order"}
        PROVE  DOMAIN u[d] = DOMAIN db'[d] /\ \A f \in DOMAIN u[d] : db'[d][f] = u[d][f]
    <2>1. DOMAIN u[d] = DOMAIN db[d] BY <1>5, <1>7 DEF Changed
    <2>2. db'[d] = [f \in DOMAIN db[d] |-> IF f \in DOMAIN u[d] THEN u[d][f] ELSE db[d][f]]
      BY <1>3, <1>7 DEF Updated
    <2> QED BY <2>1, <2>2
  <1>8. Commits(db, db', contended, u) BY <1>3, <1>4, <1>6, <1>7 DEF Commits
  <1> QED BY <1>2, <1>8 DEF u

\* The rows of a table after it: those there were and the one inserted, if any.
LEMMA Inserted ==
    ASSUME NEW rows, NEW after, NEW hot, NEW u, UnitOK(rows, hot, u),
           Commits(rows, after, hot, u), NEW t \in Lasting
    PROVE  /\ \A d : d \in Stored(after, t) <=>
                  \/ d \in Stored(rows, t)
                  \/ d \in DOMAIN u /\ rows[d].table = t /\ rows[d].status = "absent"
           /\ \A d \in Stored(rows, t) : \A f \in Fixed \cap DOMAIN rows[d] : after[d][f] = rows[d][f]
           /\ \A d \in Stored(rows, t) : DOMAIN after[d] = DOMAIN rows[d]
           /\ \A d \in DOMAIN u : rows[d].table = t /\ rows[d].status = "absent" =>
                  Fresh(rows, hot, u, d, t) /\ after[d] = u[d]
           /\ \A d \in DOMAIN u : rows[d].table = t /\ rows[d].status # "absent" =>
                  Changed(rows, hot, u, d, t)
  <1>1. \A d \in DOMAIN u : rows[d].table = t /\ rows[d].status = "absent" =>
            Fresh(rows, hot, u, d, t) /\ after[d] = u[d]
    BY DEF UnitOK, Commits
  <1>2. \A d \in DOMAIN u : rows[d].table = t /\ rows[d].status # "absent" =>
            Changed(rows, hot, u, d, t)
    BY DEF UnitOK
  <1>3. \A d \in Stored(rows, t) : /\ DOMAIN after[d] = DOMAIN rows[d]
                                   /\ \A f \in Fixed \cap DOMAIN rows[d] : after[d][f] = rows[d][f]
    BY DEF Commits, Grown, Stored
  <1>4. ASSUME NEW d
        PROVE  d \in Stored(after, t) <=>
                  \/ d \in Stored(rows, t)
                  \/ d \in DOMAIN u /\ rows[d].table = t /\ rows[d].status = "absent"
    BY DEF Commits, Grown, Stored
  <1> QED BY <1>1, <1>2, <1>3, <1>4

LEMMA SameRight ==
    ASSUME NEW t, NEW a, NEW b, Right(t, a), DOMAIN a = DOMAIN b,
           \A f \in DOMAIN a : b[f] = a[f], t \in Lasting => Columns(t) \cup {"status"} \subseteq DOMAIN a
    PROVE  Right(t, b)
  <1>1. ASSUME t = "attendance" PROVE HoursRight(b)
    <2>1. {"status", "clockInAt", "clockOutAt", "breakMinutes", "workedHours"} \subseteq DOMAIN a
      BY <1>1, TablesLast DEF Columns
    <2>2. /\ b.status = a.status /\ b.clockInAt = a.clockInAt /\ b.clockOutAt = a.clockOutAt
          /\ b.breakMinutes = a.breakMinutes /\ b.workedHours = a.workedHours
      BY <2>1
    <2> QED BY <1>1, <2>2 DEF Right, HoursRight
  <1>2. ASSUME t = "quotation" PROVE QuotationRight(b)
    <2>1. {"status", "sentAt", "acceptedAt", "rejectedAt", "order"} \subseteq DOMAIN a
      BY <1>2, TablesLast DEF Columns
    <2>2. /\ b.status = a.status /\ b.sentAt = a.sentAt /\ b.acceptedAt = a.acceptedAt
          /\ b.rejectedAt = a.rejectedAt /\ b.order = a.order
      BY <2>1
    <2> QED BY <1>2, <2>2 DEF Right, QuotationRight
  <1>3. ASSUME t = "ddt" PROVE DdtRight(b)
    <2>1. {"status", "shippedAt", "deliveredAt", "invoice"} \subseteq DOMAIN a
      BY <1>3, TablesLast DEF Columns
    <2>2. /\ b.status = a.status /\ b.shippedAt = a.shippedAt /\ b.deliveredAt = a.deliveredAt
          /\ b.invoice = a.invoice
      BY <2>1
    <2> QED BY <1>3, <2>2 DEF Right, DdtRight
  <1>4. ASSUME t = "invoice" PROVE AmountsRight(b)
    <2>1. {"lines", "net", "tax"} \subseteq DOMAIN a BY <1>4, TablesLast DEF Columns
    <2>2. b.lines = a.lines /\ b.net = a.net /\ b.tax = a.tax BY <2>1
    <2> QED BY <1>4, <2>2 DEF Right, AmountsRight
  <1> QED BY <1>1, <1>2, <1>3, <1>4 DEF Right
-----------------------------------------------------------------------------
(* It leaves the database sound.                                           *)

LEMMA StillRight ==
    ASSUME NEW rows, NEW after, NEW hot, NEW u, UnitOK(rows, hot, u),
           Commits(rows, after, hot, u), Sound(rows, hot),
           NEW d \in DOMAIN rows \ hot, after[d].status # "absent", Rowed(after[d])
    PROVE  Right(rows[d].table, after[d])
  <1> DEFINE t == rows[d].table
  <1>1. CASE d \notin DOMAIN u
    <2>1. after[d] = rows[d] BY <1>1 DEF Commits
    <2> QED BY <1>1, <2>1 DEF Sound
  <1>2. CASE t \notin Lasting
    <2>1. t \notin {"attendance", "quotation", "ddt", "invoice"} BY <1>2, TablesLast
    <2> QED BY <2>1 DEF Right
  <1>3. CASE d \in DOMAIN u /\ t \in Lasting /\ rows[d].status = "absent"
    <2>1. after[d] = u[d] BY <1>3 DEF Commits
    <2> QED BY <1>3, <2>1 DEF UnitOK
  <1>4. CASE d \in DOMAIN u /\ t \in Lasting /\ rows[d].status # "absent"
    <2>1. CASE t = "production_order" BY <2>1 DEF Right
    <2>2. CASE t # "production_order"
      <3>1. DOMAIN u[d] = DOMAIN after[d] /\ \A f \in DOMAIN u[d] : after[d][f] = u[d][f]
        BY <1>4, <2>2 DEF Commits
      <3>2. DOMAIN after[d] = DOMAIN rows[d] /\ Columns(t) \subseteq DOMAIN rows[d]
        BY <1>4 DEF Commits, Grown, Sound
      <3>3. Right(t, u[d]) BY <1>4 DEF UnitOK
      <3>4. t \in Lasting => Columns(t) \cup {"status"} \subseteq DOMAIN u[d]
        BY <3>1, <3>2 DEF Rowed
      <3> HIDE DEF t
      <3>5. Right(t, after[d]) BY <3>1, <3>3, <3>4, SameRight
      <3> QED BY <3>5 DEF t
    <2> QED BY <2>1, <2>2
  <1> QED BY <1>1, <1>2, <1>3, <1>4

\* The unique index has no value of a unit in another row that lasts.
Unique(rows, u) ==
    \A d \in DOMAIN u, x \in DOMAIN rows :
        /\ rows[d].table \in Lasting /\ rows[x].table = rows[d].table
        /\ rows[x].status # "absent" /\ x # d
        /\ "key" \in DOMAIN u[d] /\ "key" \in DOMAIN rows[x] /\ u[d].key # None
        => u[d].key # rows[x].key

LEMMA NotTaken ==
    ASSUME BackOfficeInv, NEW p \in Workers, Write(p), UnitFits(db, Unit(p), DOMAIN req[p].base, {}, Lasting)
    PROVE  Unique(db, Unit(p))
  <1> SUFFICES ASSUME NEW d \in DOMAIN Unit(p), NEW x \in DOMAIN db,
                      db[d].table \in Lasting, db[x].table = db[d].table,
                      db[x].status # "absent", x # d,
                      "key" \in DOMAIN Unit(p)[d], "key" \in DOMAIN db[x], Unit(p)[d].key # None,
                      Unit(p)[d].key = db[x].key
               PROVE  FALSE
    BY DEF Unique
  <1>1. x \in Rows(db[d].table) BY DEF Rows, IdsOf, Present
  <1>2. x \notin Deleted(p)
    <2> SUFFICES ASSUME x \in DOMAIN Unit(p), "status" \in DOMAIN Unit(p)[x] PROVE Unit(p)[x].status # "absent"
      BY DEF Deleted
    <2> QED BY DEF UnitFits, ObjectFits
  <1>3. Taken(p) BY <1>1, <1>2 DEF Taken, UniqueColumns
  <1> QED BY <1>3 DEF Write

LEMMA StillInOrder ==
    ASSUME NEW rows, NEW after, NEW hot, NEW u, UnitOK(rows, hot, u),
           Commits(rows, after, hot, u), Sound(rows, hot), Unique(rows, u),
           NEW t \in Numbered
    PROVE  InOrder(after, t)
  <1> DEFINE S == Stored(rows, t)
             T == Stored(after, t)
             m == Cardinality(S)
  <1>0. t \in Lasting /\ "key" \in Columns(t) /\ "key" \in Fixed
    BY TablesLast DEF Numbered, Columns, Fixed
  <1>1. {rows[d].key : d \in S} = 1 .. m BY DEF Sound, InOrder
  <1>2. IsFiniteSet(S) /\ m \in Nat /\ S \subseteq T
    BY <1>0, GrownStored DEF Commits, Sound
  <1>3. \A d \in S : after[d].key = rows[d].key
    BY <1>0, Inserted DEF Sound, Stored
  <1>4. \A d : d \in T <=> d \in S \/ (d \in DOMAIN u /\ rows[d].table = t /\ rows[d].status = "absent")
    BY <1>0, Inserted
  <1>5. CASE T = S
    <2>1. {after[d].key : d \in S} = {rows[d].key : d \in S} BY <1>3
    <2> HIDE DEF S, T, m
    <2>2. {after[d].key : d \in T} = 1 .. Cardinality(T) BY <1>1, <1>5, <2>1 DEF m
    <2> QED BY <2>2 DEF InOrder, T
  <1>6. CASE T # S
    <2> PICK d \in DOMAIN u : rows[d].table = t /\ rows[d].status = "absent" /\ d \notin S
      BY <1>4, <1>6 DEF Stored
    <2>1. Fresh(rows, hot, u, d, t) /\ after[d] = u[d] BY <1>0, Inserted
    <2>2. T = S \cup {d} BY <1>0, <1>4, <2>1 DEF Fresh
    <2>3. "key" \in DOMAIN u[d] /\ u[d].key \in 1 .. m + 1 BY <1>0, <2>1 DEF Fresh
    <2>4. \A x \in S : u[d].key # rows[x].key
      <3> TAKE x \in S
      <3>1. "key" \in DOMAIN rows[x] /\ x \in DOMAIN rows /\ rows[x].table = t /\ rows[x].status # "absent"
        BY <1>0 DEF Sound, Stored
      <3>2. u[d].key # None
        <4> HIDE DEF m
        <4>1. u[d].key \in Nat BY <1>2, <2>3
        <4> QED BY <4>1, BackOfficeAssumption
      <3> QED BY <1>0, <2>3, <3>1, <3>2 DEF Unique
    <2>5. Cardinality(T) = m + 1 BY <1>2, <2>2, FS_AddElement
    <2>6. {after[x].key : x \in T} = {rows[x].key : x \in S} \cup {u[d].key}
      BY <1>3, <2>1, <2>2
    <2> DEFINE k == u[d].key
               n == Cardinality(T)
               K == {after[x].key : x \in T}
    <2>7. k \notin 1 .. m BY <1>1, <2>4
    <2>8. k \in 1 .. m + 1 /\ K = (1 .. m) \cup {k} /\ n = m + 1 BY <1>1, <2>3, <2>5, <2>6
    <2> HIDE DEF k, n, K, m
    <2>9. k = m + 1 BY <1>2, <2>7, <2>8
    <2>10. K = 1 .. n BY <1>2, <2>8, <2>9
    <2> QED BY <2>10 DEF K, n, InOrder
  <1> QED BY <1>5, <1>6

LEMMA StillReferring ==
    ASSUME NEW rows, NEW after, NEW hot, NEW u, UnitOK(rows, hot, u),
           Commits(rows, after, hot, u), Sound(rows, hot)
    PROVE  /\ Referring(after)
           /\ \A e \in Stored(after, "employee") : after[e].createdAt \in 0 .. MaxCalls
           /\ \A t \in Lasting : \A d \in Stored(after, t) : Columns(t) \subseteq DOMAIN after[d]
  <1>1. \A t \in Lasting : \A d \in Stored(rows, t) : Columns(t) \subseteq DOMAIN rows[d]
    BY DEF Sound, Stored
  <1>2. \A t \in Lasting : Stored(rows, t) \subseteq Stored(after, t) BY Inserted
  <1>3. ASSUME NEW o \in Stored(after, "sales_order")
        PROVE  after[o].quotation \in Stored(after, "quotation") \cup {None}
    <2>1. CASE o \in Stored(rows, "sales_order")
      <3>1. "quotation" \in DOMAIN rows[o] /\ "quotation" \in Fixed
        BY <1>1, <2>1, TablesLast DEF Columns, Fixed
      <3>2. after[o].quotation = rows[o].quotation BY <2>1, <3>1, TablesLast, Inserted
      <3> QED BY <1>2, <2>1, <3>2, TablesLast DEF Sound, Referring
    <2>2. CASE o \notin Stored(rows, "sales_order")
      <3>1. Fresh(rows, hot, u, o, "sales_order") /\ after[o] = u[o] BY <2>2, TablesLast, Inserted
      <3> QED BY <1>2, <3>1, TablesLast DEF Fresh, Converts
    <2> QED BY <2>1, <2>2
  <1>9. ASSUME NEW i \in Stored(after, "invoice")
        PROVE  after[i].customer \in Stored(after, "customer")
    <2>1. CASE i \in Stored(rows, "invoice")
      <3>1. "customer" \in DOMAIN rows[i] /\ "customer" \in Fixed
        BY <1>1, <2>1, TablesLast DEF Columns, Fixed
      <3>2. after[i].customer = rows[i].customer BY <2>1, <3>1, TablesLast, Inserted
      <3> QED BY <1>2, <2>1, <3>2, TablesLast DEF Sound, Referring
    <2>2. CASE i \notin Stored(rows, "invoice")
      <3>1. Fresh(rows, hot, u, i, "invoice") /\ after[i] = u[i] BY <2>2, TablesLast, Inserted
      <3> QED BY <1>2, <3>1, TablesLast DEF Fresh
    <2> QED BY <2>1, <2>2
  <1>4. ASSUME NEW j \in Stored(after, "journal")
        PROVE  after[j].invoice \in Stored(after, "invoice") \cup {None}
    <2>1. CASE j \in Stored(rows, "journal")
      <3>1. j \notin DOMAIN u BY <2>1, TablesLast, Inserted DEF Changed, Stored
      <3>2. after[j] = rows[j] BY <2>1, <3>1 DEF Commits, Stored
      <3> QED BY <1>2, <2>1, <3>2, TablesLast DEF Sound, Referring
    <2>2. CASE j \notin Stored(rows, "journal")
      <3>1. Fresh(rows, hot, u, j, "journal") /\ after[j] = u[j] BY <2>2, TablesLast, Inserted
      <3> QED BY <1>2, <3>1, TablesLast DEF Fresh, Posts
    <2> QED BY <2>1, <2>2
  <1>5. ASSUME NEW w \in Stored(after, "work_order")
        PROVE  after[w].productionOrder \in Stored(after, "production_order")
    <2>1. CASE w \in Stored(rows, "work_order")
      <3>1. "productionOrder" \in DOMAIN rows[w] /\ "productionOrder" \in Fixed
        BY <1>1, <2>1, TablesLast DEF Columns, Fixed
      <3>2. after[w].productionOrder = rows[w].productionOrder BY <2>1, <3>1, TablesLast, Inserted
      <3> QED BY <1>2, <2>1, <3>2, TablesLast DEF Sound, Referring
    <2>2. CASE w \notin Stored(rows, "work_order")
      <3>1. Fresh(rows, hot, u, w, "work_order") /\ after[w] = u[w] BY <2>2, TablesLast, Inserted
      <3> QED BY <1>2, <3>1, TablesLast DEF Fresh
    <2> QED BY <2>1, <2>2
  <1>6. ASSUME NEW x \in Stored(after, "bank_transaction")
        PROVE  after[x].account \in Stored(after, "bank_account")
    <2>1. CASE x \in Stored(rows, "bank_transaction")
      <3>1. "account" \in DOMAIN rows[x] /\ "account" \in Fixed
        BY <1>1, <2>1, TablesLast DEF Columns, Fixed
      <3>2. after[x].account = rows[x].account BY <2>1, <3>1, TablesLast, Inserted
      <3> QED BY <1>2, <2>1, <3>2, TablesLast DEF Sound, Referring
    <2>2. CASE x \notin Stored(rows, "bank_transaction")
      <3>1. Fresh(rows, hot, u, x, "bank_transaction") /\ after[x] = u[x] BY <2>2, TablesLast, Inserted
      <3> QED BY <1>2, <3>1, TablesLast DEF Fresh
    <2> QED BY <2>1, <2>2
  <1>7. ASSUME NEW e \in Stored(after, "employee") PROVE after[e].createdAt \in 0 .. MaxCalls
    <2>1. CASE e \in Stored(rows, "employee")
      <3>1. "createdAt" \in DOMAIN rows[e] /\ "createdAt" \in Fixed
        BY <1>1, <2>1, TablesLast DEF Columns, Fixed
      <3>2. after[e].createdAt = rows[e].createdAt BY <2>1, <3>1, TablesLast, Inserted
      <3> QED BY <2>1, <3>2 DEF Sound
    <2>2. CASE e \notin Stored(rows, "employee")
      <3>1. Fresh(rows, hot, u, e, "employee") /\ after[e] = u[e] BY <2>2, TablesLast, Inserted
      <3> QED BY <3>1 DEF Fresh
    <2> QED BY <2>1, <2>2
  <1>8. ASSUME NEW t \in Lasting, NEW d \in Stored(after, t) PROVE Columns(t) \subseteq DOMAIN after[d]
    <2>1. CASE d \in Stored(rows, t) BY <1>1, <2>1, Inserted
    <2>2. CASE d \notin Stored(rows, t)
      <3>1. Fresh(rows, hot, u, d, t) /\ after[d] = u[d] BY <2>2, Inserted
      <3> QED BY <3>1 DEF Fresh
    <2> QED BY <2>1, <2>2
  <1> QED BY <1>3, <1>4, <1>5, <1>6, <1>7, <1>8, <1>9 DEF Referring

LEMMA StillConvertedOnce ==
    ASSUME NEW rows, NEW after, NEW hot, NEW u, UnitOK(rows, hot, u),
           Commits(rows, after, hot, u), Sound(rows, hot),
           NEW q \in Stored(after, "quotation") \ hot
    PROVE  OrdersOf(after, q) = {after[q].order} \ {None}
  <1>1. \A o : o \in OrdersOf(after, q) <=>
            \/ o \in OrdersOf(rows, q)
            \/ /\ o \in DOMAIN u /\ rows[o].table = "sales_order" /\ rows[o].status = "absent"
               /\ u[o].quotation = q
    <2>1. \A o \in Stored(rows, "sales_order") : after[o].quotation = rows[o].quotation
      <3> TAKE o \in Stored(rows, "sales_order")
      <3>1. "quotation" \in DOMAIN rows[o] /\ "quotation" \in Fixed
        BY TablesLast DEF Sound, Stored, Columns, Fixed
      <3> QED BY <3>1, TablesLast, Inserted
    <2> QED BY <2>1, TablesLast, Inserted DEF OrdersOf
  <1>2. \A o \in DOMAIN u : rows[o].table = "sales_order" /\ rows[o].status = "absent" =>
            /\ Fresh(rows, hot, u, o, "sales_order")
            /\ u[o].quotation = None \/ Converts(rows, hot, u, u[o].quotation, o)
    BY TablesLast, Inserted DEF Fresh
  <1>3. q # None /\ q \in DOMAIN rows /\ rows[q].table = "quotation"
    BY DEF Sound, Commits, Grown, Stored
  <1>4. CASE q \notin Stored(rows, "quotation")
    <2>1. Fresh(rows, hot, u, q, "quotation") /\ after[q] = u[q] BY <1>4, TablesLast, Inserted
    <2>2. after[q].order = None BY <2>1, TablesLast DEF Fresh
    <2>3. OrdersOf(rows, q) = {} BY <1>3, <1>4 DEF Sound, Referring, OrdersOf
    <2>4. OrdersOf(after, q) = {} BY <1>1, <1>2, <1>3, <1>4, <2>3 DEF Converts
    <2> QED BY <2>2, <2>4
  <1>5. CASE q \in Stored(rows, "quotation")
    <2>1. OrdersOf(rows, q) = {rows[q].order} \ {None} BY <1>5 DEF Sound
    <2>2. q \in DOMAIN u => DOMAIN u[q] = DOMAIN after[q] /\ after[q].order = u[q].order
      <3> SUFFICES ASSUME q \in DOMAIN u PROVE DOMAIN u[q] = DOMAIN after[q] /\ after[q].order = u[q].order
        OBVIOUS
      <3>1. DOMAIN u[q] = DOMAIN after[q] /\ \A f \in DOMAIN u[q] : after[q][f] = u[q][f]
        BY <1>5, TablesLast DEF Commits, Stored
      <3>2. "order" \in DOMAIN rows[q] BY <1>5, TablesLast DEF Sound, Stored, Columns
      <3>3. DOMAIN after[q] = DOMAIN rows[q] BY <1>5, TablesLast, Inserted
      <3> QED BY <3>1, <3>2, <3>3
    <2>3. CASE \E o \in DOMAIN u : /\ rows[o].table = "sales_order" /\ rows[o].status = "absent"
                                   /\ u[o].quotation = q
      <3> PICK o \in DOMAIN u : /\ rows[o].table = "sales_order" /\ rows[o].status = "absent"
                                /\ u[o].quotation = q
        BY <2>3
      <3>1. Converts(rows, hot, u, q, o) BY <1>2, <1>3
      <3>2. q \in DOMAIN u /\ u[q].order = o /\ rows[q].order = None BY <3>1 DEF Converts
      <3>3. \A x \in DOMAIN u : rows[x].table = "sales_order" /\ rows[x].status = "absent" => x = o
        BY <1>2 DEF Fresh
      <3>4. o # None BY DEF Commits, Sound
      <3>5. OrdersOf(after, q) = {o} BY <1>1, <2>1, <3>2, <3>3
      <3> QED BY <2>2, <3>2, <3>4, <3>5
    <2>4. CASE ~\E o \in DOMAIN u : /\ rows[o].table = "sales_order" /\ rows[o].status = "absent"
                                    /\ u[o].quotation = q
      <3>1. OrdersOf(after, q) = OrdersOf(rows, q) BY <1>1, <2>4 DEF OrdersOf
      <3>2. after[q].order = rows[q].order
        <4>1. CASE q \notin DOMAIN u BY <1>3, <4>1 DEF Commits
        <4>2. CASE q \in DOMAIN u
          <5>1. rows[q].table = "quotation" /\ rows[q].status # "absent" BY <1>5 DEF Stored
          <5>2. "quotation" \in Lasting BY TablesLast
          <5>3. Changed(rows, hot, u, q, "quotation") BY <4>2, <5>1, <5>2 DEF UnitOK
          <5> QED BY <2>2, <2>4, <4>2, <5>3 DEF Changed
        <4> QED BY <4>1, <4>2
      <3> QED BY <2>1, <3>1, <3>2
    <2> QED BY <2>3, <2>4
  <1> QED BY <1>4, <1>5

LEMMA StillRegistered ==
    ASSUME NEW rows, NEW after, NEW hot, NEW u, UnitOK(rows, hot, u),
           Commits(rows, after, hot, u), Sound(rows, hot),
           NEW i \in Stored(after, "invoice") \ hot, Rowed(after[i])
    PROVE  Registered(after, i)
  <1>1. \A j \in Stored(rows, "journal") : j \notin DOMAIN u /\ after[j] = rows[j]
    <2> TAKE j \in Stored(rows, "journal")
    <2>1. j \notin DOMAIN u
      <3>1. rows[j].table = "journal" /\ rows[j].status # "absent" /\ "journal" \in Lasting
        BY TablesLast DEF Stored
      <3>2. j \in DOMAIN u => Changed(rows, hot, u, j, "journal") BY <3>1 DEF UnitOK
      <3> QED BY <3>2 DEF Changed
    <2> QED BY <2>1 DEF Commits, Stored
  <1>2. \A j : j \in EntriesOf(after, i) <=>
            \/ j \in EntriesOf(rows, i)
            \/ /\ j \in DOMAIN u /\ rows[j].table = "journal" /\ rows[j].status = "absent"
               /\ u[j].invoice = i
    BY <1>1, TablesLast, Inserted DEF EntriesOf
  <1>3. \A j \in DOMAIN u : rows[j].table = "journal" /\ rows[j].status = "absent" =>
            /\ Fresh(rows, hot, u, j, "journal") /\ after[j] = u[j]
            /\ u[j].invoice = None \/ Posts(rows, hot, u, u[j].invoice, j)
    BY TablesLast, Inserted DEF Fresh
  <1>4. i # None /\ i \in DOMAIN rows /\ rows[i].table = "invoice"
    BY DEF Sound, Commits, Grown, Stored
  <1>5. CASE i \notin Stored(rows, "invoice")
    <2>1. Fresh(rows, hot, u, i, "invoice") /\ after[i] = u[i] BY <1>5, TablesLast, Inserted
    <2>2. after[i].status # "accepted" BY <2>1, TablesLast DEF Fresh
    <2>3. EntriesOf(rows, i) = {} BY <1>4, <1>5 DEF Sound, Referring, EntriesOf
    <2>4. EntriesOf(after, i) = {} BY <1>2, <1>3, <1>4, <1>5, <2>3 DEF Posts
    <2> QED BY <2>2, <2>4 DEF Registered
  <1>6. CASE i \in Stored(rows, "invoice")
    <2>1. Registered(rows, i) BY <1>6 DEF Sound
    <2>2. \A e : Registers(rows, e, rows[i]) => Registers(after, e, after[i])
      <3>1. {"net", "tax", "customer"} \subseteq DOMAIN rows[i] /\ {"net", "tax", "customer"} \subseteq Fixed
        BY <1>6, TablesLast DEF Sound, Stored, Columns, Fixed
      <3>2. /\ after[i].net = rows[i].net /\ after[i].tax = rows[i].tax
            /\ after[i].customer = rows[i].customer
        BY <1>6, <3>1, TablesLast, Inserted
      <3>3. after[rows[i].customer].splitPayment = rows[rows[i].customer].splitPayment
        BY <1>6, SameSplit DEF Commits
      <3> QED BY <3>2, <3>3 DEF Registers
    <2>3. i \in DOMAIN u => after[i].status = u[i].status
      <3> SUFFICES ASSUME i \in DOMAIN u PROVE after[i].status = u[i].status
        OBVIOUS
      <3>1. DOMAIN u[i] = DOMAIN after[i] /\ \A f \in DOMAIN u[i] : after[i][f] = u[i][f]
        BY <1>6, TablesLast DEF Commits, Stored
      <3> QED BY <3>1 DEF Rowed
    <2>4. CASE \E j \in DOMAIN u : /\ rows[j].table = "journal" /\ rows[j].status = "absent"
                                   /\ u[j].invoice = i
      <3> PICK j \in DOMAIN u : /\ rows[j].table = "journal" /\ rows[j].status = "absent"
                                /\ u[j].invoice = i
        BY <2>4
      <3>1. Posts(rows, hot, u, i, j) /\ after[j] = u[j] BY <1>3, <1>4
      <3>2. /\ i \in DOMAIN u /\ u[i].status = "accepted" /\ rows[i].status # "accepted"
            /\ Registers(rows, u[j], rows[i])
        BY <3>1 DEF Posts
      <3>3. \A x \in DOMAIN u : rows[x].table = "journal" /\ rows[x].status = "absent" => x = j
        BY <1>3 DEF Fresh
      <3>4. EntriesOf(after, i) = {j} BY <1>2, <2>1, <3>2, <3>3 DEF Registered
      <3>5. Registers(after, after[j], after[i]) BY <2>2, <3>1, <3>2
      <3> QED BY <2>3, <3>2, <3>4, <3>5 DEF Registered
    <2>5. CASE ~\E j \in DOMAIN u : /\ rows[j].table = "journal" /\ rows[j].status = "absent"
                                    /\ u[j].invoice = i
      <3>1. EntriesOf(after, i) = EntriesOf(rows, i) BY <1>2, <2>5 DEF EntriesOf
      <3>2. after[i].status = "accepted" <=> rows[i].status = "accepted"
        <4>1. CASE i \notin DOMAIN u BY <1>4, <4>1 DEF Commits
        <4>2. CASE i \in DOMAIN u
          <5>1. i \in Stored(rows, "invoice") /\ "invoice" \in Lasting BY <1>6, TablesLast
          <5>3. Changed(rows, hot, u, i, "invoice") BY <4>2, <5>1 DEF Stored, UnitOK
          <5>2. ~\E x \in DOMAIN u : rows[x].table = "journal" /\ u[x].invoice = i
            BY <1>1, <2>5 DEF Commits, Stored
          <5> QED BY <2>3, <4>2, <5>2, <5>3 DEF Changed
        <4> QED BY <4>1, <4>2
      <3>3. \A j \in EntriesOf(after, i) :
                Registers(rows, rows[j], rows[i]) => Registers(after, after[j], after[i])
        BY <1>1, <2>2, <3>1 DEF EntriesOf
      <3> QED BY <2>1, <3>1, <3>2, <3>3 DEF Registered
    <2> QED BY <2>4, <2>5
  <1> QED BY <1>5, <1>6

\* Numbers 1 to n and one of 1 to n + 1 that is not among them.
LEMMA NextKey ==
    ASSUME NEW n \in Nat, NEW y, NEW c \in 1 .. n + 1, <<c, y>> \notin (1 .. n) \X {y}
    PROVE  ((1 .. n) \X {y}) \cup {<<c, y>>} = (1 .. n + 1) \X {y}
  <1>1. c \notin 1 .. n OBVIOUS
  <1>2. c = n + 1 /\ 1 .. n + 1 = (1 .. n) \cup {c} BY <1>1
  <1> QED BY <1>2

\* createInvoice: a number taken meanwhile is refused by the index, so that an invoice
\* that is inserted continues the sequence of its year.
LEMMA StillDated ==
    ASSUME NEW rows, NEW after, NEW hot, NEW u, UnitOK(rows, hot, u),
           Commits(rows, after, hot, u), Sound(rows, hot), Unique(rows, u), NEW y \in Years
    PROVE  NumberedIn(after, y)
  <1> DEFINE S   == DatedIn(rows, y)
             T   == DatedIn(after, y)
             m   == Cardinality(S)
             new == {d \in DOMAIN u : rows[d].table = "invoice" /\ rows[d].status = "absent" /\ u[d].year = y}
  <1>1. {rows[i].key : i \in S} = (1 .. m) \X {y} BY DEF Sound, NumberedIn
  <1>2. /\ S \subseteq T /\ IsFiniteSet(S) /\ m \in Nat
        /\ \A i \in S : after[i].key = rows[i].key
    BY GrownDated DEF Commits
  <1>3. \A d \in Stored(rows, "invoice") : after[d].year = rows[d].year
    <2> SUFFICES ASSUME NEW d \in Stored(rows, "invoice") PROVE after[d].year = rows[d].year
      OBVIOUS
    <2>1. d \in DOMAIN rows /\ rows[d].table = "invoice" /\ rows[d].status # "absent" BY DEF Stored
    <2>2. "year" \in DOMAIN rows[d] BY <2>1, TablesLast DEF Sound, Columns
    <2> QED BY <2>1, <2>2, TablesLast DEF Commits, Grown, Fixed
  <1>4. \A d \in DOMAIN u : rows[d].table = "invoice" /\ rows[d].status = "absent" =>
            Fresh(rows, hot, u, d, "invoice") /\ after[d] = u[d]
    BY TablesLast DEF UnitOK, Commits
  <1>5. T = S \cup new
    <2>1. \A d : d \in Stored(after, "invoice") <=>
              \/ d \in Stored(rows, "invoice")
              \/ d \in DOMAIN u /\ rows[d].table = "invoice" /\ rows[d].status = "absent"
      BY TablesLast, Inserted
    <2>2. \A d : d \in T <=> d \in S \/ d \in new
      BY <1>3, <1>4, <2>1 DEF DatedIn, Stored
    <2> QED BY <2>2
  <1>6. CASE new = {}
    <2>1. T = S BY <1>5, <1>6
    <2>2. {after[i].key : i \in S} = {rows[i].key : i \in S} BY <1>2
    <2> QED BY <1>1, <2>1, <2>2 DEF NumberedIn
  <1>7. CASE new # {}
    <2> PICK d \in new : TRUE BY <1>7
    <2>1. Fresh(rows, hot, u, d, "invoice") /\ after[d] = u[d] BY <1>4
    <2>2. new = {d} BY <2>1 DEF Fresh
    <2>3. d \notin S BY DEF DatedIn, Stored
    <2>4. "key" \in DOMAIN u[d] /\ \E c \in 1 .. m + 1 : u[d].key = <<c, y>>
      BY <2>1, TablesLast DEF Fresh, Columns, InYear
    <2>5. PICK c \in 1 .. m + 1 : u[d].key = <<c, y>> BY <2>4
    <2>6. u[d].key # None
      <3>1. c \in Nat BY <1>2
      <3> QED BY <2>5, <3>1, AccountingAssumption
    <2>7. \A x \in S : u[d].key # rows[x].key
      <3> TAKE x \in S
      <3>1. x \in DOMAIN rows /\ rows[x].table = "invoice" /\ rows[x].status # "absent"
        BY DEF DatedIn, Stored
      <3>2. "key" \in DOMAIN rows[x] BY <3>1, TablesLast DEF Sound, Columns
      <3> QED BY <2>3, <2>4, <2>6, <3>1, <3>2, TablesLast DEF Unique
    <2>8. <<c, y>> \notin (1 .. m) \X {y} BY <1>1, <2>5, <2>7
    <2>9. T = S \cup {d} /\ after[d].key = <<c, y>> BY <1>5, <2>1, <2>2, <2>5
    <2> HIDE DEF S, T, new
    <2>10. Cardinality(T) = m + 1 BY <1>2, <2>3, <2>9, FS_AddElement
    <2>11. {after[x].key : x \in T} = {rows[x].key : x \in S} \cup {<<c, y>>} BY <1>2, <2>9
    <2> HIDE DEF m
    <2>12. ((1 .. m) \X {y}) \cup {<<c, y>>} = (1 .. m + 1) \X {y} BY <1>2, <2>8, NextKey
    <2>13. {after[x].key : x \in T} = (1 .. Cardinality(T)) \X {y} BY <1>1, <2>10, <2>11, <2>12
    <2> QED BY <2>13 DEF NumberedIn, T
  <1> QED BY <1>6, <1>7

\* seedChartOfAccounts: accounts stay where they are, and one that is inserted has its parent.
LEMMA StillUnder ==
    ASSUME NEW rows, NEW after, NEW hot, NEW u, UnitOK(rows, hot, u),
           Commits(rows, after, hot, u), Sound(rows, hot), NEW a \in Stored(after, "account")
    PROVE  UnderParent(after, after[a])
  <1>1. CASE a \in Stored(rows, "account")
    <2>1. {"parent", "seeded"} \subseteq DOMAIN rows[a]
      BY <1>1, TablesLast DEF Sound, Stored, Columns
    <2>2. after[a].parent = rows[a].parent /\ after[a].seeded = rows[a].seeded
      BY <1>1, <2>1, TablesLast, Inserted DEF Fixed
    <2>3. UnderParent(rows, rows[a]) BY <1>1 DEF Sound
    <2> QED BY <2>2, <2>3, GrownAccounts DEF UnderParent, Commits
  <1>2. CASE a \notin Stored(rows, "account")
    <2>1. Fresh(rows, hot, u, a, "account") /\ after[a] = u[a] BY <1>2, TablesLast, Inserted
    <2>2. UnderParent(rows, u[a]) BY <2>1 DEF Fresh
    <2> QED BY <2>1, <2>2, GrownAccounts DEF UnderParent, Commits
  <1> QED BY <1>1, <1>2

LEMMA StillSound ==
    ASSUME NEW rows, NEW after, NEW hot, NEW u, UnitOK(rows, hot, u),
           Commits(rows, after, hot, u), Sound(rows, hot), Unique(rows, u),
           \A d \in DOMAIN rows : Rowed(after[d])
    PROVE  Sound(after, hot)
  <1>1. DOMAIN after = DOMAIN rows /\ \A d \in DOMAIN rows : after[d].table = rows[d].table
    BY DEF Commits, Grown
  <1>2. IsFiniteSet(DOMAIN after) /\ None \notin DOMAIN after BY <1>1 DEF Sound
  <1>3. \A d \in DOMAIN after : after[d].status # "absent" /\ after[d].table \in Lasting =>
            Columns(after[d].table) \subseteq DOMAIN after[d]
    BY StillReferring DEF Stored
  <1>4. \A d \in DOMAIN after \ hot : after[d].status # "absent" => Right(after[d].table, after[d])
    BY <1>1, StillRight
  <1>5. \A t \in Numbered : InOrder(after, t) BY StillInOrder
  <1>6. Referring(after) /\ \A e \in Stored(after, "employee") : after[e].createdAt \in 0 .. MaxCalls
    BY StillReferring
  <1>7. \A q \in Stored(after, "quotation") \ hot : OrdersOf(after, q) = {after[q].order} \ {None}
    BY StillConvertedOnce
  <1>8. \A i \in Stored(after, "invoice") \ hot : Registered(after, i)
    BY <1>1, StillRegistered DEF Stored
  <1>9. \A y \in Years : NumberedIn(after, y) BY StillDated
  <1>10. \A a \in Stored(after, "account") : UnderParent(after, after[a]) BY StillUnder
  <1> QED BY <1>2, <1>3, <1>4, <1>5, <1>6, <1>7, <1>8, <1>9, <1>10 DEF Sound
-----------------------------------------------------------------------------
(* It leaves what is pending as it should be.                              *)

LEMMA StillRead ==
    ASSUME NEW rows, NEW after, Grown(rows, after), NEW d \in DOMAIN rows, NEW b, ReadOK(rows, d, b)
    PROVE  ReadOK(after, d, b)
  BY DEF Grown, ReadOK

LEMMA JustWritten ==
    ASSUME NEW after, NEW d, Rowed(after[d]) PROVE ReadOK(after, d, after[d])
  BY DEF ReadOK

LEMMA StillGoesOn ==
    ASSUME NEW rows, NEW after, NEW r, Grown(rows, after), DOMAIN r.base \subseteq DOMAIN rows,
           \A d \in DOMAIN r.base : rows[d].table = "sales_order" /\ rows[d].status = "absent" =>
               after[d].status = "absent",
           \A t \in Lasting : \A d \in Stored(rows, t) : Columns(t) \subseteq DOMAIN rows[d],
           GoesOn(rows, r)
    PROVE  GoesOn(after, r)
  <1>1. \A d \in DOMAIN r.base : after[d].table = rows[d].table BY DEF Grown
  <1>2. \A d \in DOMAIN r.base : rows[d].table = "work_order" /\ rows[d].status # "absent" =>
            after[d].status # "absent" /\ after[d].productionOrder = rows[d].productionOrder
    <2> SUFFICES ASSUME NEW d \in DOMAIN r.base, rows[d].table = "work_order", rows[d].status # "absent"
                 PROVE  after[d].status # "absent" /\ after[d].productionOrder = rows[d].productionOrder
      OBVIOUS
    <2>1. d \in Stored(rows, "work_order") /\ d \in DOMAIN rows BY DEF Stored
    <2>2. "productionOrder" \in DOMAIN rows[d] /\ "productionOrder" \in Fixed
      BY <2>1, TablesLast DEF Columns, Fixed
    <2> QED BY <2>1, <2>2, TablesLast DEF Grown
  <1>3. r.pc = "convert" => \A d \in DOMAIN r.base :
        /\ after[d].table = "quotation" => r.base[d].status = "accepted" /\ r.base[d].order = None
        /\ after[d].table = "sales_order" => after[d].status = "absent"
    BY <1>1 DEF GoesOn
  <1> QED BY <1>1, <1>2, <1>3 DEF GoesOn

LEMMA UnitBelongs ==
    ASSUME BackOfficeInv, NEW p \in Workers, Write(p)
    PROVE  /\ Belongs(db, Unit(p), DOMAIN req[p].base)
           /\ DOMAIN Unit(p) \subseteq DOMAIN req[p].base
  <1>1. RequestFits(db, contended, req[p], {}, Lasting) /\ req[p].pc \in {"reload", "write"}
    BY DEF BackOfficeInv, Held, Write
  <1>2. Unit(p) = req[p].todo[1] /\ Len(req[p].todo) \in Nat \ {0} BY <1>1, NextUnit DEF Unit
  <1>3. UnitFits(db, Unit(p), DOMAIN req[p].base, {}, Lasting) BY <1>1, NextUnit DEF Unit
  <1> QED BY <1>2, <1>3 DEF BackOfficeInv, PendingOK, UnitFits

LEMMA StillBelongs ==
    ASSUME NEW rows, NEW after, NEW hot, NEW u, NEW E, Sound(rows, hot), Grown(rows, after),
           DOMAIN u \subseteq DOMAIN rows, Belongs(rows, u, E),
           \A d \in DOMAIN u : rows[d].table \in Lasting /\ rows[d].status = "absent" =>
               after[d] = rows[d]
    PROVE  Belongs(after, u, E)
  <1> SUFFICES ASSUME NEW d \in DOMAIN u
               PROVE  /\ after[d].table = "work_order" /\ after[d].status # "absent" =>
                             after[d].productionOrder \in E
                      /\ after[d].table = "bank_transaction" /\ after[d].status = "absent" =>
                             u[d].account \in E
    BY DEF Belongs
  <1>1. d \in DOMAIN rows /\ after[d].table = rows[d].table BY DEF Grown
  <1>2. ASSUME after[d].table = "work_order", after[d].status # "absent"
        PROVE  after[d].productionOrder \in E
    <2>1. rows[d].table = "work_order" /\ rows[d].status # "absent"
      BY <1>1, <1>2, TablesLast
    <2>2. "productionOrder" \in DOMAIN rows[d] BY <1>1, <2>1, TablesLast DEF Sound, Columns
    <2>3. after[d].productionOrder = rows[d].productionOrder
      BY <1>1, <2>1, <2>2, TablesLast DEF Grown, Fixed
    <2> QED BY <2>1, <2>3 DEF Belongs
  <1>3. ASSUME after[d].table = "bank_transaction", after[d].status = "absent"
        PROVE  u[d].account \in E
    <2>1. rows[d].table = "bank_transaction" /\ rows[d].status = "absent"
      BY <1>1, <1>3, TablesLast DEF Grown
    <2> QED BY <2>1 DEF Belongs
  <1> QED BY <1>2, <1>3

\* What another request has of a production order's operations, and of a bank
\* account's transactions, is as it was.
LEMMA StillMade ==
    ASSUME BackOfficeInv, NEW p \in Workers, Write(p),
           UnitOK(db, contended, Unit(p)), Commits(db, db', contended, Unit(p)),
           NEW o, o \notin DOMAIN req[p].base, NEW n, LastMade(db, o, n)
    PROVE  LastMade(db', o, n)
  <1> DEFINE u == Unit(p)
  <1>1. Belongs(db, u, DOMAIN req[p].base) BY UnitBelongs
  <1>0. /\ UnitOK(db, contended, u) /\ Commits(db, db', contended, u)
        /\ "work_order" \in Lasting
    BY TablesLast
  <1> HIDE DEF u
  <1>2. \A w : w \in DoneOf(db, o) => w \in DoneOf(db', o) /\ db'[w] = db[w]
    <2> SUFFICES ASSUME NEW w \in DoneOf(db, o) PROVE w \in DoneOf(db', o) /\ db'[w] = db[w]
      OBVIOUS
    <2>1. w \in DOMAIN db /\ db[w].table = "work_order" /\ db[w].status = "completed"
          /\ db[w].productionOrder = o
      BY DEF DoneOf, Stored
    <2>2. w \notin DOMAIN u BY <1>1, <2>1 DEF Belongs
    <2>3. db'[w] = db[w] /\ DOMAIN db' = DOMAIN db BY <2>1, <2>2 DEF Commits, Grown, u
    <2> QED BY <2>1, <2>3 DEF DoneOf, Stored
  <1>3. \A w : w \in DoneOf(db', o) => w \in DoneOf(db, o)
    <2> SUFFICES ASSUME NEW w \in DoneOf(db', o) PROVE w \in DoneOf(db, o)
      OBVIOUS
    <2>1. w \in Stored(db', "work_order") /\ db'[w].status = "completed"
          /\ db'[w].productionOrder = o
      BY DEF DoneOf
    <2>2. \/ w \in Stored(db, "work_order")
          \/ w \in DOMAIN u /\ db[w].table = "work_order" /\ db[w].status = "absent"
      BY <1>0, <2>1, Inserted
    <2>3. CASE w \in DOMAIN u /\ db[w].table = "work_order" /\ db[w].status = "absent"
      <3>1. Fresh(db, contended, u, w, "work_order") /\ db'[w] = u[w]
        BY <1>0, <2>3, Inserted
      <3> QED BY <2>1, <3>1 DEF Fresh
    <2>4. CASE w \in Stored(db, "work_order")
      <3>1. w \in DOMAIN db /\ db[w].table = "work_order" /\ db[w].status # "absent"
            /\ "productionOrder" \in DOMAIN db[w]
        BY <2>4, TablesLast DEF Stored, BackOfficeInv, Sound, Columns
      <3>2. db'[w].productionOrder = db[w].productionOrder
        BY <3>1, TablesLast DEF Commits, Grown, Fixed
      <3>3. w \notin DOMAIN u BY <1>1, <2>1, <3>1, <3>2 DEF Belongs
      <3>4. db'[w] = db[w] BY <3>1, <3>3 DEF Commits, u
      <3> QED BY <2>1, <2>4, <3>4 DEF DoneOf
    <2> QED BY <2>2, <2>3, <2>4
  <1>4. DoneOf(db', o) = DoneOf(db, o) BY <1>2, <1>3
  <1> QED BY <1>2, <1>4 DEF LastMade

LEMMA OthersPending ==
    ASSUME BackOfficeInv, NEW p \in Workers, Write(p), NEW q \in Workers \ {p},
           UnitOK(db, contended, Unit(p)), Commits(db, db', contended, Unit(p))
    PROVE  PendingOK(db', contended, req[q])
  <1>1. /\ Held({}, Lasting) /\ PendingOK(db, contended, req[q]) /\ IsFiniteSet(DOMAIN db)
        /\ Grown(db, db') /\ Sound(db, contended)
    BY DEF BackOfficeInv, Sound, Commits
  <1>2. RequestFits(db, contended, req[q], {}, Lasting) BY <1>1 DEF Held
  <1>3. ASSUME NEW i \in 1 .. Len(req[q].todo) PROVE UnitOK(db', contended, req[q].todo[i])
    <2> DEFINE u == req[q].todo[i]
    <2>1. UnitOK(db, contended, u) BY <1>1 DEF PendingOK
    <2>2. DOMAIN u \subseteq DOMAIN db BY <1>2 DEF RequestFits, UnitFits
    <2>3. \A d \in DOMAIN u \ contended : db'[d] = db[d] BY <1>1, WriteSpares
    <2>4. \A d \in DOMAIN u : db[d].table \in Lasting =>
              (d \in contended /\ db[d].status # "absent") \/ db'[d] = db[d]
      BY <1>1, <2>2, <2>3 DEF Held
    <2> HIDE DEF u
    <2>5. UnitOK(db', contended, u) BY <1>1, <2>1, <2>2, <2>4, StillOK
    <2> QED BY <2>5 DEF u
  <1>4. \A d \in DOMAIN req[q].base : ReadOK(db', d, req[q].base[d])
    BY <1>1, <1>2, StillRead DEF PendingOK, RequestFits
  <1>5. GoesOn(db', req[q])
    <2>1. \A d \in DOMAIN req[q].base : db[d].table = "sales_order" /\ db[d].status = "absent" =>
              db'[d].status = "absent"
      BY <1>1, TablesLast, WriteSparesNew
    <2>2. \A t \in Lasting : \A d \in Stored(db, t) : Columns(t) \subseteq DOMAIN db[d]
      BY DEF BackOfficeInv, Sound, Stored
    <2>3. DOMAIN req[q].base \subseteq DOMAIN db /\ GoesOn(db, req[q])
      BY <1>1, <1>2 DEF RequestFits, PendingOK
    <2> DEFINE r == req[q]
    <2>4. DOMAIN r.base \subseteq DOMAIN db /\ GoesOn(db, r) BY <2>3
    <2>5. \A d \in DOMAIN r.base : db[d].table = "sales_order" /\ db[d].status = "absent" =>
              db'[d].status = "absent"
      BY <2>1
    <2> HIDE DEF r
    <2>6. GoesOn(db', r) BY <1>1, <2>2, <2>4, <2>5, StillGoesOn
    <2> QED BY <2>6 DEF r
  <1>6. ASSUME NEW i \in 1 .. Len(req[q].todo)
        PROVE  Belongs(db', req[q].todo[i], DOMAIN req[q].base)
    <2> DEFINE u == req[q].todo[i]
               E == DOMAIN req[q].base
    <2>1. Belongs(db, u, E) BY <1>1 DEF PendingOK
    <2>2. DOMAIN u \subseteq DOMAIN db BY <1>2 DEF RequestFits, UnitFits
    <2>3. \A d \in DOMAIN u : db[d].table \in Lasting /\ db[d].status = "absent" => db'[d] = db[d]
      BY <1>1, WriteSparesNew
    <2> HIDE DEF u, E
    <2>4. Belongs(db', u, E) BY <1>1, <2>1, <2>2, <2>3, StillBelongs DEF BackOfficeInv
    <2> QED BY <2>4 DEF u, E
  <1>7. Reports(db', contended, req[q].todo)
    <2> DEFINE txs == req[q].todo
    <2>1. Reports(db, contended, txs) BY <1>1 DEF PendingOK
    <2>2. ASSUME NEW i \in 1 .. Len(txs), NEW o \in DOMAIN txs[i],
                 db'[o].table = "production_order", db'[o].status # "absent"
          PROVE  /\ Len(txs) = 1
                 /\ o \notin contended => LastMade(db', o, txs[i][o].quantityProduced)
      <3>1. o \in DOMAIN db /\ o \in DOMAIN req[q].base
        BY <1>2 DEF RequestFits, UnitFits
      <3>2. db[o].table = "production_order" /\ db[o].status # "absent"
        BY <1>1, <2>2, <3>1, WriteSparesNew, TablesLast DEF Grown
      <3>3. Len(txs) = 1 /\ (o \notin contended => LastMade(db, o, txs[i][o].quantityProduced))
        BY <2>1, <3>2 DEF Reports
      <3>4. o \notin contended => o \notin DOMAIN req[p].base
        BY <1>1, <3>1 DEF Held, Apart
      <3> HIDE DEF txs
      <3> QED BY <3>3, <3>4, StillMade
    <2> HIDE DEF txs
    <2>3. Reports(db', contended, txs) BY <2>2 DEF Reports
    <2> QED BY <2>3 DEF txs
  <1> QED BY <1>1, <1>3, <1>4, <1>5, <1>6, <1>7 DEF PendingOK

\* The request of a handler that has the rows of b in hand.
GoesOnWith(rows, b, txs, then) ==
    /\ then = "convert" =>
        /\ txs = <<>>
        /\ \A d \in DOMAIN b :
            /\ rows[d].table = "quotation" => b[d].status = "accepted" /\ b[d].order = None
            /\ rows[d].table = "sales_order" => rows[d].status = "absent"
    /\ then = "produced" => \A d \in DOMAIN b : rows[d].table = "work_order" =>
        /\ rows[d].status # "absent" /\ b[d].status # "absent"
        /\ rows[d].productionOrder \in DOMAIN b
    /\ then \in {"project", "refresh"} => \E d \in DOMAIN b : rows[d].table = "cursor"

LEMMA AtPending ==
    ASSUME NEW rows, NEW hot, NEW b, NEW txs, NEW then, NEW S, txs \in Seq(S),
           \A i \in 1 .. Len(txs) : UnitOK(rows, hot, txs[i]),
           \A i, j \in 1 .. Len(txs) : i # j => DOMAIN txs[i] \cap DOMAIN txs[j] = {},
           \A d \in DOMAIN b : ReadOK(rows, d, b[d]),
           \A i \in 1 .. Len(txs) : Belongs(rows, txs[i], DOMAIN b), Reports(rows, hot, txs),
           GoesOnWith(rows, b, txs, then)
    PROVE  PendingOK(rows, hot, At(b, txs, then))
  <1>1. CASE txs = <<>> /\ then = "idle"
    <2>1. At(b, txs, then) = Idle BY <1>1 DEF At
    <2>2. /\ Idle.pc = "idle" /\ Idle.then = "idle" /\ Idle.todo = <<>> /\ DOMAIN Idle.base = {}
      BY DEF Idle, Nothing
    <2>3. Len(<<>>) = 0 OBVIOUS
    <2> HIDE DEF Idle
    <2>4. PendingOK(rows, hot, Idle) BY <2>2, <2>3 DEF PendingOK, GoesOn, Reports
    <2> QED BY <2>1, <2>4
  <1>2. CASE ~(txs = <<>> /\ then = "idle")
    <2> DEFINE r == At(b, txs, then)
    <2>1. /\ r.pc = IF txs = <<>> THEN then ELSE "reload"
          /\ r.base = b /\ r.todo = txs /\ r.then = then
      BY <1>2 DEF At
    <2> HIDE DEF r
    <2>2. GoesOn(rows, r) BY <2>1 DEF GoesOn, GoesOnWith
    <2>3. PendingOK(rows, hot, r) BY <2>1, <2>2 DEF PendingOK
    <2> QED BY <2>3 DEF r
  <1> QED BY <1>1, <1>2

LEMMA WriterPending ==
    ASSUME BackOfficeInv, NEW p \in Workers, Write(p), Grown(db, db')
    PROVE  PendingOK(db', contended, req'[p])
  <1> DEFINE u     == Unit(p)
             saved == [d \in DOMAIN u |-> Saved(p, d)]
             b     == And(saved, req[p].base)
             txs   == Tail(req[p].todo)
             then  == req[p].then
  <1>1. /\ Held({}, Lasting) /\ PendingOK(db, contended, req[p]) /\ IsFiniteSet(DOMAIN db)
        /\ Sound(db, contended)
    BY DEF BackOfficeInv, Sound
  <1>2. RequestFits(db, contended, req[p], {}, Lasting) /\ req[p].pc = "write" BY <1>1 DEF Held, Write
  <1>3. req'[p] = At(b, txs, then) BY <1>1 DEF Write, Held
  <1>4. /\ UnitFits(db, u, DOMAIN req[p].base, {}, Lasting) /\ DOMAIN u \subseteq DOMAIN db
        /\ \A d \in DOMAIN db \ DOMAIN u : db'[d] = db[d]
    BY <1>1, WriteSaves
  <1>5. DOMAIN u \subseteq DOMAIN req[p].base BY <1>4 DEF UnitFits
  <1>6. /\ DOMAIN b = DOMAIN req[p].base
        /\ \A d \in DOMAIN b : b[d] = IF d \in DOMAIN u THEN db'[d] ELSE req[p].base[d]
    <2>1. \A d \in DOMAIN u : Saved(p, d) = db'[d] BY <1>4 DEF Write, And
    <2> HIDE DEF u
    <2> QED BY <1>5, <2>1 DEF And
  <1>7. PICK S : txs \in Seq(S) BY <1>2, NextUnit
  <1>8. /\ Len(txs) = Len(req[p].todo) - 1 /\ Len(req[p].todo) \in Nat \ {0}
        /\ \A i \in 1 .. Len(txs) : txs[i] = req[p].todo[i + 1] /\ i + 1 \in 1 .. Len(req[p].todo)
        /\ u = req[p].todo[1]
    BY <1>2, NextUnit DEF Unit
  <1> HIDE DEF b, txs, u
  <1>9. ASSUME NEW i \in 1 .. Len(txs) PROVE UnitOK(db', contended, txs[i])
    <2>1. UnitOK(db, contended, txs[i]) BY <1>1, <1>8 DEF PendingOK
    <2>2. DOMAIN txs[i] \subseteq DOMAIN db BY <1>2, <1>8 DEF RequestFits, UnitFits
    <2>3. 1 \in 1 .. Len(req[p].todo) /\ i + 1 # 1 BY <1>8
    <2>4. DOMAIN txs[i] \cap DOMAIN u = {} BY <1>1, <1>8, <2>3 DEF PendingOK
    <2>5. \A d \in DOMAIN txs[i] : db'[d] = db[d] BY <1>4, <2>2, <2>4
    <2> QED BY <1>1, <2>1, <2>2, <2>5, StillOK
  <1>10. \A i, j \in 1 .. Len(txs) : i # j => DOMAIN txs[i] \cap DOMAIN txs[j] = {}
    <2> TAKE i, j \in 1 .. Len(txs)
    <2>1. i # j => i + 1 # j + 1 BY <1>8
    <2> QED BY <1>1, <1>8, <2>1 DEF PendingOK
  <1>11. ASSUME NEW d \in DOMAIN b PROVE ReadOK(db', d, b[d])
    <2>1. CASE d \in DOMAIN u
      <3>1. Rowed(db'[d]) BY <1>1, <1>4, <2>1, WriteKeeps
      <3>2. b[d] = db'[d] BY <1>6, <2>1
      <3> QED BY <3>1, <3>2 DEF ReadOK
    <2>2. CASE d \notin DOMAIN u
      <3>1. ReadOK(db, d, b[d]) /\ d \in DOMAIN db BY <1>1, <1>2, <1>6, <2>2 DEF PendingOK, RequestFits
      <3> QED BY <3>1, StillRead
    <2> QED BY <2>1, <2>2
  <1>12. GoesOnWith(db', b, txs, then)
    <2>1. GoesOn(db, req[p]) /\ req[p].todo # <<>> BY <1>1, <1>2 DEF PendingOK, RequestFits
    <2>2. then # "convert" BY <2>1 DEF GoesOn
    <2>3. DOMAIN b \subseteq DOMAIN db /\ \A d \in DOMAIN b : db'[d].table = db[d].table
      BY <1>2, <1>6 DEF RequestFits, Grown
    <2>4. ASSUME then = "produced", NEW d \in DOMAIN b, db'[d].table = "work_order"
          PROVE  /\ db'[d].status # "absent" /\ b[d].status # "absent"
                 /\ db'[d].productionOrder \in DOMAIN b
      <3>1. /\ d \in Stored(db, "work_order") /\ d \in DOMAIN db
            /\ db[d].productionOrder \in DOMAIN b /\ req[p].base[d].status # "absent"
        BY <1>6, <2>1, <2>3, <2>4 DEF GoesOn, Stored
      <3>2. "productionOrder" \in DOMAIN db[d] /\ "productionOrder" \in Fixed
        BY <3>1, TablesLast DEF BackOfficeInv, Sound, Stored, Columns, Fixed
      <3>3. db'[d].status # "absent" /\ db'[d].productionOrder = db[d].productionOrder
        BY <3>1, <3>2, TablesLast DEF Grown, Stored
      <3> QED BY <1>6, <3>1, <3>3
    <2>5. then \in {"project", "refresh"} => \E d \in DOMAIN b : db'[d].table = "cursor"
      BY <1>6, <2>1, <2>3 DEF GoesOn
    <2> QED BY <2>2, <2>4, <2>5 DEF GoesOnWith
  <1> HIDE DEF then
  <1>13. ASSUME NEW i \in 1 .. Len(txs) PROVE Belongs(db', txs[i], DOMAIN b)
    <2>1. Belongs(db, txs[i], DOMAIN b) BY <1>1, <1>6, <1>8 DEF PendingOK
    <2>2. DOMAIN txs[i] \subseteq DOMAIN db BY <1>2, <1>8 DEF RequestFits, UnitFits
    <2>3. 1 \in 1 .. Len(req[p].todo) /\ i + 1 # 1 BY <1>8
    <2>4. DOMAIN txs[i] \cap DOMAIN u = {} BY <1>1, <1>8, <2>3 DEF PendingOK
    <2>5. \A d \in DOMAIN txs[i] : db'[d] = db[d] BY <1>4, <2>2, <2>4
    <2> QED BY <2>1, <2>2, <2>5, StillBelongs DEF BackOfficeInv
  <1>14. Reports(db', contended, txs)
    <2> SUFFICES ASSUME NEW i \in 1 .. Len(txs), NEW o \in DOMAIN txs[i],
                        db'[o].table = "production_order", db'[o].status # "absent"
                 PROVE  FALSE
      BY DEF Reports
    <2>1. txs[i] = req[p].todo[i + 1] /\ i + 1 \in 1 .. Len(req[p].todo) BY <1>8
    <2>2. 1 \in 1 .. Len(req[p].todo) /\ i + 1 # 1 /\ Len(req[p].todo) # 1 BY <1>8, <2>1
    <2>3. o \notin DOMAIN u BY <1>1, <1>8, <2>1, <2>2 DEF PendingOK
    <2>4. o \in DOMAIN db BY <1>2, <2>1 DEF RequestFits, UnitFits
    <2>5. db'[o] = db[o] BY <1>4, <2>3, <2>4
    <2> QED BY <1>1, <2>1, <2>2, <2>5 DEF PendingOK, Reports
  <1>15. PendingOK(db', contended, At(b, txs, then))
    BY <1>7, <1>9, <1>10, <1>11, <1>12, <1>13, <1>14, AtPending
  <1> QED BY <1>3, <1>15

-----------------------------------------------------------------------------
(* What a COMMIT leaves of the bank accounts and of those that import.     *)

\* An account the writer does not have in hand.
LEMMA AccountSpared ==
    ASSUME BackOfficeInv, NEW p \in Workers, Write(p),
           UnitOK(db, contended, Unit(p)), Commits(db, db', contended, Unit(p)),
           NEW a \in Stored(db, "bank_account"), a \notin DOMAIN Unit(p),
           \A t \in DOMAIN Unit(p) : db[t].table = "bank_transaction" /\ db[t].status = "absent" =>
               Unit(p)[t].account # a
    PROVE  db'[a] = db[a] /\ ImportsOf(db', a) = ImportsOf(db, a)
  <1> DEFINE u == Unit(p)
  <1>1. db'[a] = db[a] BY DEF Commits, Stored
  <1>2. \A t \in Stored(db, "bank_transaction") : db'[t].account = db[t].account
    <2> SUFFICES ASSUME NEW t \in Stored(db, "bank_transaction") PROVE db'[t].account = db[t].account
      OBVIOUS
    <2>1. "account" \in DOMAIN db[t] BY TablesLast DEF BackOfficeInv, Sound, Columns, Stored
    <2> QED BY <2>1, TablesLast DEF Commits, Grown, Fixed, Stored
  <1>3. \A t : t \in Stored(db', "bank_transaction") <=>
            \/ t \in Stored(db, "bank_transaction")
            \/ t \in DOMAIN u /\ db[t].table = "bank_transaction" /\ db[t].status = "absent"
    BY Inserted, TablesLast
  <1>4. \A t \in DOMAIN u : db[t].table = "bank_transaction" /\ db[t].status = "absent" =>
            db'[t] = u[t]
    BY DEF Commits
  <1>5. \A t : t \in ImportsOf(db', a) <=> t \in ImportsOf(db, a)
    BY <1>2, <1>3, <1>4 DEF ImportsOf
  <1> QED BY <1>1, <1>5

\* One that is inserted.
LEMMA AccountOpened ==
    ASSUME BackOfficeInv, NEW p \in Workers, Write(p),
           UnitOK(db, contended, Unit(p)), Commits(db, db', contended, Unit(p)),
           NEW a \in Stored(db', "bank_account"), a \notin Stored(db, "bank_account")
    PROVE  Imported(db', a)
  <1> DEFINE u == Unit(p)
  <1>1. /\ a \in DOMAIN u /\ db[a].table = "bank_account" /\ db[a].status = "absent"
        /\ Fresh(db, contended, u, a, "bank_account") /\ db'[a] = u[a]
    BY Inserted, TablesLast
  <1>2. db'[a].lastTransactionCursor = None BY <1>1 DEF Fresh
  <1>3. \A t \in Stored(db', "bank_transaction") : db'[t].account # a
    <2> SUFFICES ASSUME NEW t \in Stored(db', "bank_transaction") PROVE db'[t].account # a
      OBVIOUS
    <2>1. CASE t \in Stored(db, "bank_transaction")
      <3>1. db[t].account \in Stored(db, "bank_account") /\ "account" \in DOMAIN db[t]
        BY <2>1, TablesLast DEF BackOfficeInv, Sound, Referring, Columns, Stored
      <3>2. db'[t].account = db[t].account
        BY <2>1, <3>1, TablesLast DEF Commits, Grown, Fixed, Stored
      <3> QED BY <3>1, <3>2
    <2>2. CASE t \notin Stored(db, "bank_transaction")
      <3>1. Fresh(db, contended, u, t, "bank_transaction") /\ db'[t] = u[t]
        BY <2>2, Inserted, TablesLast
      <3> QED BY <3>1 DEF Fresh
    <2> QED BY <2>1, <2>2
  <1>4. ImportsOf(db', a) = {} BY <1>3 DEF ImportsOf
  <1> QED BY <1>2, <1>4 DEF Imported

\* One that the writer has in hand: it inserts the transaction, or saves the cursor
\* and is done.
LEMMA AccountSynced ==
    ASSUME BackOfficeInv, NEW p \in Workers, Write(p),
           UnitOK(db, contended, Unit(p)), Commits(db, db', contended, Unit(p)),
           NEW a \in Stored(db, "bank_account") \ (contended \cup cut), a \in DOMAIN req[p].base
    PROVE  LET todo == req[p].todo
           IN  /\ req[p].then = "idle"
               /\ \/ Tail(todo) = <<>> /\ Imported(db', a)
                  \/ Tail(todo) # <<>> /\ Syncs(db', Tail(todo), a)
  <1> DEFINE u    == Unit(p)
             txs  == Tail(req[p].todo)
             n    == Len(req[p].todo)
             last == req[p].todo[n]
  <1>1. a \in DOMAIN db /\ db[a].table = "bank_account" /\ db[a].status # "absent" BY DEF Stored
  <1>2. RequestFits(db, contended, req[p], {}, Lasting) /\ req[p].pc \in {"reload", "write"}
    BY DEF BackOfficeInv, Held, Write
  <1>3. /\ u = req[p].todo[1] /\ n \in Nat \ {0} /\ Len(txs) = n - 1
        /\ \A i \in 1 .. Len(txs) : txs[i] = req[p].todo[i + 1]
        /\ \E S : txs \in Seq(S)
    BY <1>2, NextUnit DEF Unit
  <1>4. req[p].then = "idle" /\ Syncs(db, req[p].todo, a)
    BY <1>1 DEF BackOfficeInv, ImportInv, Importing, Banking
  <1>5. DOMAIN last = {a} /\ last[a].lastTransactionCursor # None BY <1>4 DEF Syncs
  <1> HIDE DEF u, txs, n, last
  <1>6. CASE n = 1 /\ HasGiven(db, a)
    <2>1. u = last /\ Len(txs) = 0 BY <1>3, <1>6 DEF last, n
    <2>2. txs = <<>> BY <1>3, <2>1
    <2>3. \A t \in DOMAIN u : ~(db[t].table = "bank_transaction") BY <1>1, <1>5, <2>1
    <2>4. \A t \in Stored(db, "bank_transaction") : db'[t] = db[t]
      BY <2>3 DEF Commits, Stored, u
    <2>5. Stored(db', "bank_transaction") = Stored(db, "bank_transaction")
      <3>1. \A t : t \in Stored(db', "bank_transaction") <=> t \in Stored(db, "bank_transaction")
        BY <2>3, Inserted, TablesLast DEF u
      <3> QED BY <3>1
    <2>6. ImportsOf(db', a) = ImportsOf(db, a) BY <2>4, <2>5 DEF ImportsOf
    <2>7. db'[a].lastTransactionCursor # None
      <3>1. DOMAIN u[a] = DOMAIN db'[a] /\ \A f \in DOMAIN u[a] : db'[a][f] = u[a][f]
        BY <1>1, <1>5, <2>1, TablesLast DEF Commits, u
      <3>2. "lastTransactionCursor" \in DOMAIN db'[a]
        BY <1>1, TablesLast DEF Commits, Grown, BackOfficeInv, Sound, Columns
      <3> QED BY <1>5, <2>1, <3>1, <3>2
    <2>8. db'[a].psd2Provider = db[a].psd2Provider
      <3>1. "psd2Provider" \in DOMAIN db[a] /\ "psd2Provider" \in Fixed
        BY TablesLast DEF BackOfficeInv, Sound, Columns, Fixed, Stored
      <3> QED BY <1>1, <3>1, TablesLast DEF Commits, Grown
    <2>9. HasGiven(db', a) BY <1>6, <2>6, <2>8 DEF HasGiven
    <2>10. Imported(db', a) BY <2>7, <2>9 DEF Imported
    <2> QED BY <1>4, <2>2, <2>10 DEF txs
  <1>7. CASE n = 2 /\ ImportsOf(db, a) = {} /\ Given(db[a].psd2Provider) = 1 /\ \E t \in DOMAIN u :
                /\ DOMAIN u = {t} /\ u[t].account = a
                /\ db[t].table = "bank_transaction" /\ db[t].status = "absent"
    <2>1. PICK t \in DOMAIN u :
              /\ DOMAIN u = {t} /\ u[t].account = a
              /\ db[t].table = "bank_transaction" /\ db[t].status = "absent"
      BY <1>7
    <2>2. Len(txs) = 1 /\ txs[Len(txs)] = last BY <1>3, <1>7 DEF last
    <2>3. txs # <<>> BY <2>2
    <2>4. \A x : x \in Stored(db', "bank_transaction") <=> x \in Stored(db, "bank_transaction") \/ x = t
      BY <2>1, Inserted, TablesLast DEF u
    <2>5. db'[t] = u[t] BY <2>1 DEF Commits, u
    <2>6. \A x \in Stored(db, "bank_transaction") : db'[x] = db[x]
      BY <2>1 DEF Commits, Stored, u
    <2>7. \A x : x \in ImportsOf(db', a) <=> x = t
      BY <1>7, <2>1, <2>4, <2>5, <2>6 DEF ImportsOf
    <2>8. ImportsOf(db', a) = {t} BY <2>7
    <2>9. db'[a] = db[a] BY <1>1, <2>1 DEF Commits, u
    <2>10. HasGiven(db', a) BY <1>7, <2>8, <2>9 DEF HasGiven
    <2>11. Syncs(db', txs, a) BY <1>5, <2>2, <2>10 DEF Syncs
    <2> QED BY <1>4, <2>3, <2>11 DEF txs
  <1> QED BY <1>3, <1>4, <1>6, <1>7 DEF Syncs, n

LEMMA ImportersSpared ==
    ASSUME BackOfficeInv, NEW p \in Workers, Write(p),
           UnitOK(db, contended, Unit(p)), Commits(db, db', contended, Unit(p)),
           NEW q \in Workers \ {p}
    PROVE  Importing(db', contended \cup cut, req[q])
  <1>1. Held({}, Lasting) BY DEF BackOfficeInv
  <1>2. /\ Belongs(db, Unit(p), DOMAIN req[p].base)
        /\ DOMAIN Unit(p) \subseteq DOMAIN req[p].base
    BY UnitBelongs
  <1>3. ASSUME NEW a \in DOMAIN req[q].base \ (contended \cup cut), db'[a].table = "bank_account"
        PROVE  /\ req[q].pc \in {"reload", "write"} /\ req[q].then = "idle"
               /\ IF db'[a].status = "absent" THEN Len(req[q].todo) = 1
                  ELSE Syncs(db', req[q].todo, a)
    <2>1. a \in DOMAIN db BY <1>1 DEF Held, RequestFits
    <2>2. db[a].table = "bank_account" BY <1>3, <2>1 DEF Commits, Grown
    <2>3. /\ req[q].pc \in {"reload", "write"} /\ req[q].then = "idle"
          /\ IF db[a].status = "absent" THEN Len(req[q].todo) = 1 ELSE Syncs(db, req[q].todo, a)
      BY <1>3, <2>2 DEF BackOfficeInv, ImportInv, Importing, Banking
    <2>4. a \notin DOMAIN req[p].base BY <1>1, <1>3 DEF Held, Apart
    <2>5. db'[a] = db[a] BY <1>2, <2>1, <2>4 DEF Commits
    <2>6. ASSUME db[a].status # "absent" PROVE Syncs(db', req[q].todo, a)
      <3>1. Syncs(db, req[q].todo, a) BY <2>3, <2>6
      <3>2. a \in Stored(db, "bank_account") BY <2>1, <2>2, <2>6 DEF Stored
      <3>3. ImportsOf(db', a) = ImportsOf(db, a)
        BY <1>2, <2>4, <3>2, AccountSpared DEF Belongs
      <3>4. ASSUME Len(req[q].todo) = 2
            PROVE  \A t \in DOMAIN req[q].todo[1] :
                       db[t].table = "bank_transaction" /\ db[t].status = "absent" => db'[t] = db[t]
        <4>1. 1 \in 1 .. Len(req[q].todo) BY <3>4
        <4> QED BY <1>1, <4>1, TablesLast, WriteSparesNew
      <3> DEFINE todo == req[q].todo
      <3>5. Syncs(db, todo, a) /\ (Len(todo) = 2 => \A t \in DOMAIN todo[1] :
                db[t].table = "bank_transaction" /\ db[t].status = "absent" => db'[t] = db[t])
        BY <3>1, <3>4
      <3> HIDE DEF todo
      <3>6. Syncs(db', todo, a)
        <4>1. CASE Len(todo) = 1 BY <2>5, <3>3, <3>5, <4>1 DEF Syncs, HasGiven
        <4>2. CASE Len(todo) # 1
          <5>1. PICK t \in DOMAIN todo[1] :
                    /\ DOMAIN todo[1] = {t} /\ todo[1][t].account = a
                    /\ db[t].table = "bank_transaction" /\ db[t].status = "absent"
            BY <3>5, <4>2 DEF Syncs
          <5>2. Len(todo) = 2 /\ db'[t] = db[t] BY <3>5, <4>2, <5>1 DEF Syncs
          <5> QED BY <2>5, <3>3, <3>5, <4>2, <5>1, <5>2 DEF Syncs
        <4> QED BY <4>1, <4>2
      <3> QED BY <3>6 DEF todo
    <2> QED BY <2>3, <2>5, <2>6
  <1> QED BY <1>3 DEF Importing, Banking

LEMMA WriteImports ==
    ASSUME BackOfficeInv, NEW p \in Workers, Write(p),
           UnitOK(db, contended, Unit(p)), Commits(db, db', contended, Unit(p))
    PROVE  ImportInv'
  <1> DEFINE u    == Unit(p)
             b    == And([d \in DOMAIN u |-> Saved(p, d)], req[p].base)
             todo == req[p].todo
             then == req[p].then
  <1>0. contended' = contended /\ cut' = cut BY DEF Write
  <1>1. Held({}, Lasting) BY DEF BackOfficeInv
  <1>2. /\ Belongs(db, u, DOMAIN req[p].base) /\ DOMAIN u \subseteq DOMAIN req[p].base
    BY UnitBelongs
  <1>3. \A q \in Workers \ {p} : req'[q] = req[q] BY <1>1 DEF Write, Held
  <1>4. req'[p] = At(b, Tail(todo), then) BY <1>1 DEF Write, Held
  <1>5. DOMAIN b = DOMAIN req[p].base
    <2>1. DOMAIN b = DOMAIN u \cup DOMAIN req[p].base BY DEF And
    <2> HIDE DEF b, u
    <2> QED BY <1>2, <2>1
  <1>6. /\ Tail(todo) = <<>> /\ then = "idle" => req'[p] = Idle
        /\ ~(Tail(todo) = <<>> /\ then = "idle") =>
               /\ req'[p].base = b /\ req'[p].todo = Tail(todo) /\ req'[p].then = then
               /\ Tail(todo) # <<>> => req'[p].pc = "reload"
    <2> HIDE DEF b, todo, then
    <2> QED BY <1>4 DEF At
  <1>7. DOMAIN Idle.base = {} BY DEF Idle, Nothing
  <1>8. \A a \in DOMAIN req[p].base : a \in DOMAIN db /\ db'[a].table = db[a].table
    BY <1>1 DEF Held, RequestFits, Commits, Grown
  <1> HIDE DEF u, b, Idle
  <1>9. Importing(db', contended \cup cut, req'[p])
    <2> SUFFICES ASSUME NEW a \in DOMAIN req'[p].base \ (contended \cup cut), db'[a].table = "bank_account"
                 PROVE  /\ req'[p].pc \in {"reload", "write"} /\ req'[p].then = "idle"
                        /\ IF db'[a].status = "absent" THEN Len(req'[p].todo) = 1
                           ELSE Syncs(db', req'[p].todo, a)
      BY DEF Importing, Banking
    <2>1. ~(Tail(todo) = <<>> /\ then = "idle") BY <1>6, <1>7
    <2>2. a \in DOMAIN req[p].base BY <1>5, <1>6, <2>1
    <2>3. a \in DOMAIN db /\ db[a].table = "bank_account" BY <1>8, <2>2
    <2>4. CASE db[a].status = "absent"
      <3>1. then = "idle" /\ Len(todo) = 1
        BY <2>2, <2>3, <2>4 DEF BackOfficeInv, ImportInv, Importing, Banking
      <3>2. Tail(todo) = <<>>
        <4>1. RequestFits(db, contended, req[p], {}, Lasting) /\ req[p].pc \in {"reload", "write"}
          BY <1>1 DEF Held, Write
        <4>2. (\E S : Tail(todo) \in Seq(S)) /\ Len(Tail(todo)) = Len(todo) - 1 BY <4>1, NextUnit
        <4>3. PICK S : Tail(todo) \in Seq(S) BY <4>2
        <4> DEFINE rest == Tail(todo)
        <4>4. rest \in Seq(S) /\ Len(rest) = 0 BY <3>1, <4>2, <4>3
        <4> HIDE DEF rest
        <4>5. rest = <<>> BY <4>4
        <4> QED BY <4>5 DEF rest
      <3> QED BY <2>1, <3>1, <3>2
    <2>5. CASE db[a].status # "absent"
      <3>1. a \in Stored(db, "bank_account") \ (contended \cup cut) BY <2>3, <2>5 DEF Stored
      <3>2. /\ then = "idle"
            /\ \/ Tail(todo) = <<>> /\ Imported(db', a)
               \/ Tail(todo) # <<>> /\ Syncs(db', Tail(todo), a)
        BY <2>2, <3>1, AccountSynced
      <3>3. db'[a].status # "absent" BY <2>3, <2>5, TablesLast DEF Commits, Grown
      <3> QED BY <1>6, <2>1, <3>2, <3>3
    <2> QED BY <2>4, <2>5
  <1>10. \A q \in Workers : Importing(db', contended \cup cut, req'[q])
    BY <1>3, <1>9, ImportersSpared
  <1>11. ASSUME NEW a \in Stored(db', "bank_account") \ (contended \cup cut),
                \A q \in Workers : a \notin DOMAIN req'[q].base
         PROVE  Imported(db', a)
    <2>1. CASE a \notin Stored(db, "bank_account") BY <2>1, AccountOpened
    <2>2. CASE a \in Stored(db, "bank_account") /\ a \in DOMAIN req[p].base
      <3>1. Tail(todo) = <<>> /\ then = "idle" BY <1>5, <1>6, <1>11, <2>2
      <3> QED BY <1>11, <2>2, <3>1, AccountSynced
    <2>3. CASE a \in Stored(db, "bank_account") /\ a \notin DOMAIN req[p].base
      <3>1. Settled(a) BY <1>3, <1>11, <2>3 DEF Settled
      <3>2. Imported(db, a) BY <1>11, <2>3, <3>1 DEF BackOfficeInv, ImportInv
      <3>3. db'[a] = db[a] /\ ImportsOf(db', a) = ImportsOf(db, a)
        BY <1>2, <2>3, AccountSpared DEF Belongs, u
      <3> QED BY <3>2, <3>3 DEF Imported, HasGiven
    <2> QED BY <2>1, <2>2, <2>3
  <1> QED BY <1>0, <1>10, <1>11 DEF ImportInv, Settled

-----------------------------------------------------------------------------
(* What a COMMIT leaves of the read models and of the runs.                *)

\* Only a run writes them.
LEMMA WriterRuns ==
    ASSUME BackOfficeInv, NEW p \in Workers, Write(p),
           NEW x \in DOMAIN Unit(p), db[x].table \in Models
    PROVE  \E c \in DOMAIN req[p].base :
               /\ IsRun(db, contended, req[p], c)
               /\ Starts(db, req[p], c) \/ Finishes(db, contended, req[p], c)
  <1>1. x \in DOMAIN req[p].base BY UnitBelongs
  <1>2. PICK c \in DOMAIN req[p].base : IsRun(db, contended, req[p], c)
    BY <1>1 DEF BackOfficeInv, ModelInv, Running
  <1>3. req[p].pc = "write" BY DEF Write
  <1>4. Starts(db, req[p], c) \/ Finishes(db, contended, req[p], c)
    BY <1>2, <1>3 DEF IsRun, Projects, Refreshes
  <1> QED BY <1>2, <1>4

LEMMA FirstUnit ==
    ASSUME BackOfficeInv, NEW p \in Workers, req[p].pc \in {"reload", "write"}
    PROVE  LET todo == req[p].todo
           IN  /\ Unit(p) = todo[1] /\ Len(todo) \in Nat \ {0}
               /\ Len(Tail(todo)) = Len(todo) - 1 /\ \E S : Tail(todo) \in Seq(S)
               /\ \A i \in 1 .. Len(Tail(todo)) : Tail(todo)[i] = todo[i + 1]
  <1>1. RequestFits(db, contended, req[p], {}, Lasting) BY DEF BackOfficeInv, Held
  <1> QED BY <1>1, NextUnit DEF Unit

\* The read model of a projection that is not the writer's.
LEMMA ModelSpared ==
    ASSUME BackOfficeInv, NEW p \in Workers, Write(p), Commits(db, db', contended, Unit(p)),
           NEW projection,
           ~\E c \in DOMAIN req[p].base : /\ c \in Stored(db, "cursor") /\ db[c].key = projection
                                          /\ Len(req[p].todo) = 2
    PROVE  /\ ModelIn(db', projection) = ModelIn(db, projection)
           /\ ResultIn(db', projection) = ResultIn(db, projection)
  <1> DEFINE u == Unit(p)
  <1>1. u = req[p].todo[1] BY FirstUnit DEF Write
  <1>2. DOMAIN u \subseteq DOMAIN req[p].base /\ DOMAIN u \subseteq DOMAIN db
    BY UnitBelongs DEF Commits
  <1>3. /\ DOMAIN db' = DOMAIN db
        /\ \A d \in DOMAIN db : db'[d].table = db[d].table
        /\ \A d \in DOMAIN db \ DOMAIN u : db'[d] = db[d]
        /\ \A d \in DOMAIN u : db[d].status = "absent" => db'[d] = u[d]
    BY DEF Commits, Grown
  <1>4. \A d \in DOMAIN u : db[d].status # "absent" =>
            \A f \in DOMAIN db[d] : f \notin DOMAIN u[d] => db'[d][f] = db[d][f]
    BY WriteSaves DEF BackOfficeInv
  <1> HIDE DEF u
  <1>5. ASSUME NEW d \in DOMAIN u, db[d].table = "read_model"
        PROVE  d \notin ModelIn(db, projection) /\ d \notin ModelIn(db', projection)
    <2>1. PICK c \in DOMAIN req[p].base :
              /\ IsRun(db, contended, req[p], c)
              /\ Starts(db, req[p], c) \/ Finishes(db, contended, req[p], c)
      BY <1>5, WriterRuns DEF Models, u
    <2>2. db[c].table = "cursor" /\ c \in DOMAIN db
      BY <2>1 DEF IsRun, BackOfficeInv, Held, RequestFits
    <2>3. Finishes(db, contended, req[p], c) /\ Len(req[p].todo) = 2
      BY <1>1, <1>5, <2>1, <2>2 DEF Starts, Finishes
    <2>4. PICK seen : Swaps(db, contended, u, c, seen) BY <1>1, <2>3 DEF Finishes
    <2>5. db[c].key # projection BY <2>2, <2>3 DEF Finishes, Stored
    <2>6. CASE d \in Brought(u)
      <3>1. db[d].status = "absent" /\ u[d].projection = db[c].key BY <2>4, <2>6 DEF Swaps
      <3> QED BY <1>3, <2>5, <3>1 DEF ModelIn, Stored
    <2>7. CASE d \notin Brought(u)
      <3>1. u[d] = Absent("read_model") BY <2>4, <2>7 DEF Swaps
      <3>2. u[d].status = "absent" /\ "projection" \notin DOMAIN u[d] BY <3>1 DEF Absent
      <3>3. CASE db[d].status = "absent" BY <1>3, <3>2, <3>3 DEF ModelIn, Stored
      <3>4. CASE db[d].status # "absent"
        <4>1. d # c /\ d \in DOMAIN req[p].base BY <1>2, <1>5, <2>2
        <4>2. db[d].projection = db[c].key BY <2>1, <3>4, <4>1 DEF IsRun
        <4>3. "projection" \in DOMAIN db[d]
          BY <1>2, <1>5, <3>4 DEF BackOfficeInv, ModelInv, ModelsOK, Stored
        <4>4. db'[d].projection = db[d].projection BY <1>4, <3>2, <3>4, <4>3
        <4> QED BY <2>5, <4>2, <4>4 DEF ModelIn
      <3> QED BY <3>3, <3>4
    <2> QED BY <2>6, <2>7
  <1>6. \A d : d \in ModelIn(db', projection) <=> d \in ModelIn(db, projection)
    BY <1>2, <1>3, <1>5 DEF ModelIn, Stored
  <1>7. \A d \in ModelIn(db, projection) : db'[d] = db[d]
    BY <1>3, <1>5 DEF ModelIn, Stored
  <1>8. ModelIn(db', projection) = ModelIn(db, projection) BY <1>6
  <1> QED BY <1>7, <1>8 DEF ResultIn

\* The read model that the writer replaces.
LEMMA ModelReplaced ==
    ASSUME BackOfficeInv, NEW p \in Workers, Write(p), Commits(db, db', contended, Unit(p)),
           NEW c \in DOMAIN req[p].base \ contended, IsRun(db, contended, req[p], c),
           NEW seen, Swaps(db, contended, Unit(p), c, seen)
    PROVE  ResultIn(db', db[c].key) = seen
  <1> DEFINE u == Unit(p)
             k == db[c].key
  <1>1. u = req[p].todo[1] BY FirstUnit DEF Write
  <1>2. DOMAIN u \subseteq DOMAIN db BY DEF Commits
  <1>3. /\ DOMAIN db' = DOMAIN db
        /\ \A d \in DOMAIN db : db'[d].table = db[d].table
        /\ \A d \in DOMAIN db \ DOMAIN u : db'[d] = db[d]
        /\ \A d \in DOMAIN u : db[d].status = "absent" => db'[d] = u[d]
    BY DEF Commits, Grown
  <1>4. \A d \in DOMAIN u : req[p].dirty[d] = ToWrite(u[d], db[d])
    BY <1>1 DEF IsRun, Write
  <1>5. \A d \in DOMAIN u : db'[d] = Saved(p, d)
    <2> DEFINE saved == [d \in DOMAIN u |-> Saved(p, d)]
    <2>1. db' = And(saved, db) BY DEF Write
    <2>2. DOMAIN saved = DOMAIN u /\ \A d \in DOMAIN u : saved[d] = Saved(p, d) OBVIOUS
    <2> HIDE DEF saved, u
    <2> QED BY <2>1, <2>2 DEF And
  <1> HIDE DEF u
  <1>6. ASSUME NEW d \in Brought(u)
        PROVE  d \in ModelIn(db', k) /\ db'[d] = u[d]
    <2>1. d \in DOMAIN u /\ u[d].status # "absent" BY DEF Brought
    <2>2. /\ db[d].table = "read_model" /\ db[d].status = "absent" /\ u[d].projection = k
      BY <1>6, <2>1 DEF Swaps, u
    <2> QED BY <1>2, <1>3, <2>1, <2>2 DEF ModelIn, Stored
  <1>7. ASSUME NEW d \in DOMAIN u \ Brought(u)
        PROVE  db'[d].status = "absent"
    <2>1. u[d].status = "absent" BY DEF Brought
    <2>2. CASE db[d].status = "absent" BY <1>3, <2>1, <2>2
    <2>3. CASE db[d].status # "absent"
      <3>1. db'[d] = Updated(db[d], u[d]) BY <1>4, <1>5, <2>3, Unmixed DEF Saved, Present, u
      <3>2. "status" \in DOMAIN db[d] BY <1>2 DEF BackOfficeInv, Held, Rowed
      <3>3. "status" \in DOMAIN u[d]
        <4>1. u[d] = Absent("read_model") BY <1>7 DEF Swaps, u
        <4> QED BY <4>1 DEF Absent
      <3> QED BY <2>1, <2>3, <3>1, <3>2, <3>3 DEF Updated
    <2> QED BY <2>2, <2>3
  <1>8. ASSUME NEW d \in ModelIn(db', k), d \notin DOMAIN u PROVE FALSE
    <2>1. d \in ModelIn(db, k) BY <1>3, <1>8 DEF ModelIn, Stored
    <2> QED BY <1>8, <2>1 DEF Swaps, u
  <1>9. \A d : d \in ModelIn(db', k) <=> d \in Brought(u)
    BY <1>6, <1>7, <1>8 DEF ModelIn, Stored
  <1>10. ModelIn(db', k) = Brought(u) BY <1>9
  <1>11. ResultIn(db', k) = {u[d] : d \in Brought(u)} BY <1>6, <1>10 DEF ResultIn
  <1>12. seen = {u[d] : d \in Brought(u)} BY DEF Swaps, u
  <1> QED BY <1>11, <1>12

\* No projection gets a second cursor.
LEMMA CursorsDiffer ==
    ASSUME BackOfficeInv, NEW u, UnitOK(db, contended, u), Commits(db, db', contended, u),
           Unique(db, u),
           NEW a \in Stored(db', "cursor"), NEW c \in Stored(db', "cursor"), db'[a].key = db'[c].key
    PROVE  a = c
  <1>0. "cursor" \in Lasting /\ "key" \in Columns("cursor") /\ "key" \in Fixed
    BY TablesLast DEF Columns, Fixed
  <1>1. \A d \in Stored(db, "cursor") :
            /\ d \in DOMAIN db /\ db[d].table = "cursor" /\ db[d].status # "absent"
            /\ "key" \in DOMAIN db[d] /\ db'[d].key = db[d].key
    BY <1>0, Inserted DEF BackOfficeInv, Sound, Stored
  <1>2. \A d \in Stored(db', "cursor") : d \notin Stored(db, "cursor") =>
            /\ d \in DOMAIN u /\ db[d].table = "cursor" /\ db[d].status = "absent"
            /\ Fresh(db, contended, u, d, "cursor") /\ db'[d] = u[d]
            /\ "key" \in DOMAIN u[d] /\ u[d].key # None
    BY <1>0, Inserted DEF Fresh
  <1>3. \A d \in Stored(db', "cursor"), x \in Stored(db, "cursor") :
            d \notin Stored(db, "cursor") => db'[d].key # db'[x].key
    BY <1>0, <1>1, <1>2 DEF Unique, Stored
  <1>4. CASE a \in Stored(db, "cursor") /\ c \in Stored(db, "cursor")
    BY <1>1, <1>4 DEF BackOfficeInv, ModelInv, ModelsOK
  <1>5. CASE a \notin Stored(db, "cursor") /\ c \notin Stored(db, "cursor")
    BY <1>2, <1>5 DEF Fresh
  <1> QED BY <1>3, <1>4, <1>5

\* The rows of read models that are there stay what they are, or are deleted; those the
\* writer inserts are of its projection, and nobody else has them in hand.
LEMMA ModelRows ==
    ASSUME BackOfficeInv, NEW p \in Workers, Write(p), Commits(db, db', contended, Unit(p)),
           NEW d \in Stored(db', "read_model")
    PROVE  /\ "projection" \in DOMAIN db'[d]
           /\ \/ d \in Stored(db, "read_model") /\ db'[d].projection = db[d].projection
              \/ /\ d \in Brings(db, req[p])
                 /\ \E c \in DOMAIN req[p].base :
                        /\ c \in Stored(db, "cursor") /\ db'[d].projection = db[c].key
  <1> DEFINE u == Unit(p)
  <1>1. u = req[p].todo[1] BY FirstUnit DEF Write
  <1>2. DOMAIN u \subseteq DOMAIN req[p].base /\ DOMAIN u \subseteq DOMAIN db
    BY UnitBelongs DEF Commits
  <1>3. /\ d \in DOMAIN db /\ db[d].table = "read_model" /\ db'[d].status # "absent"
        /\ d \notin DOMAIN u => db'[d] = db[d]
        /\ d \in DOMAIN u /\ db[d].status = "absent" => db'[d] = u[d]
    BY DEF Commits, Grown, Stored
  <1>4. d \in DOMAIN u /\ db[d].status # "absent" =>
            /\ DOMAIN db'[d] = DOMAIN db[d]
            /\ \A f \in DOMAIN db[d] : f \notin DOMAIN u[d] => db'[d][f] = db[d][f]
    BY WriteSaves DEF BackOfficeInv
  <1>5. db[d].status # "absent" => "projection" \in DOMAIN db[d]
    BY <1>3 DEF BackOfficeInv, ModelInv, ModelsOK, Stored
  <1> HIDE DEF u
  <1>6. CASE d \notin DOMAIN u BY <1>3, <1>5, <1>6 DEF Stored
  <1>7. CASE d \in DOMAIN u
    <2>1. PICK c \in DOMAIN req[p].base :
              /\ IsRun(db, contended, req[p], c)
              /\ Starts(db, req[p], c) \/ Finishes(db, contended, req[p], c)
      BY <1>3, <1>7, WriterRuns DEF Models, u
    <2>2. db[c].table = "cursor" /\ c \in DOMAIN db
      BY <2>1 DEF IsRun, BackOfficeInv, Held, RequestFits
    <2>3. Finishes(db, contended, req[p], c) /\ Len(req[p].todo) = 2
      BY <1>1, <1>3, <1>7, <2>1, <2>2 DEF Starts, Finishes
    <2>4. PICK seen : Swaps(db, contended, u, c, seen) BY <1>1, <2>3 DEF Finishes
    <2>5. c \in Stored(db, "cursor") BY <2>2, <2>3 DEF Finishes, Stored
    <2>6. CASE d \in Brought(u)
      <3>1. /\ db[d].status = "absent" /\ "projection" \in DOMAIN u[d]
            /\ u[d].projection = db[c].key
        BY <2>4, <2>6 DEF Swaps
      <3>2. d \in Brings(db, req[p]) BY <1>1, <1>2, <1>3, <1>7, <2>3, <2>6 DEF Brings
      <3> QED BY <1>3, <1>7, <2>5, <3>1, <3>2
    <2>7. CASE d \notin Brought(u)
      <3>1. u[d] = Absent("read_model") BY <1>7, <2>4, <2>7 DEF Swaps
      <3>2. u[d].status = "absent" /\ "projection" \notin DOMAIN u[d] BY <3>1 DEF Absent
      <3>3. db[d].status # "absent" BY <1>3, <1>7, <3>2
      <3> QED BY <1>3, <1>4, <1>5, <1>7, <3>2, <3>3 DEF Stored
    <2> QED BY <2>6, <2>7
  <1> QED BY <1>6, <1>7

\* A cursor in the transaction says what is stored after it, and is not changed but by
\* its run.
LEMMA CursorRows ==
    ASSUME BackOfficeInv, NEW p \in Workers, Write(p), UnitOK(db, contended, Unit(p)),
           Commits(db, db', contended, Unit(p)), NEW c \in DOMAIN db, db[c].table = "cursor"
    PROVE  /\ c \in Stored(db, "cursor") => /\ c \in Stored(db', "cursor")
                                            /\ db'[c].key = db[c].key
           /\ c \in DOMAIN Unit(p) => c \in Stored(db', "cursor")
           /\ c \notin DOMAIN Unit(p) => db'[c] = db[c]
           /\ c \in DOMAIN Unit(p) \ contended =>
                  /\ db'[c].status = Unit(p)[c].status
                  /\ db[c].status # "absent" =>
                         /\ db'[c].rowsProjected = Unit(p)[c].rowsProjected
                         /\ db'[c].seen = Unit(p)[c].seen
  <1> DEFINE u == Unit(p)
  <1>0. /\ "cursor" \in Lasting /\ "cursor" # "production_order" /\ "key" \in Fixed
        /\ Columns("cursor") = {"key", "rowsProjected", "seen"}
    BY TablesLast DEF Columns, Fixed
  <1>1. db[c].status # "absent" => Columns("cursor") \subseteq DOMAIN db[c]
    BY <1>0 DEF BackOfficeInv, Sound
  <1>2. "status" \in DOMAIN db'[c] BY WriteKeeps DEF BackOfficeInv, Rowed
  <1> HIDE DEF u
  <1>3. /\ db'[c].table = "cursor" /\ c \in DOMAIN db'
        /\ db[c].status # "absent" =>
               /\ db'[c].status # "absent" /\ DOMAIN db'[c] = DOMAIN db[c]
               /\ db'[c].key = db[c].key
        /\ c \in DOMAIN u => db'[c].status # "absent"
        /\ c \notin DOMAIN u => db'[c] = db[c]
        /\ c \in DOMAIN u /\ db[c].status = "absent" => db'[c] = u[c]
    BY <1>0, <1>1 DEF Commits, Grown, u
  <1>4. c \in DOMAIN u \ contended /\ db[c].status # "absent" =>
            DOMAIN u[c] = DOMAIN db'[c] /\ \A f \in DOMAIN u[c] : db'[c][f] = u[c][f]
    BY <1>0 DEF Commits, u
  <1> QED BY <1>0, <1>1, <1>2, <1>3, <1>4 DEF Stored, u

LEMMA CursorModelled ==
    ASSUME BackOfficeInv, NEW p \in Workers, Write(p), UnitOK(db, contended, Unit(p)),
           Commits(db, db', contended, Unit(p)), NEW c \in Stored(db', "cursor") \ contended
    PROVE  Modelled(db', c)
  <1> DEFINE u == Unit(p)
  <1>1. u = req[p].todo[1] BY FirstUnit DEF Write
  <1>2. DOMAIN u \subseteq DOMAIN req[p].base BY UnitBelongs
  <1>3. c \in DOMAIN db /\ db[c].table = "cursor" BY DEF Commits, Grown, Stored
  <1>4. /\ c \in Stored(db, "cursor") => db'[c].key = db[c].key
        /\ c \notin DOMAIN u => db'[c] = db[c]
        /\ c \in DOMAIN u =>
               /\ db'[c].status = u[c].status
               /\ db[c].status # "absent" => /\ db'[c].rowsProjected = u[c].rowsProjected
                                             /\ db'[c].seen = u[c].seen
    BY <1>3, CursorRows
  <1> HIDE DEF u
  <1>5. CASE c \in DOMAIN u
    <2>1. PICK x \in DOMAIN req[p].base :
              /\ IsRun(db, contended, req[p], x)
              /\ Starts(db, req[p], x) \/ Finishes(db, contended, req[p], x)
      BY <1>3, <1>5, WriterRuns DEF Models, u
    <2>2. x = c BY <1>2, <1>3, <1>5, <2>1 DEF IsRun
    <2>3. CASE Starts(db, req[p], c)
      <3>1. db'[c].status = "running" BY <1>1, <1>4, <1>5, <2>3 DEF Starts
      <3> QED BY <3>1 DEF Modelled
    <2>4. CASE Finishes(db, contended, req[p], c)
      <3>1. Len(req[p].todo) = 1
        BY <1>1, <1>3, <1>5, <2>4 DEF Finishes, Swaps
      <3>2. u[c].status = "idle" /\ u[c].rowsProjected > 0 => ResultIn(db, db[c].key) = u[c].seen
        BY <1>1, <2>4, <3>1 DEF Finishes
      <3>3. ResultIn(db', db[c].key) = ResultIn(db, db[c].key) BY <3>1, ModelSpared
      <3>4. c \in Stored(db, "cursor") BY <1>3, <2>4 DEF Finishes, Stored
      <3>5. db[c].status # "absent" BY <3>4 DEF Stored
      <3> QED BY <1>4, <1>5, <3>2, <3>3, <3>4, <3>5 DEF Modelled
    <2> QED BY <2>1, <2>2, <2>3, <2>4
  <1>6. CASE c \notin DOMAIN u
    <2>1. db'[c] = db[c] /\ c \in Stored(db, "cursor") BY <1>3, <1>4, <1>6 DEF Stored
    <2>2. Modelled(db, c) BY <2>1 DEF BackOfficeInv, ModelInv, ModelsOK
    <2>3. CASE \E x \in DOMAIN req[p].base : /\ x \in Stored(db, "cursor") /\ db[x].key = db[c].key
                                             /\ Len(req[p].todo) = 2
      <3>1. c \in DOMAIN req[p].base /\ Len(req[p].todo) = 2
        BY <2>1, <2>3 DEF BackOfficeInv, ModelInv, ModelsOK
      <3>2. PICK x \in DOMAIN req[p].base : IsRun(db, contended, req[p], x)
        BY <1>3, <3>1 DEF BackOfficeInv, ModelInv, Running, Models
      <3>3. x = c BY <1>3, <3>1, <3>2 DEF IsRun
      <3>4. db[c].status = "running"
        BY <3>1, <3>2, <3>3 DEF IsRun, Starts, Projects, Refreshes, Finishes, Underway
      <3> QED BY <2>1, <3>4 DEF Modelled
    <2>4. CASE ~\E x \in DOMAIN req[p].base : /\ x \in Stored(db, "cursor") /\ db[x].key = db[c].key
                                              /\ Len(req[p].todo) = 2
      <3>1. ResultIn(db', db[c].key) = ResultIn(db, db[c].key) BY <2>4, ModelSpared
      <3> QED BY <2>1, <2>2, <3>1 DEF Modelled
    <2> QED BY <2>3, <2>4
  <1> QED BY <1>5, <1>6

\* The runs of the others go on undisturbed.
LEMMA OthersRunning ==
    ASSUME BackOfficeInv, NEW p \in Workers, Write(p), UnitOK(db, contended, Unit(p)),
           Commits(db, db', contended, Unit(p)), NEW q \in Workers \ {p}
    PROVE  Running(db', contended, req[q])
  <1> DEFINE r == req[q]
             u == Unit(p)
  <1>1. RequestFits(db, contended, r, {}, Lasting) BY DEF BackOfficeInv, Held
  <1>2. /\ DOMAIN r.base \subseteq DOMAIN db
        /\ \A i \in 1 .. Len(r.todo) : DOMAIN r.todo[i] \subseteq DOMAIN r.base
    BY <1>1 DEF RequestFits, UnitFits
  <1>3. /\ DOMAIN u \subseteq DOMAIN req[p].base
        /\ \A d \in DOMAIN db : db'[d].table = db[d].table
        /\ \A d \in DOMAIN db \ DOMAIN u : db'[d] = db[d]
        /\ DOMAIN db' = DOMAIN db
    BY UnitBelongs DEF Commits, Grown
  <1>4. /\ Alone(db, contended, r, req[p]) /\ Alone(db, contended, req[p], r)
        /\ Running(db, contended, r)
    BY DEF BackOfficeInv, ModelInv
  <1> HIDE DEF u, r
  <1>5. SUFFICES ASSUME NEW d \in DOMAIN r.base, db'[d].table \in Models
                 PROVE  \E c \in DOMAIN r.base : IsRun(db', contended, r, c)
    BY DEF Running, r
  <1>6. PICK c \in DOMAIN r.base : IsRun(db, contended, r, c)
    BY <1>2, <1>3, <1>4, <1>5 DEF Running
  <1>7. c \in DOMAIN db /\ db[c].table = "cursor" BY <1>2, <1>6 DEF IsRun
  <1>8. db[c].status # "absent" =>
            /\ db'[c].status # "absent" /\ db'[c].key = db[c].key
            /\ c \in Stored(db, "cursor")
    BY <1>7, CursorRows DEF Stored
  <1>9. c \notin contended => \A x \in DOMAIN r.base : x \notin DOMAIN req[p].base /\ db'[x] = db[x]
    BY <1>2, <1>3, <1>4, <1>7 DEF Alone
  <1>10. \A x \in Brings(db, r) : x \in DOMAIN r.base /\ db'[x] = db[x]
    BY <1>2, <1>3, <1>4 DEF Alone, Brings
  <1>11. ASSUME c \notin contended, db[c].status # "absent"
         PROVE  /\ ModelIn(db', db[c].key) = ModelIn(db, db[c].key)
                /\ ResultIn(db', db[c].key) = ResultIn(db, db[c].key)
    <2>1. ~\E x \in DOMAIN req[p].base : /\ x \in Stored(db, "cursor") /\ db[x].key = db[c].key
                                         /\ Len(req[p].todo) = 2
      BY <1>8, <1>9, <1>11 DEF BackOfficeInv, ModelInv, ModelsOK
    <2> QED BY <2>1, ModelSpared
  <1>12. ASSUME NEW x \in DOMAIN r.base \ {c}, db'[x].status # "absent"
         PROVE  db'[c].status # "absent" /\ db'[x].projection = db'[c].key
    <2>1. x \in DOMAIN db /\ db[x].table = "read_model" BY <1>2, <1>6 DEF IsRun
    <2>2. x \in Stored(db', "read_model") BY <1>3, <1>12, <2>1 DEF Stored
    <2>3. x \notin Brings(db, req[p]) BY <1>4 DEF Alone
    <2>4. x \in Stored(db, "read_model") /\ db'[x].projection = db[x].projection
      BY <2>2, <2>3, ModelRows
    <2>5. db[c].status # "absent" /\ db[x].projection = db[c].key BY <1>6, <2>4 DEF IsRun, Stored
    <2> QED BY <1>8, <2>4, <2>5
  <1>13. ASSUME Underway(db, contended, r, c)
         PROVE  Underway(db', contended, r, c)
    BY <1>8, <1>9, <1>13 DEF Underway
  <1>14. CASE Starts(db, r, c)
    <2>1. Starts(db', r, c) BY <1>14 DEF Starts
    <2>2. c \notin contended /\ r.pc = "write" =>
             \A x \in DOMAIN r.todo[1] : r.dirty[x] = ToWrite(r.todo[1][x], db'[x])
      BY <1>6, <1>9, <1>14 DEF Starts, IsRun
    <2> QED BY <1>2, <1>3, <1>6, <1>12, <2>1, <2>2 DEF IsRun
  <1>15. CASE Projects(db, contended, r, c)
    <2>1. Projects(db', contended, r, c) BY <1>13, <1>15 DEF Projects
    <2>2. r.pc # "write" BY <1>15 DEF Projects
    <2> QED BY <1>2, <1>3, <1>6, <1>12, <2>1, <2>2 DEF IsRun
  <1>16. CASE Refreshes(db, contended, r, c)
    <2>1. ASSUME NEW x \in DOMAIN r.base \ {c}
          PROVE  /\ db'[x].status = "absent" /\ r.base[x].status # "absent"
                 /\ "projection" \in DOMAIN r.base[x] /\ r.base[x].projection = db'[c].key
      <3>1. x \in Brings(db, r) BY <1>6, <1>16 DEF Brings, IsRun, Refreshes
      <3> QED BY <1>8, <1>10, <1>16, <3>1 DEF Refreshes, Underway
    <2>2. Refreshes(db', contended, r, c) BY <1>13, <1>16, <2>1 DEF Refreshes
    <2>3. r.pc # "write" BY <1>16 DEF Refreshes
    <2> QED BY <1>2, <1>3, <1>6, <1>12, <2>2, <2>3 DEF IsRun
  <1>17. CASE Finishes(db, contended, r, c)
    <2> DEFINE done == r.todo[Len(r.todo)]
    <2>1. /\ r.pc \in {"reload", "write"} /\ r.then = "idle" /\ Len(r.todo) \in 1 .. 2
          /\ DOMAIN done = {c} /\ db[c].status # "absent"
      BY <1>17 DEF Finishes
    <2>2. db'[c].status # "absent" /\ db'[c].key = db[c].key BY <1>8, <2>1
    <2>3. DOMAIN r.todo[1] \subseteq DOMAIN r.base BY <1>2, <2>1
    <2>4. c \notin contended /\ r.pc = "write" =>
             \A x \in DOMAIN r.todo[1] : r.dirty[x] = ToWrite(r.todo[1][x], db'[x])
      BY <1>6, <1>9, <2>3 DEF IsRun
    <2>5. CASE Len(r.todo) = 1
      <3>1. c \notin contended /\ done[c].status = "idle" /\ done[c].rowsProjected > 0 =>
                ResultIn(db', db'[c].key) = done[c].seen
        BY <1>11, <1>17, <2>1, <2>2, <2>5 DEF Finishes
      <3>2. Finishes(db', contended, r, c) BY <2>1, <2>2, <2>5, <3>1 DEF Finishes
      <3> QED BY <1>2, <1>3, <1>6, <1>12, <2>4, <3>2 DEF IsRun
    <2>6. CASE Len(r.todo) # 1
      <3>1. Len(r.todo) = 2 BY <2>1, <2>6
      <3> DEFINE v == r.todo[1]
      <3>2. Swaps(db, contended, v, c, done[c].seen) BY <1>17, <3>1 DEF Finishes
      <3>3. \A x \in DOMAIN v : x \in DOMAIN r.base /\ x \in DOMAIN db /\ db'[x].table = "read_model"
        BY <1>2, <1>3, <2>3, <3>2 DEF Swaps
      <3>4. \A x \in Brought(v) : db'[x].status = "absent"
        <4> TAKE x \in Brought(v)
        <4>1. x \in DOMAIN v BY DEF Brought
        <4>2. x \in Brings(db, r) BY <1>3, <3>1, <3>3, <4>1 DEF Brings
        <4> QED BY <1>10, <3>2, <4>2 DEF Swaps
      <3>5. c \notin contended => ModelIn(db', db'[c].key) \subseteq DOMAIN v \ Brought(v)
        BY <1>11, <2>1, <2>2, <3>2 DEF Swaps
      <3> HIDE DEF v
      <3>6. Swaps(db', contended, v, c, done[c].seen) BY <2>2, <3>2, <3>3, <3>4, <3>5 DEF Swaps
      <3>7. c \notin contended => db'[c].status = "running" BY <1>9, <1>17, <3>1 DEF Finishes
      <3>8. Finishes(db', contended, r, c) BY <2>1, <2>2, <3>1, <3>6, <3>7 DEF Finishes, v
      <3> QED BY <1>2, <1>3, <1>6, <1>12, <2>4, <3>8 DEF IsRun
    <2> QED BY <2>5, <2>6
  <1> QED BY <1>6, <1>14, <1>15, <1>16, <1>17 DEF IsRun

\* A sequence of one element is not the empty one.
LEMMA OneIsNotNone ==
    ASSUME NEW seq, Len(seq) = 1
    PROVE  seq # <<>>
  <1> SUFFICES ASSUME seq = <<>> PROVE FALSE OBVIOUS
  <1>1. Len(<<>>) = 0 OBVIOUS
  <1>2. Len(seq) = Len(<<>>) BY Zenon
  <1>3. 1 = 0 BY <1>1, <1>2, Zenon
  <1> QED BY <1>3

\* What the writer has in hand after it.
LEMMA WriterAt ==
    ASSUME BackOfficeInv, NEW p \in Workers, Write(p)
    PROVE  LET r == req[p]
               s == req'[p]
           IN  \/ s = Idle /\ DOMAIN s.base = {}
               \/ /\ DOMAIN s.base = DOMAIN r.base
                  /\ \A d \in DOMAIN Unit(p) : s.base[d] = db'[d]
                  /\ s.todo = Tail(r.todo) /\ s.then = r.then
                  /\ s.pc = IF Tail(r.todo) = <<>> THEN r.then ELSE "reload"
                  /\ ~(Tail(r.todo) = <<>> /\ r.then = "idle")
  <1> DEFINE u    == Unit(p)
             saved == [d \in DOMAIN u |-> Saved(p, d)]
             b    == And(saved, req[p].base)
             todo == Tail(req[p].todo)
             then == req[p].then
  <1>1. DOMAIN u \subseteq DOMAIN req[p].base BY UnitBelongs
  <1>2. req'[p] = At(b, todo, then) BY DEF Write, BackOfficeInv, Held
  <1>3. db' = And(saved, db) BY DEF Write
  <1>4. DOMAIN saved = DOMAIN u OBVIOUS
  <1> HIDE DEF u, saved
  <1>5. DOMAIN b = DOMAIN req[p].base /\ \A d \in DOMAIN u : b[d] = db'[d]
    BY <1>1, <1>3, <1>4 DEF And
  <1> HIDE DEF b, todo, then
  <1>6. CASE todo = <<>> /\ then = "idle"
    <2>1. req'[p] = Idle BY <1>2, <1>6 DEF At
    <2>2. DOMAIN Idle.base = {} BY DEF Idle, Nothing
    <2> QED BY <2>1, <2>2
  <1>7. CASE ~(todo = <<>> /\ then = "idle")
    <2>1. /\ req'[p].pc = IF todo = <<>> THEN then ELSE "reload"
          /\ req'[p].base = b /\ req'[p].todo = todo /\ req'[p].then = then
      BY <1>2, <1>7 DEF At
    <2> QED BY <1>5, <1>7, <2>1 DEF todo, then, u
  <1> QED BY <1>6, <1>7

\* Its run goes on, with nothing more to insert.
LEMMA WriterRunning ==
    ASSUME BackOfficeInv, NEW p \in Workers, Write(p), UnitOK(db, contended, Unit(p)),
           Commits(db, db', contended, Unit(p))
    PROVE  Running(db', contended, req'[p]) /\ Brings(db', req'[p]) = {}
  <1> DEFINE r == req[p]
             s == req'[p]
             u == Unit(p)
  <1>1. /\ u = r.todo[1] /\ Len(r.todo) \in Nat \ {0}
        /\ Len(Tail(r.todo)) = Len(r.todo) - 1 /\ \E S : Tail(r.todo) \in Seq(S)
        /\ \A i \in 1 .. Len(Tail(r.todo)) : Tail(r.todo)[i] = r.todo[i + 1]
    BY FirstUnit DEF Write
  <1>2. \A d \in DOMAIN r.base : d \in DOMAIN db /\ d \in DOMAIN db' /\ db'[d].table = db[d].table
    BY DEF BackOfficeInv, Held, RequestFits, Commits, Grown
  <1>3. Running(db, contended, r) /\ r.pc = "write" BY DEF BackOfficeInv, ModelInv, Write
  <1>4. CASE s = Idle /\ DOMAIN s.base = {}
    BY <1>4 DEF Running, Brings
  <1>5. CASE ~\E d \in DOMAIN r.base : db[d].table \in Models
    <2>1. \A d \in DOMAIN s.base : d \in DOMAIN r.base BY WriterAt
    <2>2. \A d \in DOMAIN s.base : db'[d].table \notin Models BY <1>2, <1>5, <2>1
    <2> QED BY <2>2 DEF Running, Brings, Models
  <1>6. CASE ~(s = Idle /\ DOMAIN s.base = {}) /\ \E d \in DOMAIN r.base : db[d].table \in Models
    <2>1. /\ DOMAIN s.base = DOMAIN r.base /\ \A d \in DOMAIN u : s.base[d] = db'[d]
          /\ s.todo = Tail(r.todo) /\ s.then = r.then
          /\ s.pc = IF Tail(r.todo) = <<>> THEN r.then ELSE "reload"
          /\ ~(Tail(r.todo) = <<>> /\ r.then = "idle")
      BY <1>6, WriterAt
    <2>2. PICK c \in DOMAIN r.base : IsRun(db, contended, r, c) BY <1>3, <1>6 DEF Running
    <2>3. c \in DOMAIN db /\ db[c].table = "cursor" /\ db'[c].table = "cursor"
      BY <1>2, <2>2 DEF IsRun
    <2>4. Starts(db, r, c) \/ Finishes(db, contended, r, c)
      BY <1>3, <2>2 DEF IsRun, Projects, Refreshes
    <2> HIDE DEF u, r, s
    <2>5. Len(r.todo) = 1 => Tail(r.todo) = <<>>
      <3> DEFINE rest == Tail(r.todo)
      <3>1. PICK S : rest \in Seq(S) BY <1>1
      <3>2. Len(r.todo) = 1 => Len(rest) = 0 BY <1>1
      <3> HIDE DEF rest
      <3>3. Len(r.todo) = 1 => rest = <<>> BY <3>1, <3>2
      <3> QED BY <3>3 DEF rest
    <2>6. CASE Starts(db, r, c)
      <3>1. /\ s.todo = <<>> /\ s.then = "project" /\ s.pc = "project" /\ DOMAIN s.base = {c}
            /\ DOMAIN u = {c} /\ u[c].status = "running"
        BY <1>1, <2>1, <2>5, <2>6 DEF Starts
      <3>2. c \in Stored(db', "cursor") /\ (c \notin contended => db'[c].status = "running")
        BY <2>3, <3>1, CursorRows DEF u
      <3>3. s.base[c] = db'[c] BY <2>1, <3>1
      <3>4. Projects(db', contended, s, c) BY <3>1, <3>2, <3>3 DEF Projects, Underway, Stored
      <3>5. IsRun(db', contended, s, c) BY <2>3, <3>1, <3>4 DEF IsRun
      <3>6. Len(s.todo) = 0
        <4>1. Len(<<>>) = 0 OBVIOUS
        <4> QED BY <3>1, <4>1
      <3> QED BY <3>1, <3>5, <3>6 DEF Running, Brings, s
    <2>7. CASE Finishes(db, contended, r, c)
      <3> DEFINE done == r.todo[2]
      <3>1. Len(r.todo) = 2 BY <2>1, <2>5, <2>7 DEF Finishes
      <3>2. /\ Swaps(db, contended, u, c, done[c].seen) /\ DOMAIN done = {c}
            /\ r.then = "idle" /\ db[c].status # "absent"
        BY <1>1, <2>7, <3>1 DEF Finishes
      <3>3. Len(s.todo) = 1 /\ s.todo[1] = done BY <1>1, <2>1, <3>1
      <3>4. s.pc = "reload" /\ s.then = "idle"
        <4>1. Tail(r.todo) # <<>>
          <5> DEFINE rest == Tail(r.todo)
          <5>1. Len(rest) = 1 BY <1>1, <3>1
          <5> HIDE DEF rest
          <5>2. rest # <<>> BY <5>1, OneIsNotNone, Zenon
          <5> QED BY <5>2 DEF rest
        <4> QED BY <2>1, <3>2, <4>1
      <3>5. c \in Stored(db, "cursor") BY <2>3, <3>2 DEF Stored
      <3>6. db'[c].status # "absent" /\ db'[c].key = db[c].key
        BY <2>3, <3>5, CursorRows DEF Stored
      <3>7. c \notin contended => ResultIn(db', db[c].key) = done[c].seen
        BY <2>2, <3>2, ModelReplaced DEF u, r
      <3>8. Finishes(db', contended, s, c)
        <4> HIDE DEF done
        <4> QED BY <3>2, <3>3, <3>4, <3>6, <3>7 DEF Finishes
      <3>9. ASSUME NEW x \in DOMAIN s.base \ {c}
            PROVE  /\ db'[x].table = "read_model"
                   /\ db'[x].status # "absent" =>
                          db'[c].status # "absent" /\ db'[x].projection = db'[c].key
        <4>1. x \in DOMAIN r.base /\ db[x].table = "read_model" BY <2>1, <2>2 DEF IsRun
        <4>2. db'[x].table = "read_model" /\ x \in DOMAIN db' BY <1>2, <4>1 DEF r
        <4>3. CASE db'[x].status # "absent"
          <5>1. x \in Stored(db', "read_model") BY <4>2, <4>3 DEF Stored
          <5>2. CASE x \in Stored(db, "read_model") /\ db'[x].projection = db[x].projection
            BY <2>2, <3>6, <3>9, <4>1, <4>2, <5>2 DEF IsRun, Stored
          <5>3. CASE \E y \in DOMAIN r.base :
                        y \in Stored(db, "cursor") /\ db'[x].projection = db[y].key
            <6>1. PICK y \in DOMAIN r.base :
                      y \in Stored(db, "cursor") /\ db'[x].projection = db[y].key
              BY <5>3
            <6>2. y = c BY <2>2, <6>1 DEF IsRun, Stored
            <6> QED BY <3>6, <4>2, <6>1, <6>2
          <5> QED BY <5>1, <5>2, <5>3, ModelRows DEF r
        <4> QED BY <4>2, <4>3
      <3>10. IsRun(db', contended, s, c) BY <2>3, <3>4, <3>8, <3>9 DEF IsRun
      <3>11. Brings(db', s) = {} BY <3>3, <3>4 DEF Brings
      <3>12. c \in DOMAIN s.base BY <2>1
      <3> QED BY <3>10, <3>11, <3>12 DEF Running, s
    <2> QED BY <2>4, <2>6, <2>7
  <1> QED BY <1>4, <1>5, <1>6

LEMMA WriteModels ==
    ASSUME BackOfficeInv, NEW p \in Workers, Write(p), UnitOK(db, contended, Unit(p)),
           Commits(db, db', contended, Unit(p)), Unique(db, Unit(p))
    PROVE  ModelInv'
  <1>1. contended' = contended /\ \A q \in Workers \ {p} : req'[q] = req[q]
    BY DEF Write, BackOfficeInv, Held
  <1>2. ModelsOK(db', contended)
    <2>1. \A a, c \in Stored(db', "cursor") : db'[a].key = db'[c].key => a = c
      BY CursorsDiffer
    <2>2. \A d \in Stored(db', "read_model") : "projection" \in DOMAIN db'[d] BY ModelRows
    <2>3. \A c \in Stored(db', "cursor") \ contended : Modelled(db', c) BY CursorModelled
    <2> QED BY <2>1, <2>2, <2>3 DEF ModelsOK
  <1>3. \A q \in Workers : Running(db', contended, req'[q])
    BY <1>1, OthersRunning, WriterRunning
  <1>4. ASSUME NEW q \in Workers, NEW s \in Workers, q # s
        PROVE  Alone(db', contended, req'[q], req'[s])
    <2>1. Alone(db, contended, req[q], req[s]) BY <1>4 DEF BackOfficeInv, ModelInv
    <2>2. \A x \in Workers : DOMAIN req'[x].base \subseteq DOMAIN req[x].base
      BY <1>1, WriterAt
    <2>3. \A d \in DOMAIN req[q].base : db'[d].table = db[d].table
      BY DEF BackOfficeInv, Held, RequestFits, Commits, Grown
    <2>4. Brings(db', req'[q]) \subseteq Brings(db, req[q])
      <3>1. CASE q = p BY <3>1, WriterRunning
      <3>2. CASE q # p BY <1>1, <2>3, <3>2 DEF Brings
      <3> QED BY <3>1, <3>2
    <2> QED BY <2>1, <2>2, <2>3, <2>4 DEF Alone
  <1> QED BY <1>1, <1>2, <1>3, <1>4 DEF ModelInv
LEMMA WriteInv ==
    ASSUME BackOfficeInv, NEW p \in Workers, Write(p)
    PROVE  BackOfficeInv'
  <1>1. Held({}, Lasting) /\ Sound(db, contended) BY DEF BackOfficeInv
  <1>2. UnitOK(db, contended, Unit(p)) /\ Commits(db, db', contended, Unit(p)) BY Commit
  <1>3. /\ UnitFits(db, Unit(p), DOMAIN req[p].base, {}, Lasting)
        /\ \A d \in DOMAIN db : Rowed(db'[d])
    BY <1>1, WriteSaves, WriteKeeps
  <1>4. Unique(db, Unit(p)) BY <1>3, NotTaken
  <1>5. Sound(db', contended) BY <1>1, <1>2, <1>3, <1>4, StillSound
  <1>6. Grown(db, db') BY <1>2 DEF Commits
  <1>7. \A q \in Workers : PendingOK(db', contended, req'[q])
    <2> TAKE q \in Workers
    <2>1. CASE q = p BY <1>6, <2>1, WriterPending
    <2>2. CASE q # p
      <3>1. req'[q] = req[q] BY <1>1, <2>2 DEF Write, Held
      <3> QED BY <1>2, <2>2, <3>1, OthersPending
    <2> QED BY <2>1, <2>2
  <1>8. Held({}, Lasting)' BY <1>1, WriteHeld
  <1>9. contended' = contended /\ calls' = calls /\ now' = now BY DEF Write
  <1>10. ImportInv' BY <1>2, WriteImports
  <1>11. ModelInv' BY <1>2, <1>4, WriteModels
  <1> QED BY <1>5, <1>7, <1>8, <1>9, <1>10, <1>11 DEF BackOfficeInv
-----------------------------------------------------------------------------
(* The other statements, and how a handler starts and goes on.             *)

LEMMA HotterRunning ==
    ASSUME NEW rows, NEW hot, NEW hotter, hot \subseteq hotter, NEW r, Running(rows, hot, r)
    PROVE  Running(rows, hotter, r)
  <1> SUFFICES ASSUME NEW c \in DOMAIN r.base, IsRun(rows, hot, r, c)
               PROVE  IsRun(rows, hotter, r, c)
    BY DEF Running
  <1>1. Projects(rows, hot, r, c) => Projects(rows, hotter, r, c) BY DEF Projects, Underway
  <1>2. Refreshes(rows, hot, r, c) => Refreshes(rows, hotter, r, c) BY DEF Refreshes, Underway
  <1>3. Finishes(rows, hot, r, c) => Finishes(rows, hotter, r, c) BY DEF Finishes, Swaps
  <1> QED BY <1>1, <1>2, <1>3 DEF IsRun

\* A request of worker p that is a run, or has nothing to do with one.
Runs(p, r) ==
    /\ Running(db, contended', r)
    /\ \A q \in Workers \ {p} : Alone(db, contended', r, req[q]) /\ Alone(db, contended', req[q], r)

LEMMA RunsElsewhere ==
    ASSUME BackOfficeInv, NEW p \in Workers, NEW r, contended \subseteq contended',
           \A d \in DOMAIN r.base : db[d].table \notin Models
    PROVE  Runs(p, r)
  <1>1. Running(db, contended', r) BY DEF Running
  <1>2. ASSUME NEW q \in Workers \ {p}
        PROVE  Alone(db, contended', r, req[q]) /\ Alone(db, contended', req[q], r)
    <2>1. Alone(db, contended', r, req[q]) BY DEF Alone, Brings, Models
    <2>2. DOMAIN r.base \cap Brings(db, req[q]) = {} BY DEF Brings, Models
    <2>3. ASSUME NEW c \in DOMAIN req[q].base, db[c].table = "cursor"
          PROVE  DOMAIN req[q].base \cap DOMAIN r.base = {}
      <3>1. PICK x \in DOMAIN req[q].base : IsRun(db, contended, req[q], x)
        BY <2>3 DEF BackOfficeInv, ModelInv, Running, Models
      <3>2. \A d \in DOMAIN req[q].base : db[d].table \in Models BY <3>1 DEF IsRun, Models
      <3> QED BY <3>2
    <2> QED BY <2>1, <2>2, <2>3 DEF Alone
  <1> QED BY <1>1, <1>2 DEF Runs

LEMMA AtBase ==
    ASSUME NEW b, NEW txs, NEW then
    PROVE  DOMAIN At(b, txs, then).base \subseteq DOMAIN b
  <1>1. DOMAIN Idle.base = {} BY DEF Idle, Nothing
  <1>2. CASE txs = <<>> /\ then = "idle" BY <1>1, <1>2 DEF At
  <1>3. CASE ~(txs = <<>> /\ then = "idle") BY <1>3 DEF At
  <1> QED BY <1>2, <1>3

\* A step that gives one worker another request.
LEMMA OnePending ==
    ASSUME BackOfficeInv, NEW p \in Workers, NEW r, Held({}, Lasting)',
           db' = db, req' = [req EXCEPT ![p] = r], contended \subseteq contended',
           PendingOK(db, contended', r), calls' \in 0 .. MaxCalls, now' = now,
           cut \subseteq cut', Importing(db, contended' \cup cut', r),
           \A a \in DOMAIN req[p].base : db[a].table = "bank_account" =>
               a \in DOMAIN r.base \cup contended' \cup cut',
           Runs(p, r)
    PROVE  BackOfficeInv'
  <1>1. \A q \in Workers : req'[q] = IF q = p THEN r ELSE req[q] BY DEF BackOfficeInv, Held
  <1>2. \A q \in Workers : PendingOK(db, contended, req[q]) BY DEF BackOfficeInv
  <1>3. \A q \in Workers : PendingOK(db, contended', req[q]) BY <1>2, Hotter DEF PendingOK, Reports
  <1>4. \A q \in Workers : PendingOK(db, contended', req'[q]) BY <1>1, <1>3
  <1>5. Sound(db, contended') BY DEF BackOfficeInv, Sound
  <1>6. \A q \in Workers : Importing(db, contended' \cup cut', req'[q])
    BY <1>1 DEF BackOfficeInv, ImportInv, Importing, Banking
  <1>7. ASSUME NEW a \in Stored(db, "bank_account") \ (contended' \cup cut'),
               \A q \in Workers : a \notin DOMAIN req'[q].base
        PROVE  Imported(db, a)
    <2>1. \A q \in Workers : a \notin DOMAIN req[q].base
      BY <1>1, <1>7 DEF Stored
    <2> QED BY <1>7, <2>1 DEF BackOfficeInv, ImportInv, Settled
  <1>8. ImportInv' BY <1>6, <1>7 DEF ImportInv, Settled
  <1>9. \A q \in Workers : Running(db, contended', req'[q])
    BY <1>1, HotterRunning DEF BackOfficeInv, ModelInv, Runs
  <1>10. ASSUME NEW q \in Workers, NEW s \in Workers, q # s
         PROVE  Alone(db, contended', req'[q], req'[s])
    <2>1. Alone(db, contended, req[q], req[s]) BY <1>10 DEF BackOfficeInv, ModelInv
    <2>2. Alone(db, contended', req[q], req[s]) BY <2>1 DEF Alone
    <2> QED BY <1>1, <1>10, <2>2 DEF Runs
  <1>11. ModelInv'
    <2>1. ModelsOK(db, contended') BY DEF BackOfficeInv, ModelInv, ModelsOK
    <2> QED BY <1>9, <1>10, <2>1 DEF ModelInv
  <1> QED BY <1>4, <1>5, <1>8, <1>11 DEF BackOfficeInv

LEMMA ReloadInv ==
    ASSUME BackOfficeInv, NEW p \in Workers, Reload(p)
    PROVE  BackOfficeInv'
  <1> DEFINE r == [req[p] EXCEPT !.pc = "write",
                                 !.dirty = [d \in DOMAIN Unit(p) |-> ToWrite(Unit(p)[d], db[d])]]
  <1>1. Held({}, Lasting) BY DEF BackOfficeInv
  <1>2. RequestFits(db, contended, req[p], {}, Lasting) /\ PendingOK(db, contended, req[p])
    BY <1>1 DEF BackOfficeInv, Held
  <1>3. /\ r.pc = "write" /\ r.base = req[p].base /\ r.todo = req[p].todo /\ r.then = req[p].then
    BY <1>2 DEF RequestFits
  <1>4. req' = [req EXCEPT ![p] = r] BY <1>1 DEF Reload, Held
  <1> HIDE DEF r
  <1>5. req[p].pc = "reload" BY DEF Reload
  <1>6. PendingOK(db, contended, r) BY <1>2, <1>3, <1>5 DEF PendingOK, GoesOn
  <1>7. Held({}, Lasting)' BY <1>1, ReloadHeld
  <1>8. /\ db' = db /\ contended' = contended /\ calls' = calls /\ now' = now /\ cut' = cut
    BY DEF Reload
  <1>9. Importing(db, contended \cup cut, r)
    BY <1>3 DEF BackOfficeInv, ImportInv, Importing
  <1>10. Running(db, contended, r)
    <2> SUFFICES ASSUME NEW c \in DOMAIN req[p].base, IsRun(db, contended, req[p], c)
                 PROVE  IsRun(db, contended, r, c)
      BY <1>3 DEF BackOfficeInv, ModelInv, Running
    <2>1. \A d \in DOMAIN req[p].todo[1] : r.dirty[d] = ToWrite(req[p].todo[1][d], db[d])
      <3>1. Unit(p) = req[p].todo[1] BY <1>5, FirstUnit
      <3>2. r.dirty = [d \in DOMAIN Unit(p) |-> ToWrite(Unit(p)[d], db[d])]
        BY <1>2 DEF RequestFits, r
      <3> QED BY <3>1, <3>2
    <2>2. Starts(db, req[p], c) => Starts(db, r, c) BY <1>3 DEF Starts
    <2>3. Finishes(db, contended, req[p], c) => Finishes(db, contended, r, c)
      BY <1>3 DEF Finishes
    <2>4. ~Projects(db, contended, req[p], c) /\ ~Refreshes(db, contended, req[p], c)
      BY <1>5 DEF Projects, Refreshes
    <2> QED BY <1>3, <2>1, <2>2, <2>3, <2>4 DEF IsRun
  <1>11. \A q \in Workers \ {p} : /\ Alone(db, contended, r, req[q])
                                 /\ Alone(db, contended, req[q], r)
    BY <1>3, <1>5 DEF BackOfficeInv, ModelInv, Alone, Brings
  <1>12. Runs(p, r) BY <1>8, <1>10, <1>11 DEF Runs
  <1> QED BY <1>3, <1>4, <1>6, <1>7, <1>8, <1>9, <1>12, OnePending DEF BackOfficeInv

LEMMA LeaveInv ==
    ASSUME BackOfficeInv, NEW p \in Workers, Leave(p)
    PROVE  BackOfficeInv'
  <1>1. Held({}, Lasting)' BY LeaveHeld DEF BackOfficeInv
  <1>2. PendingOK(db, contended, Idle)
    <2>1. /\ Idle.pc = "idle" /\ Idle.then = "idle" /\ Idle.todo = <<>> /\ DOMAIN Idle.base = {}
      BY DEF Idle, Nothing
    <2>2. Len(<<>>) = 0 OBVIOUS
    <2> HIDE DEF Idle
    <2> QED BY <2>1, <2>2 DEF PendingOK, GoesOn, Reports
  <1>3. /\ req' = [req EXCEPT ![p] = Idle] /\ db' = db /\ contended' = contended
        /\ calls' = calls /\ now' = now /\ cut' = cut \cup DOMAIN req[p].base
    BY DEF Leave
  <1>4. DOMAIN Idle.base = {} BY DEF Idle, Nothing
  <1> HIDE DEF Idle
  <1>5. Importing(db, contended' \cup cut', Idle) BY <1>4 DEF Importing, Banking
  <1>6. Runs(p, Idle) BY <1>3, <1>4, RunsElsewhere
  <1> QED BY <1>1, <1>2, <1>3, <1>5, <1>6, OnePending DEF BackOfficeInv

LEMMA StatementsInv ==
    ASSUME BackOfficeInv, NEW p \in Workers, Statements(p)
    PROVE  BackOfficeInv'
  BY ReloadInv, WriteInv, LeaveInv DEF Statements, Refused, Lost

LEMMA BankedAt ==
    ASSUME NEW rows, NEW hot, NEW b, NEW txs, NEW then, then \notin {"reload", "write"},
           Banking(rows, hot, DOMAIN b, txs, then)
    PROVE  Importing(rows, hot, At(b, txs, then))
  <1>1. CASE txs = <<>> /\ then = "idle"
    <2>1. At(b, txs, then) = Idle BY <1>1 DEF At
    <2>2. DOMAIN Idle.base = {} BY DEF Idle, Nothing
    <2> HIDE DEF Idle
    <2> QED BY <2>1, <2>2 DEF Importing, Banking
  <1>2. CASE ~(txs = <<>> /\ then = "idle")
    <2> DEFINE r == At(b, txs, then)
    <2>1. /\ r.pc = IF txs = <<>> THEN then ELSE "reload"
          /\ r.base = b /\ r.todo = txs /\ r.then = then
      BY <1>2 DEF At
    <2> HIDE DEF r
    <2>2. Importing(rows, hot, r) BY <1>2, <2>1 DEF Importing, Banking
    <2> QED BY <2>2 DEF r
  <1> QED BY <1>1, <1>2

\* What a handler may save with the rows of b in hand.
Sane(txs, D) ==
    /\ Savable(txs, D, {}, Lasting)
    /\ \A i \in 1 .. Len(txs) : UnitOK(db, contended, txs[i])
    /\ \A i, j \in 1 .. Len(txs) : i # j => DOMAIN txs[i] \cap DOMAIN txs[j] = {}
    /\ \A i \in 1 .. Len(txs) : Belongs(db, txs[i], D)
    /\ Reports(db, contended, txs)

LEMMA BeginInv ==
    ASSUME BackOfficeInv, NEW p \in Workers, NEW D, Readable(D), NEW txs, Sane(txs, D),
           NEW then, then \notin {"reload", "write"},
           GoesOnWith(db, [d \in D |-> db[d]], txs, then), Begin(p, D, txs, then),
           Banking(db, contended' \cup cut, D, txs, then),
           Runs(p, At([d \in D |-> db[d]], txs, then))
    PROVE  BackOfficeInv'
  <1> DEFINE b == [d \in D |-> db[d]]
  <1>1. Held({}, Lasting) /\ Savable(txs, D, {}, Lasting) BY DEF BackOfficeInv, Sane
  <1>2. Held({}, Lasting)' BY <1>1, BeginHeld
  <1>3. PICK S : txs \in Seq(S) BY <1>1 DEF Savable
  <1>4. DOMAIN b = D /\ \A d \in D : b[d] = db[d] OBVIOUS
  <1>5. GoesOnWith(db, b, txs, then) /\ Runs(p, At(b, txs, then)) OBVIOUS
  <1> HIDE DEF b
  <1>6. \A d \in DOMAIN b : ReadOK(db, d, b[d]) BY <1>1, <1>4, SharedRows DEF Held, ReadOK
  <1>7. PendingOK(db, contended, At(b, txs, then))
    <2>1. \A i \in 1 .. Len(txs) : UnitOK(db, contended, txs[i]) BY DEF Sane
    <2>2. \A i, j \in 1 .. Len(txs) : i # j => DOMAIN txs[i] \cap DOMAIN txs[j] = {} BY DEF Sane
    <2>3. (\A i \in 1 .. Len(txs) : Belongs(db, txs[i], DOMAIN b)) /\ Reports(db, contended, txs)
      BY <1>4 DEF Sane
    <2> QED BY <1>3, <1>5, <1>6, <2>1, <2>2, <2>3, AtPending
  <1>8. /\ req' = [req EXCEPT ![p] = At(b, txs, then)] /\ db' = db /\ now' = now /\ cut' = cut
        /\ contended \subseteq contended' /\ calls' = calls + 1 /\ calls < MaxCalls
        /\ req[p].pc = "idle"
    BY DEF Begin, b, Busy
  <1>9. PendingOK(db, contended', At(b, txs, then))
    BY <1>7, <1>8, Hotter DEF PendingOK, Reports
  <1>10. calls' \in 0 .. MaxCalls BY <1>8, RequestsAssumption DEF BackOfficeInv
  <1>11. Importing(db, contended' \cup cut', At(b, txs, then))
    <2>1. Banking(db, contended' \cup cut', DOMAIN b, txs, then) BY <1>4, <1>8 DEF Banking
    <2> QED BY <2>1, BankedAt
  <1>12. \A a \in DOMAIN req[p].base : db[a].table = "bank_account" => a \in contended \cup cut
    BY <1>8 DEF BackOfficeInv, ImportInv, Importing
  <1> QED BY <1>2, <1>5, <1>8, <1>9, <1>10, <1>11, <1>12, OnePending

LEMMA GoOnInv ==
    ASSUME BackOfficeInv, NEW p \in Workers, NEW D, Readable(D), NEW txs,
           Sane(txs, D \cup DOMAIN req[p].base), NEW pc, pc \notin {"reload", "write"},
           NEW then, then \notin {"reload", "write"},
           GoesOnWith(db, And([d \in D |-> db[d]], req[p].base), txs, then), GoOn(p, pc, D, txs, then),
           \A a \in D : db[a].table # "bank_account",
           Runs(p, At(And([d \in D |-> db[d]], req[p].base), txs, then))
    PROVE  BackOfficeInv'
  <1> DEFINE b == And([d \in D |-> db[d]], req[p].base)
  <1>1. /\ Held({}, Lasting) /\ Savable(txs, D \cup DOMAIN req[p].base, {}, Lasting)
        /\ PendingOK(db, contended, req[p])
    BY DEF BackOfficeInv, Sane
  <1>2. Held({}, Lasting)' BY <1>1, GoOnHeld
  <1>3. PICK S : txs \in Seq(S) BY <1>1 DEF Savable
  <1>4. /\ DOMAIN b = D \cup DOMAIN req[p].base
        /\ \A d \in DOMAIN b : b[d] = IF d \in D THEN db[d] ELSE req[p].base[d]
    BY DEF And
  <1>5. GoesOnWith(db, b, txs, then) /\ Runs(p, At(b, txs, then)) OBVIOUS
  <1> HIDE DEF b
  <1>6. \A d \in DOMAIN b : ReadOK(db, d, b[d])
    BY <1>1, <1>4, SharedRows DEF Held, ReadOK, PendingOK
  <1>7. PendingOK(db, contended, At(b, txs, then))
    <2>1. \A i \in 1 .. Len(txs) : UnitOK(db, contended, txs[i]) BY DEF Sane
    <2>2. \A i, j \in 1 .. Len(txs) : i # j => DOMAIN txs[i] \cap DOMAIN txs[j] = {} BY DEF Sane
    <2>3. (\A i \in 1 .. Len(txs) : Belongs(db, txs[i], DOMAIN b)) /\ Reports(db, contended, txs)
      BY <1>4 DEF Sane
    <2> QED BY <1>3, <1>5, <1>6, <2>1, <2>2, <2>3, AtPending
  <1>8. /\ req' = [req EXCEPT ![p] = At(b, txs, then)] /\ db' = db /\ now' = now /\ cut' = cut
        /\ contended \subseteq contended' /\ calls' = calls /\ req[p].pc = pc
    BY DEF GoOn, b
  <1>9. PendingOK(db, contended', At(b, txs, then))
    BY <1>7, <1>8, Hotter DEF PendingOK, Reports
  <1>10. \A a \in DOMAIN req[p].base : db[a].table = "bank_account" => a \in contended \cup cut
    BY <1>8 DEF BackOfficeInv, ImportInv, Importing
  <1>11. Importing(db, contended' \cup cut', At(b, txs, then))
    <2>1. Banking(db, contended' \cup cut', DOMAIN b, txs, then) BY <1>4, <1>8, <1>10 DEF Banking
    <2> QED BY <2>1, BankedAt
  <1> QED BY <1>2, <1>5, <1>8, <1>9, <1>10, <1>11, OnePending DEF BackOfficeInv

\* The tables of bank accounts and of read models; handlers of other tables.
Watched == {"bank_account"} \cup Models

LEMMA BeginElsewhere ==
    ASSUME BackOfficeInv, NEW p \in Workers, NEW D, Readable(D), NEW txs, Sane(txs, D),
           NEW then, then \notin {"reload", "write"},
           GoesOnWith(db, [d \in D |-> db[d]], txs, then), Begin(p, D, txs, then),
           \A d \in D : db[d].table \notin Watched
    PROVE  BackOfficeInv'
  <1> DEFINE b == [d \in D |-> db[d]]
  <1>1. DOMAIN b = D /\ contended \subseteq contended' BY DEF Begin
  <1>2. Banking(db, contended' \cup cut, D, txs, then) BY DEF Banking, Watched
  <1> HIDE DEF b
  <1>3. \A d \in DOMAIN At(b, txs, then).base : db[d].table \notin Models
    BY <1>1, AtBase DEF Watched
  <1>4. Runs(p, At(b, txs, then)) BY <1>1, <1>3, RunsElsewhere
  <1> QED BY <1>2, <1>4, BeginInv DEF b

LEMMA GoOnElsewhere ==
    ASSUME BackOfficeInv, NEW p \in Workers, NEW D, Readable(D), NEW txs,
           Sane(txs, D \cup DOMAIN req[p].base),
           NEW pc, pc \notin {"reload", "write", "project", "refresh"},
           NEW then, then \notin {"reload", "write"},
           GoesOnWith(db, And([d \in D |-> db[d]], req[p].base), txs, then), GoOn(p, pc, D, txs, then),
           \A d \in D : db[d].table \notin Watched
    PROVE  BackOfficeInv'
  <1> DEFINE b == And([d \in D |-> db[d]], req[p].base)
  <1>1. DOMAIN b = D \cup DOMAIN req[p].base /\ contended \subseteq contended' /\ req[p].pc = pc
    BY DEF GoOn, And
  <1>2. \A d \in DOMAIN req[p].base : db[d].table \notin Models
    <2> SUFFICES ASSUME NEW d \in DOMAIN req[p].base, db[d].table \in Models PROVE FALSE
      OBVIOUS
    <2>1. PICK c \in DOMAIN req[p].base : IsRun(db, contended, req[p], c)
      BY DEF BackOfficeInv, ModelInv, Running
    <2> QED BY <1>1, <2>1 DEF IsRun, Starts, Projects, Refreshes, Finishes
  <1>3. \A d \in D : db[d].table # "bank_account" BY DEF Watched
  <1> HIDE DEF b
  <1>4. \A d \in DOMAIN At(b, txs, then).base : db[d].table \notin Models
    BY <1>1, <1>2, AtBase DEF Watched
  <1>5. Runs(p, At(b, txs, then)) BY <1>1, <1>4, RunsElsewhere
  <1> QED BY <1>3, <1>5, GoOnInv DEF b
-----------------------------------------------------------------------------
(* The shapes of the handlers' transactions.                               *)

\* A new row, alone in its transaction.
NewOK(t, row) ==
    /\ Rowed(row) /\ row.table = t /\ row.status # "absent"
    /\ t \in Lasting =>
        /\ Right(t, row) /\ Columns(t) \subseteq DOMAIN row
        /\ t \in Numbered => row.key \in 1 .. Cardinality(Stored(db, t)) + 1
        /\ t = "employee" => row.createdAt \in 0 .. MaxCalls
        /\ t = "quotation" => row.order = None
        /\ t = "invoice" =>
               row.status # "accepted" /\ InYear(db, row) /\ row.customer \in Stored(db, "customer")
        /\ t = "account" => UnderParent(db, row)
        /\ t = "work_order" =>
               row.productionOrder \in Stored(db, "production_order") /\ row.status # "completed"
        /\ t = "bank_account" => row.lastTransactionCursor = None
        /\ t = "cursor" => row.key # None
        /\ t = "bank_transaction" => row.account \in Stored(db, "bank_account")
        /\ t = "sales_order" => row.quotation = None
        /\ t = "journal" => row.invoice = None

\* A stored one, as it is saved again.
OldOK(d, row) ==
    /\ Rowed(row) /\ row.table = db[d].table
    /\ db[d].table \in Lasting =>
        /\ row.status # "absent" /\ db[d].table # "journal" /\ DOMAIN row = DOMAIN db[d]
        /\ \A f \in Fixed \cap DOMAIN row : row[f] = db[d][f]
        /\ d \notin contended =>
            /\ Right(db[d].table, row)
            /\ db[d].table = "quotation" => row.order = db[d].order
            /\ db[d].table = "invoice" => (row.status = "accepted" <=> db[d].status = "accepted")
            /\ db[d].table = "quotation" /\ db[d].status = "converted" => row.status = "converted"
            /\ db[d].table = "sales_order" /\ db[d].status \in Away => row.status \in Away

\* No production order is told of what its operations made.
Silent(u) ==
    \A o \in DOMAIN u : ~(db[o].table = "production_order" /\ db[o].status # "absent")

\* A unit as it should be, in the request that has the rows of E in hand.
Proper(u, E) ==
    /\ UnitFits(db, u, E, {}, Lasting) /\ UnitOK(db, contended, u)
    /\ Belongs(db, u, E) /\ Silent(u)

LEMMA OneUnit ==
    ASSUME NEW u, NEW E, Proper(u, E)
    PROVE  Sane(<<u>>, E)
  <1> DEFINE txs == <<u>>
  <1>1. Savable(txs, E, {}, Lasting) /\ Len(txs) = 1 /\ txs[1] = u BY OneSavable DEF Proper
  <1> HIDE DEF txs
  <1>2. Sane(txs, E) BY <1>1 DEF Sane, Proper, Silent, Reports
  <1> QED BY <1>2 DEF txs

LEMMA NoUnit == \A E : Sane(<<>>, E)
  <1> TAKE E
  <1> DEFINE txs == <<>>
  <1>1. Savable(txs, E, {}, Lasting) /\ Len(txs) = 0 BY NoneSavable
  <1> HIDE DEF txs
  <1>2. Sane(txs, E) BY <1>1 DEF Sane, Reports
  <1> QED BY <1>2 DEF txs

LEMMA InsertFits ==
    ASSUME NEW t, NEW d \in DOMAIN db, db[d].table = t, db[d].status = "absent", NEW row,
           NewOK(t, row), NEW E, d \in E, t = "bank_transaction" => row.account \in E
    PROVE  Proper(Only(d, row), E)
  <1> DEFINE u == Only(d, row)
  <1>1. DOMAIN u = {d} /\ u[d] = row BY DEF Only
  <1> HIDE DEF u
  <1>2. UnitFits(db, u, E, {}, Lasting) BY <1>1 DEF UnitFits, ObjectFits, NewOK
  <1>3. t \in Lasting => Fresh(db, contended, u, d, t) BY <1>1 DEF Fresh, NewOK
  <1>4. UnitOK(db, contended, u) BY <1>1, <1>3 DEF UnitOK, NewOK
  <1>5. Belongs(db, u, E) /\ Silent(u) BY <1>1 DEF Belongs, Silent
  <1> QED BY <1>2, <1>4, <1>5 DEF u, Proper

LEMMA UpdateFits ==
    ASSUME NEW d \in DOMAIN db, Present(d), NEW row, OldOK(d, row), NEW E, d \in E,
           db[d].table # "production_order",
           db[d].table = "work_order" => db[d].productionOrder \in E
    PROVE  Proper(Only(d, row), E)
  <1> DEFINE u == Only(d, row)
             t == db[d].table
  <1>1. DOMAIN u = {d} /\ u[d] = row BY DEF Only
  <1> HIDE DEF u
  <1>2. UnitFits(db, u, E, {}, Lasting) BY <1>1 DEF UnitFits, ObjectFits, OldOK
  <1>3. t \in Lasting => Changed(db, contended, u, d, t) BY <1>1 DEF Changed, OldOK
  <1>4. UnitOK(db, contended, u) BY <1>1, <1>3 DEF UnitOK, OldOK, Present
  <1>5. Belongs(db, u, E) /\ Silent(u) BY <1>1 DEF Belongs, Silent, Present
  <1> QED BY <1>2, <1>4, <1>5 DEF u, Proper

LEMMA NewReadable ==
    ASSUME NEW t, Free(t) # {}
    PROVE  Readable({New(t)})
  BY NewRow DEF Readable

LEMMA RowsThere == \A t : \A d \in Rows(t) : d \in DOMAIN db /\ Present(d) /\ db[d].table = t
  BY DEF Rows, IdsOf

LEMMA Inserts ==
    ASSUME BackOfficeInv, NEW p \in Workers, NEW t, Free(t) # {}, NEW row, NewOK(t, row),
           t \notin {"bank_transaction"} \cup Models,
           Handle(p, {New(t)}, <<Only(New(t), row)>>)
    PROVE  BackOfficeInv'
  <1> DEFINE d   == New(t)
             txs == <<Only(d, row)>>
             D   == {d}
  <1>1. d \in DOMAIN db /\ db[d].table = t /\ db[d].status = "absent" BY NewRow
  <1>2. Readable(D) BY NewReadable
  <1>3. Sane(txs, D)
    <2> HIDE DEF d
    <2> QED BY <1>1, InsertFits, OneUnit
  <1>4. Begin(p, D, txs, "idle") BY DEF Handle
  <1>5. Len(txs) = 1 OBVIOUS
  <1>6. \A a \in D : db[a].status = "absent" /\ db[a].table \notin Models BY <1>1
  <1> DEFINE b == [x \in D |-> db[x]]
  <1>9. DOMAIN b = D OBVIOUS
  <1> HIDE DEF txs, D, b
  <1>7. GoesOnWith(db, [x \in D |-> db[x]], txs, "idle") BY DEF GoesOnWith
  <1>8. Banking(db, contended' \cup cut, D, txs, "idle") BY <1>5, <1>6 DEF Banking
  <1>10. \A x \in DOMAIN At(b, txs, "idle").base : db[x].table \notin Models BY <1>6, <1>9, AtBase
  <1>11. contended \subseteq contended' BY <1>4 DEF Begin
  <1>12. Runs(p, At(b, txs, "idle")) BY <1>10, <1>11, RunsElsewhere
  <1> QED BY <1>2, <1>3, <1>4, <1>7, <1>8, <1>12, BeginInv DEF b

LEMMA Updates ==
    ASSUME BackOfficeInv, NEW p \in Workers, NEW d \in DOMAIN db, Present(d), NEW row, OldOK(d, row),
           db[d].table \notin {"production_order", "work_order"} \cup Watched,
           Handle(p, {d}, <<Only(d, row)>>)
    PROVE  BackOfficeInv'
  <1> DEFINE txs == <<Only(d, row)>>
             D   == {d}
  <1>2. Readable(D) BY DEF Readable
  <1>3. Sane(txs, D) BY UpdateFits, OneUnit
  <1>4. Begin(p, D, txs, "idle") BY DEF Handle
  <1>5. \A a \in D : db[a].table \notin Watched OBVIOUS
  <1> HIDE DEF txs, D
  <1>6. GoesOnWith(db, [x \in D |-> db[x]], txs, "idle") BY DEF GoesOnWith
  <1> QED BY <1>2, <1>3, <1>4, <1>5, <1>6, BeginElsewhere

\* Rows of a table nothing here is said of.
LEMMA InsertsOther ==
    ASSUME BackOfficeInv, NEW p \in Workers, NEW t, t \notin Lasting \cup Models, Free(t) # {}, NEW row,
           Rowed(row), row.table = t, row.status # "absent",
           Handle(p, {New(t)}, <<Only(New(t), row)>>)
    PROVE  BackOfficeInv'
  <1>1. NewOK(t, row) BY DEF NewOK
  <1> QED BY <1>1, TablesLast, Inserts

LEMMA UpdatesOther ==
    ASSUME BackOfficeInv, NEW p \in Workers, NEW t, t \notin Lasting \cup Models, NEW d \in Rows(t),
           NEW row,
           Rowed(row), row.table = t,
           Handle(p, {d}, <<Only(d, row)>>)
    PROVE  BackOfficeInv'
  <1>1. d \in DOMAIN db /\ Present(d) /\ OldOK(d, row) /\ db[d].table = t
    BY RowsThere DEF OldOK
  <1> QED BY <1>1, TablesLast, Updates DEF Watched

\* A handler reads nothing more, saves, and is done.
LEMMA GoesOnNoMore ==
    ASSUME BackOfficeInv, NEW p \in Workers, NEW pc,
           pc \notin {"reload", "write", "project", "refresh"},
           NEW txs, Sane(txs, DOMAIN req[p].base),
           GoOn(p, pc, {}, txs, "idle")
    PROVE  BackOfficeInv'
  <1> DEFINE D == {}
  <1>1. Readable(D) BY DEF Readable
  <1>2. D \cup DOMAIN req[p].base = DOMAIN req[p].base OBVIOUS
  <1>3. GoOn(p, pc, D, txs, "idle") OBVIOUS
  <1>4. GoesOnWith(db, And([x \in D |-> db[x]], req[p].base), txs, "idle") BY DEF GoesOnWith
  <1> HIDE DEF D
  <1>5. Sane(txs, D \cup DOMAIN req[p].base) BY <1>2
  <1>6. \A a \in D : db[a].table \notin Watched BY DEF D
  <1> QED BY <1>1, <1>3, <1>4, <1>5, <1>6, GoOnElsewhere
-----------------------------------------------------------------------------
(* Selling.                                                                *)

LEMMA Counts ==
    ASSUME BackOfficeInv, NEW t \in Numbered
    PROVE  Count(t) + 1 \in 1 .. Cardinality(Stored(db, t)) + 1
  <1>1. IsFiniteSet(Stored(db, t))
    <2>1. Stored(db, t) \subseteq DOMAIN db BY DEF Stored
    <2> QED BY <2>1, FS_Subset DEF BackOfficeInv, Sound
  <1> DEFINE n == Cardinality(Stored(db, t))
  <1>2. n \in Nat BY <1>1, FS_CardinalityType
  <1>3. Count(t) = n BY SameRows DEF Count
  <1> HIDE DEF n
  <1>4. Count(t) + 1 \in 1 .. n + 1 BY <1>2, <1>3
  <1> QED BY <1>4 DEF n

LEMMA RowHas ==
    ASSUME BackOfficeInv, NEW t, NEW d \in Rows(t)
    PROVE  /\ d \in DOMAIN db /\ Present(d) /\ Rowed(db[d]) /\ db[d].table = t
           /\ t \in Lasting => Columns(t) \subseteq DOMAIN db[d]
           /\ d \notin contended => Right(t, db[d])
  <1>1. d \in DOMAIN db /\ Present(d) /\ db[d].table = t BY RowsThere
  <1> QED BY <1>1 DEF BackOfficeInv, Sound, Held, Present

LEMMA NowIsThere == BackOfficeInv => now # None
  BY BackOfficeAssumption DEF BackOfficeInv

LEMMA CreateSalesOrderInv ==
    ASSUME BackOfficeInv, NEW p \in Workers, CreateSalesOrder(p)
    PROVE  BackOfficeInv'
  <1>1. PICK n, c, basket, tax :
            /\ n = Count("sales_order") + 1 /\ Free("sales_order") # {}
            /\ Handle(p, {New("sales_order")},
                      <<Only(New("sales_order"), SalesOrder(n, c, basket, tax, None))>>)
    BY DEF CreateSalesOrder
  <1> DEFINE row == SalesOrder(n, c, basket, tax, None)
  <1>2. "sales_order" \in Numbered BY DEF Numbered
  <1>3. n \in 1 .. Cardinality(Stored(db, "sales_order")) + 1 BY <1>1, <1>2, Counts
  <1>4. /\ row.table = "sales_order" /\ row.status = "draft" /\ row.key = n /\ row.quotation = None
        /\ {"table", "status", "key", "quotation"} \subseteq DOMAIN row
    BY DEF SalesOrder
  <1> HIDE DEF row
  <1>5. NewOK("sales_order", row) BY <1>3, <1>4, TablesLast DEF NewOK, Rowed, Right, Columns
  <1> QED BY <1>1, <1>5, Inserts DEF row, Models

LEMMA MoveSalesOrderInv ==
    ASSUME BackOfficeInv, NEW p \in Workers, MoveSalesOrder(p)
    PROVE  BackOfficeInv'
  <1>1. PICK d \in Rows("sales_order"), to \in {"confirmed", "shipped", "cancelled"} :
            /\ CanSalesOrder(db[d].status, to)
            /\ Handle(p, {d}, <<Only(d, [db[d] EXCEPT !.status = to])>>)
    BY DEF MoveSalesOrder
  <1> DEFINE row == [db[d] EXCEPT !.status = to]
  <1>2. d \in DOMAIN db /\ Present(d) /\ Rowed(db[d]) /\ db[d].table = "sales_order" BY RowHas
  <1>3. db[d].status \in Away => to \in Away BY <1>1 DEF CanSalesOrder, Away
  <1>4. DOMAIN row = DOMAIN db[d] /\ row.status = to /\ row.table = "sales_order"
        /\ \A f \in Fixed \cap DOMAIN row : row[f] = db[d][f]
    BY <1>2 DEF Rowed, Fixed
  <1> HIDE DEF row
  <1>5. OldOK(d, row) BY <1>1, <1>2, <1>3, <1>4 DEF OldOK, Rowed, Right
  <1> QED BY <1>1, <1>2, <1>5, Updates DEF row, Watched, Models

LEMMA CreateQuotationInv ==
    ASSUME BackOfficeInv, NEW p \in Workers, CreateQuotation(p)
    PROVE  BackOfficeInv'
  <1>1. PICK n, c, basket :
            /\ n = Count("quotation") + 1 /\ Free("quotation") # {}
            /\ Handle(p, {New("quotation")}, <<Only(New("quotation"), Quotation(n, c, basket, now))>>)
    BY DEF CreateQuotation
  <1> DEFINE row == Quotation(n, c, basket, now)
  <1>2. "quotation" \in Numbered BY DEF Numbered
  <1>3. n \in 1 .. Cardinality(Stored(db, "quotation")) + 1 BY <1>1, <1>2, Counts
  <1>4. /\ row.table = "quotation" /\ row.status = "draft" /\ row.key = n /\ row.order = None
        /\ row.sentAt = None /\ row.acceptedAt = None /\ row.rejectedAt = None
        /\ {"table", "status", "key", "sentAt", "acceptedAt", "rejectedAt", "order", "updatedAt"}
               \subseteq DOMAIN row
    BY DEF Quotation
  <1> HIDE DEF row
  <1>5. Right("quotation", row) BY <1>4 DEF Right, QuotationRight
  <1>6. NewOK("quotation", row) BY <1>3, <1>4, <1>5, TablesLast DEF NewOK, Rowed, Columns
  <1> QED BY <1>1, <1>6, Inserts DEF row, Models

LEMMA TransitionQuotationInv ==
    ASSUME BackOfficeInv, NEW p \in Workers, TransitionQuotation(p)
    PROVE  BackOfficeInv'
  <1>1. PICK d \in Rows("quotation"), to \in {"sent", "revised", "accepted", "rejected", "expired"} :
            CanQuotation(db[d].status, to) /\ Handle(p, {d}, <<Only(d, Dated(db[d], to))>>)
    BY DEF TransitionQuotation
  <1> DEFINE row == Dated(db[d], to)
  <1>2. /\ d \in DOMAIN db /\ Present(d) /\ Rowed(db[d]) /\ db[d].table = "quotation"
        /\ {"sentAt", "acceptedAt", "rejectedAt", "order", "updatedAt"} \subseteq DOMAIN db[d]
        /\ d \notin contended => QuotationRight(db[d])
    BY RowHas, TablesLast DEF Columns, Right
  <1>3. /\ DOMAIN row = DOMAIN db[d] /\ row.status = to /\ row.order = db[d].order
        /\ row.sentAt = IF to = "sent" THEN now ELSE db[d].sentAt
        /\ row.acceptedAt = IF to = "accepted" THEN now ELSE db[d].acceptedAt
        /\ row.rejectedAt = IF to = "rejected" THEN now ELSE db[d].rejectedAt
        /\ row.table = db[d].table /\ \A f \in Fixed \cap DOMAIN row : row[f] = db[d][f]
    BY <1>2 DEF Dated, Rowed, Fixed
  <1> HIDE DEF row
  <1>4. QuotationRight(db[d]) => QuotationRight(row)
    BY <1>1, <1>3, NowIsThere DEF QuotationRight, CanQuotation
  <1>5. db[d].status # "converted" BY <1>1 DEF CanQuotation
  <1>6. OldOK(d, row) BY <1>1, <1>2, <1>3, <1>4, <1>5 DEF OldOK, Rowed, Right
  <1> QED BY <1>1, <1>2, <1>6, Updates DEF row, Watched, Models

LEMMA ConvertInv ==
    ASSUME BackOfficeInv, NEW p \in Workers, Convert(p)
    PROVE  BackOfficeInv'
  <1>1. ASSUME Free("sales_order") # {}, NEW d \in Rows("quotation"),
               db[d].status = "accepted", db[d].order = None,
               Begin(p, {d, New("sales_order")}, <<>>, "convert")
        PROVE  BackOfficeInv'
    <2> DEFINE o == New("sales_order")
               D == {d, o}
               b == [x \in D |-> db[x]]
               txs == <<>>
    <2>1. /\ o \in DOMAIN db /\ db[o].table = "sales_order" /\ db[o].status = "absent"
          /\ o \in Free("sales_order")
      BY <1>1, NewRow
    <2>2. d \in DOMAIN db /\ Present(d) /\ db[d].table = "quotation" BY RowsThere
    <2>3. Readable(D) BY <2>1, <2>2 DEF Readable
    <2>4. DOMAIN b = {d, o} /\ b[d] = db[d] /\ b[o] = db[o] OBVIOUS
    <2>5. Sane(txs, D) /\ txs = <<>> BY NoUnit
    <2> HIDE DEF b, o, txs
    <2>6. GoesOnWith(db, b, txs, "convert") BY <1>1, <2>1, <2>2, <2>4, <2>5 DEF GoesOnWith
    <2>7. Begin(p, D, txs, "convert") BY <1>1 DEF o, txs
    <2>8. GoesOnWith(db, [x \in D |-> db[x]], txs, "convert") BY <2>6 DEF b
    <2>9. \A a \in D : db[a].table \notin Watched BY <2>1, <2>2 DEF Watched, Models
    <2> HIDE DEF D
    <2> QED BY <2>3, <2>5, <2>7, <2>8, <2>9, BeginElsewhere
  <1>2. ASSUME NEW d \in DOMAIN req[p].base, NEW o \in DOMAIN req[p].base,
               db[d].table = "quotation", db[o].table = "sales_order",
               GoOn(p, "convert", {}, <<Converted(p, d, o)>>, "idle")
        PROVE  BackOfficeInv'
    <2> DEFINE u == Converted(p, d, o)
               q == req[p].base[d]
               n == Count("sales_order") + 1
    <2>1. /\ Held({}, Lasting) /\ PendingOK(db, contended, req[p])
          /\ RequestFits(db, contended, req[p], {}, Lasting) /\ req[p].pc = "convert"
      BY <1>2 DEF BackOfficeInv, Held, GoOn
    <2>2. d \in DOMAIN db /\ o \in DOMAIN db /\ d # o BY <1>2, <2>1 DEF RequestFits
    <2>3. q.status = "accepted" /\ q.order = None /\ db[o].status = "absent"
      BY <1>2, <2>1 DEF PendingOK, GoesOn
    <2>4. /\ db[d].status # "absent" /\ DOMAIN q = DOMAIN db[d]
          /\ Rowed(q) /\ q.table = "quotation"
          /\ \A f \in Fixed \cap DOMAIN q : q[f] = db[d][f]
      BY <1>2, <2>1, <2>3, TablesLast DEF PendingOK, ReadOK
    <2>5. d \notin contended => q = db[d] BY <1>2, <2>1, TablesLast DEF RequestFits, AsRead
    <2>6. d \in Rows("quotation") BY <1>2, <2>2, <2>4 DEF Rows, IdsOf, Present
    <2>7. /\ {"key", "sentAt", "acceptedAt", "rejectedAt", "order", "updatedAt"} \subseteq DOMAIN q
          /\ d \notin contended => QuotationRight(q)
      BY <2>4, <2>5, <2>6, RowHas, TablesLast DEF Columns, Right
    <2> DEFINE row == [q EXCEPT !.order = o, !.status = "converted", !.updatedAt = now]
               order == SalesOrder(n, q.customer, q.basket, Tax(q.basket), d)
    <2>8. DOMAIN u = {d, o} /\ u[d] = row /\ u[o] = order BY <2>2 DEF Converted, And, Only
    <2>9. /\ DOMAIN row = DOMAIN db[d] /\ row.status = "converted" /\ row.order = o
          /\ row.sentAt = q.sentAt /\ row.acceptedAt = q.acceptedAt /\ row.rejectedAt = q.rejectedAt
          /\ row.table = "quotation" /\ Rowed(row)
          /\ \A f \in Fixed \cap DOMAIN row : row[f] = q[f]
      BY <2>4, <2>7 DEF Rowed, Fixed
    <2>10. /\ order.table = "sales_order" /\ order.status = "draft" /\ order.key = n
           /\ order.quotation = d
           /\ {"table", "status", "key", "quotation"} \subseteq DOMAIN order
      BY DEF SalesOrder
    <2>11. n \in 1 .. Cardinality(Stored(db, "sales_order")) + 1 BY Counts DEF Numbered
    <2>12. o # None BY <2>2 DEF BackOfficeInv, Sound
    <2> HIDE DEF u, q, row, order, n
    <2>13. UnitFits(db, u, DOMAIN req[p].base, {}, Lasting)
      BY <1>2, <2>2, <2>8, <2>9, <2>10 DEF UnitFits, ObjectFits, Rowed
    <2>14. d \notin contended => Right("quotation", row)
      BY <2>3, <2>7, <2>9, <2>12 DEF Right, QuotationRight
    <2>15. d \in Stored(db, "quotation") BY <2>6, SameRows
    <2>16. Converts(db, contended, u, d, o) BY <2>3, <2>5, <2>8, <2>9, <2>15 DEF Converts
    <2>17. Fresh(db, contended, u, o, "sales_order")
      BY <1>2, <2>3, <2>8, <2>10, <2>11, <2>16 DEF Fresh, Columns
    <2>18. Changed(db, contended, u, d, "quotation")
      BY <1>2, <2>3, <2>4, <2>8, <2>9, <2>10 DEF Changed
    <2>19. Right("sales_order", order) BY DEF Right
    <2>20. UnitOK(db, contended, u)
      BY <1>2, <2>3, <2>4, <2>8, <2>14, <2>17, <2>18, <2>19 DEF UnitOK
    <2>21. Belongs(db, u, DOMAIN req[p].base) /\ Silent(u)
      BY <1>2, <2>8 DEF Belongs, Silent
    <2>22. Sane(<<u>>, DOMAIN req[p].base) BY <2>13, <2>20, <2>21, OneUnit DEF Proper
    <2>23. GoOn(p, "convert", {}, <<u>>, "idle") BY <1>2 DEF u
    <2> QED BY <2>22, <2>23, GoesOnNoMore
  <1> QED BY <1>1, <1>2 DEF Convert

LEMMA CreateDdtInv ==
    ASSUME BackOfficeInv, NEW p \in Workers, CreateDdt(p)
    PROVE  BackOfficeInv'
  <1>1. PICK n, c :
            /\ n = Count("ddt") + 1 /\ Free("ddt") # {}
            /\ Handle(p, {New("ddt")}, <<Only(New("ddt"), Ddt(n, c))>>)
    BY DEF CreateDdt
  <1> DEFINE row == Ddt(n, c)
  <1>2. n \in 1 .. Cardinality(Stored(db, "ddt")) + 1 BY <1>1, Counts DEF Numbered
  <1>3. /\ row.table = "ddt" /\ row.status = "draft" /\ row.key = n
        /\ row.shippedAt = None /\ row.deliveredAt = None /\ row.invoice = None
        /\ {"table", "status", "key", "shippedAt", "deliveredAt", "invoice"} \subseteq DOMAIN row
    BY DEF Ddt
  <1> HIDE DEF row
  <1>4. Right("ddt", row) BY <1>3 DEF Right, DdtRight
  <1>5. NewOK("ddt", row) BY <1>2, <1>3, <1>4, TablesLast DEF NewOK, Rowed, Columns
  <1> QED BY <1>1, <1>5, Inserts DEF row, Models

LEMMA TransitionDdtInv ==
    ASSUME BackOfficeInv, NEW p \in Workers, TransitionDdt(p)
    PROVE  BackOfficeInv'
  <1> DEFINE Moved(d, to) ==
          [db[d] EXCEPT !.status = to,
               !.shippedAt   = IF to = "in_transit" THEN now ELSE @,
               !.deliveredAt = IF to = "delivered" THEN now ELSE @]
  <1>1. PICK d \in Rows("ddt"),
             to \in {"issued", "in_transit", "delivered", "cancelled", "returned", "lost", "disputed"} :
            CanDdt(db[d].status, to) /\ Handle(p, {d}, <<Only(d, Moved(d, to))>>)
    BY DEF TransitionDdt
  <1> DEFINE row == Moved(d, to)
  <1>2. /\ d \in DOMAIN db /\ Present(d) /\ Rowed(db[d]) /\ db[d].table = "ddt"
        /\ {"shippedAt", "deliveredAt", "invoice"} \subseteq DOMAIN db[d]
        /\ d \notin contended => DdtRight(db[d])
    BY RowHas, TablesLast DEF Columns, Right
  <1>3. /\ DOMAIN row = DOMAIN db[d] /\ row.status = to /\ row.invoice = db[d].invoice
        /\ row.shippedAt = IF to = "in_transit" THEN now ELSE db[d].shippedAt
        /\ row.deliveredAt = IF to = "delivered" THEN now ELSE db[d].deliveredAt
        /\ row.table = db[d].table /\ \A f \in Fixed \cap DOMAIN row : row[f] = db[d][f]
    BY <1>2 DEF Rowed, Fixed
  <1> HIDE DEF row
  <1>4. DdtRight(db[d]) => DdtRight(row)
    BY <1>1, <1>3, NowIsThere DEF DdtRight, CanDdt
  <1>5. OldOK(d, row) BY <1>2, <1>3, <1>4 DEF OldOK, Rowed, Right
  <1> QED BY <1>1, <1>2, <1>5, Updates DEF row, Watched, Models

LEMMA InvoiceDdtInv ==
    ASSUME BackOfficeInv, NEW p \in Workers, InvoiceDdt(p)
    PROVE  BackOfficeInv'
  <1>1. PICK d \in Rows("ddt"), i \in IdsOf("invoice") :
            /\ CanDdt(db[d].status, "invoiced")
            /\ Handle(p, {d}, <<Only(d, [db[d] EXCEPT !.status = "invoiced", !.invoice = i])>>)
    BY DEF InvoiceDdt
  <1> DEFINE row == [db[d] EXCEPT !.status = "invoiced", !.invoice = i]
  <1>2. /\ d \in DOMAIN db /\ Present(d) /\ Rowed(db[d]) /\ db[d].table = "ddt"
        /\ {"shippedAt", "deliveredAt", "invoice"} \subseteq DOMAIN db[d]
        /\ d \notin contended => DdtRight(db[d])
    BY RowHas, TablesLast DEF Columns, Right
  <1>3. /\ DOMAIN row = DOMAIN db[d] /\ row.status = "invoiced" /\ row.invoice = i
        /\ row.shippedAt = db[d].shippedAt /\ row.deliveredAt = db[d].deliveredAt
        /\ row.table = db[d].table /\ \A f \in Fixed \cap DOMAIN row : row[f] = db[d][f]
    BY <1>2 DEF Rowed, Fixed
  <1> HIDE DEF row
  <1>4. DdtRight(db[d]) => DdtRight(row) BY <1>1, <1>3 DEF DdtRight, CanDdt
  <1>5. OldOK(d, row) BY <1>2, <1>3, <1>4 DEF OldOK, Rowed, Right
  <1> QED BY <1>1, <1>2, <1>5, Updates DEF row, Watched, Models

LEMMA SellingInv ==
    ASSUME BackOfficeInv, NEW p \in Workers, SellingStep(p)
    PROVE  BackOfficeInv'
  <1>1. ASSUME CreateCustomer(p) PROVE BackOfficeInv'
    <2>1. PICK code, split :
              /\ Free("customer") # {}
              /\ Handle(p, {New("customer")}, <<Only(New("customer"), Customer(code, split))>>)
      BY <1>1 DEF CreateCustomer
    <2> DEFINE row == Customer(code, split)
    <2>2. /\ Rowed(row) /\ row.table = "customer" /\ row.status # "absent"
          /\ "splitPayment" \in DOMAIN row
      BY DEF Customer, Rowed
    <2> HIDE DEF row
    <2>3. NewOK("customer", row) BY <2>2, TablesLast DEF NewOK, Right, Columns, Numbered
    <2> QED BY <2>1, <2>3, Inserts DEF row, Models
  <1>2. ASSUME LogActivity(p) PROVE BackOfficeInv'
    <2>1. PICK c :
              /\ Free("activity") # {}
              /\ Handle(p, {New("activity")}, <<Only(New("activity"), ContactActivity(c, now))>>)
      BY <1>2 DEF LogActivity
    <2> DEFINE row == ContactActivity(c, now)
    <2>2. Rowed(row) /\ row.table = "activity" /\ row.status # "absent" BY DEF ContactActivity, Rowed
    <2> HIDE DEF row
    <2> QED BY <2>1, <2>2, TablesLast, InsertsOther DEF row, Models
  <1> QED BY <1>1, <1>2, CreateSalesOrderInv, MoveSalesOrderInv, CreateQuotationInv,
             TransitionQuotationInv, ConvertInv, CreateDdtInv, TransitionDdtInv, InvoiceDdtInv
          DEF SellingStep
-----------------------------------------------------------------------------
(* Amounts.                                                                *)

LEMMA LinesFinite ==
    ASSUME NEW lines, Listed(lines)
    PROVE  /\ IsFiniteSet(DOMAIN lines) /\ Cardinality(DOMAIN lines) = Len(lines)
           /\ Len(lines) \in Nat /\ DOMAIN lines = 1 .. Len(lines)
           /\ \A n \in DOMAIN lines : lines[n].net \in Int /\ lines[n].rate \in Int
  <1>1. /\ Len(lines) \in Nat /\ DOMAIN lines = 1 .. Len(lines)
        /\ \A n \in DOMAIN lines : lines[n].net \in Int /\ lines[n].rate \in Int
    BY DEF Listed
  <1> DEFINE l == Len(lines)
  <1> HIDE DEF l
  <1>2. l \in Nat => IsFiniteSet(1 .. l) /\ Cardinality(1 .. l) = l
    <2> SUFFICES ASSUME l \in Nat PROVE IsFiniteSet(1 .. l) /\ Cardinality(1 .. l) = l
      OBVIOUS
    <2>1. Cardinality(1 .. l) = IF 1 > l THEN 0 ELSE l - 1 + 1 BY FS_Interval
    <2> QED BY <2>1, FS_Interval
  <1> QED BY <1>1, <1>2 DEF l

\* FoldLeft takes the lines from the last to the first and adds up, whatever the order.
LEMMA NetAdds ==
    ASSUME NEW lines, Listed(lines)
    PROVE  /\ \A n \in DOMAIN lines : LineNet(lines[n]) \in Int
           /\ SumOf(LineNet, lines) = SumOver([n \in DOMAIN lines |-> LineNet(lines[n])], DOMAIN lines)
           /\ SumOf(LineNet, lines) \in Int
  <1> DEFINE l == Len(lines)
             F == [n \in DOMAIN lines |-> LineNet(lines[n])]
             IsIt(h) == h = [T \in SUBSET DOMAIN lines |->
                                IF T = {} THEN 0 ELSE h[T \ {Max(T)}] + LineNet(lines[Max(T)])]
             g == CHOOSE h : IsIt(h)
  <1>1. /\ l \in Nat /\ DOMAIN lines = 1 .. l /\ IsFiniteSet(1 .. l)
        /\ \A n \in 1 .. l : lines[n].net \in Int /\ lines[n].rate \in Int
    BY LinesFinite
  <1>2. \A n \in 1 .. l : F[n] = LineNet(lines[n]) /\ F[n] \in Int BY <1>1 DEF LineNet
  <1>3. SumOf(LineNet, lines) = g[1 .. l] BY <1>1 DEF SumOf, FoldLeft, MapThenFoldSet
  <1> HIDE DEF F, l
  <1>4. ASSUME NEW h PROVE IsSumDown(h, F, 1 .. l) <=> IsIt(h)
    <2>1. \A T \in SUBSET (1 .. l) : Max(T) = Top(T) BY DEF Max, Top
    <2>2. \A T \in SUBSET (1 .. l) : T # {} => Top(T) \in 1 .. l BY <1>1, TopIsIn
    <2>3. \A T \in SUBSET (1 .. l) :
              DownStep(F, h, T) = IF T = {} THEN 0 ELSE h[T \ {Max(T)}] + LineNet(lines[Max(T)])
      BY <1>2, <2>1, <2>2 DEF DownStep
    <2> QED BY <1>1, <2>3 DEF IsSumDown
  <1>5. IsSumDown(g, F, 1 .. l)
    <2>1. PICK s : IsSum(s, F, 1 .. l) BY <1>1, SumExists
    <2>2. IsSumDown(s, F, 1 .. l) BY <1>1, <1>2, <2>1, DownExists
    <2>3. IsIt(s) BY <1>4, <2>2
    <2>4. IsIt(g) BY <2>3
    <2> QED BY <1>4, <2>4
  <1> HIDE DEF g
  <1>6. g[1 .. l] = SumOver(F, 1 .. l) BY <1>1, <1>2, <1>5, DownIsSum
  <1>7. SumOver(F, 1 .. l) \in Int BY <1>1, <1>2, SumInt
  <1> QED BY <1>1, <1>2, <1>3, <1>6, <1>7 DEF F

LEMMA TaxedAdds ==
    ASSUME NEW lines, Listed(lines)
    PROVE  /\ \A n \in DOMAIN lines : LineTaxed(lines[n]) \in Int
           /\ SumOf(LineTaxed, lines) = SumOver([n \in DOMAIN lines |-> LineTaxed(lines[n])], DOMAIN lines)
           /\ SumOf(LineTaxed, lines) \in Int
  <1> DEFINE l == Len(lines)
             F == [n \in DOMAIN lines |-> LineTaxed(lines[n])]
             IsIt(h) == h = [T \in SUBSET DOMAIN lines |->
                                IF T = {} THEN 0 ELSE h[T \ {Max(T)}] + LineTaxed(lines[Max(T)])]
             g == CHOOSE h : IsIt(h)
  <1>1. /\ l \in Nat /\ DOMAIN lines = 1 .. l /\ IsFiniteSet(1 .. l)
        /\ \A n \in 1 .. l : lines[n].net \in Int /\ lines[n].rate \in Int
    BY LinesFinite
  <1>2. \A n \in 1 .. l : F[n] = LineTaxed(lines[n]) /\ F[n] \in Int BY <1>1 DEF LineTaxed, ToCents
  <1>3. SumOf(LineTaxed, lines) = g[1 .. l] BY <1>1 DEF SumOf, FoldLeft, MapThenFoldSet
  <1> HIDE DEF F, l
  <1>4. ASSUME NEW h PROVE IsSumDown(h, F, 1 .. l) <=> IsIt(h)
    <2>1. \A T \in SUBSET (1 .. l) : Max(T) = Top(T) BY DEF Max, Top
    <2>2. \A T \in SUBSET (1 .. l) : T # {} => Top(T) \in 1 .. l BY <1>1, TopIsIn
    <2>3. \A T \in SUBSET (1 .. l) :
              DownStep(F, h, T) = IF T = {} THEN 0 ELSE h[T \ {Max(T)}] + LineTaxed(lines[Max(T)])
      BY <1>2, <2>1, <2>2 DEF DownStep
    <2> QED BY <1>1, <2>3 DEF IsSumDown
  <1>5. IsSumDown(g, F, 1 .. l)
    <2>1. PICK s : IsSum(s, F, 1 .. l) BY <1>1, SumExists
    <2>2. IsSumDown(s, F, 1 .. l) BY <1>1, <1>2, <2>1, DownExists
    <2>3. IsIt(s) BY <1>4, <2>2
    <2>4. IsIt(g) BY <2>3
    <2> QED BY <1>4, <2>4
  <1> HIDE DEF g
  <1>6. g[1 .. l] = SumOver(F, 1 .. l) BY <1>1, <1>2, <1>5, DownIsSum
  <1>7. SumOver(F, 1 .. l) \in Int BY <1>1, <1>2, SumInt
  <1> QED BY <1>1, <1>2, <1>3, <1>6, <1>7 DEF F

LEMMA ExactAdds ==
    ASSUME NEW lines, Listed(lines)
    PROVE  /\ \A n \in DOMAIN lines : LineTaxExact(lines[n]) \in Int
           /\ SumOf(LineTaxExact, lines) = SumOver([n \in DOMAIN lines |-> LineTaxExact(lines[n])], DOMAIN lines)
           /\ SumOf(LineTaxExact, lines) \in Int
  <1> DEFINE l == Len(lines)
             F == [n \in DOMAIN lines |-> LineTaxExact(lines[n])]
             IsIt(h) == h = [T \in SUBSET DOMAIN lines |->
                                IF T = {} THEN 0 ELSE h[T \ {Max(T)}] + LineTaxExact(lines[Max(T)])]
             g == CHOOSE h : IsIt(h)
  <1>1. /\ l \in Nat /\ DOMAIN lines = 1 .. l /\ IsFiniteSet(1 .. l)
        /\ \A n \in 1 .. l : lines[n].net \in Int /\ lines[n].rate \in Int
    BY LinesFinite
  <1>2. \A n \in 1 .. l : F[n] = LineTaxExact(lines[n]) /\ F[n] \in Int BY <1>1 DEF LineTaxExact
  <1>3. SumOf(LineTaxExact, lines) = g[1 .. l] BY <1>1 DEF SumOf, FoldLeft, MapThenFoldSet
  <1> HIDE DEF F, l
  <1>4. ASSUME NEW h PROVE IsSumDown(h, F, 1 .. l) <=> IsIt(h)
    <2>1. \A T \in SUBSET (1 .. l) : Max(T) = Top(T) BY DEF Max, Top
    <2>2. \A T \in SUBSET (1 .. l) : T # {} => Top(T) \in 1 .. l BY <1>1, TopIsIn
    <2>3. \A T \in SUBSET (1 .. l) :
              DownStep(F, h, T) = IF T = {} THEN 0 ELSE h[T \ {Max(T)}] + LineTaxExact(lines[Max(T)])
      BY <1>2, <2>1, <2>2 DEF DownStep
    <2> QED BY <1>1, <2>3 DEF IsSumDown
  <1>5. IsSumDown(g, F, 1 .. l)
    <2>1. PICK s : IsSum(s, F, 1 .. l) BY <1>1, SumExists
    <2>2. IsSumDown(s, F, 1 .. l) BY <1>1, <1>2, <2>1, DownExists
    <2>3. IsIt(s) BY <1>4, <2>2
    <2>4. IsIt(g) BY <2>3
    <2> QED BY <1>4, <2>4
  <1> HIDE DEF g
  <1>6. g[1 .. l] = SumOver(F, 1 .. l) BY <1>1, <1>2, <1>5, DownIsSum
  <1>7. SumOver(F, 1 .. l) \in Int BY <1>1, <1>2, SumInt
  <1> QED BY <1>1, <1>2, <1>3, <1>6, <1>7 DEF F

-----------------------------------------------------------------------------
(* Accounting.                                                             *)

\* The parent of the first account that is missing is there: it comes before.
LEMMA ParentStored ==
    ASSUME NEW i \in DOMAIN Chart, \A j \in DOMAIN Chart : ~Known(Chart[j].code) => i <= j,
           Chart[i].parent # None
    PROVE  CodeIn(db, Chart[i].parent)
  <1>1. PICK j \in DOMAIN Chart : j < i /\ Chart[j].code = Chart[i].parent
    BY AccountingAssumption
  <1>2. Known(Chart[j].code) BY <1>1, AccountingAssumption
  <1> QED BY <1>1, <1>2, SameRows DEF Known, CodeIn

LEMMA SeedsInv ==
    ASSUME BackOfficeInv, NEW p \in Workers, Seed(p)
    PROVE  BackOfficeInv'
  <1> DEFINE missing == {i \in DOMAIN Chart : ~Known(Chart[i].code)}
             first   == CHOOSE i \in missing : \A j \in missing : i <= j
             a == New("account")
             D == {a}
             row == Account(Chart[first].code, Chart[first].parent, TRUE)
             txs == <<Only(a, row)>>
  <1>1. /\ missing # {} /\ Free("account") # {}
        /\ Begin(p, D, txs, "seed") \/ GoOn(p, "seed", D, txs, "seed")
    BY DEF Seed
  <1>12. first \in missing /\ \A j \in missing : first <= j
    <2>1. missing \in SUBSET Nat BY AccountingAssumption
    <2>2. \E i \in missing : \A j \in missing : i <= j BY <1>1, <2>1, Least
    <2> QED BY <2>2
  <1>13. Chart[first].parent # None => CodeIn(db, Chart[first].parent) BY <1>12, ParentStored
  <1> HIDE DEF missing, first
  <1>2. /\ Rowed(row) /\ row.table = "account" /\ row.status # "absent"
        /\ {"key", "parent", "seeded"} \subseteq DOMAIN row /\ row.parent = Chart[first].parent
    BY DEF Account, Rowed
  <1>3. NewOK("account", row)
    <2> HIDE DEF row
    <2> QED BY <1>2, <1>13, TablesLast DEF NewOK, Right, Columns, Numbered, UnderParent
  <1>4. a \in DOMAIN db /\ db[a].table = "account" /\ db[a].status = "absent" BY <1>1, NewRow
  <1>5. Readable(D) BY <1>1, NewReadable
  <1>6. Sane(txs, D) /\ Sane(txs, D \cup DOMAIN req[p].base)
    <2> HIDE DEF a, row
    <2> QED BY <1>3, <1>4, InsertFits, OneUnit
  <1>11. \A x \in D : db[x].table \notin Watched BY <1>4 DEF Watched, Models
  <1> HIDE DEF D, txs
  <1>8. /\ GoesOnWith(db, [x \in D |-> db[x]], txs, "seed")
        /\ GoesOnWith(db, And([x \in D |-> db[x]], req[p].base), txs, "seed")
    BY DEF GoesOnWith
  <1>9. ASSUME Begin(p, D, txs, "seed") PROVE BackOfficeInv'
    BY <1>5, <1>6, <1>8, <1>9, <1>11, BeginElsewhere
  <1>10. ASSUME GoOn(p, "seed", D, txs, "seed") PROVE BackOfficeInv'
    BY <1>5, <1>6, <1>8, <1>10, <1>11, GoOnElsewhere
  <1> QED BY <1>1, <1>9, <1>10

LEMMA CreateJournalEntryInv ==
    ASSUME BackOfficeInv, NEW p \in Workers, CreateJournalEntry(p)
    PROVE  BackOfficeInv'
  <1>1. PICK debit, credit :
            /\ Free("journal") # {}
            /\ Handle(p, {New("journal")}, <<Only(New("journal"), TypedEntry(debit, credit))>>)
    BY DEF CreateJournalEntry
  <1> DEFINE row == TypedEntry(debit, credit)
  <1>2. /\ row.table = "journal" /\ row.status = "open" /\ row.invoice = None
        /\ {"table", "status", "invoice"} \subseteq DOMAIN row
    BY DEF TypedEntry
  <1> HIDE DEF row
  <1>3. NewOK("journal", row) BY <1>2, TablesLast DEF NewOK, Rowed, Right, Columns, Numbered
  <1> QED BY <1>1, <1>3, Inserts DEF row, Models

\* createInvoice numbers an invoice one after those of its year that it counted.
LEMMA NextOfYear ==
    ASSUME BackOfficeInv, NEW y
    PROVE  /\ Cardinality(InvoicesOf(y)) = Cardinality(DatedIn(db, y))
           /\ Cardinality(DatedIn(db, y)) + 1 \in 1 .. Cardinality(DatedIn(db, y)) + 1
  <1> DEFINE n == Cardinality(DatedIn(db, y))
  <1>1. InvoicesOf(y) = DatedIn(db, y) BY SameRows DEF InvoicesOf, DatedIn
  <1>2. IsFiniteSet(DatedIn(db, y))
    <2>1. DatedIn(db, y) \subseteq DOMAIN db BY DEF DatedIn, Stored
    <2> QED BY <2>1, FS_Subset DEF BackOfficeInv, Sound
  <1>3. n \in Nat BY <1>2, FS_CardinalityType
  <1> HIDE DEF n
  <1>4. n + 1 \in 1 .. n + 1 BY <1>3
  <1> QED BY <1>1, <1>4 DEF n

LEMMA CreateInvoiceInv ==
    ASSUME BackOfficeInv, NEW p \in Workers, CreateInvoice(p)
    PROVE  BackOfficeInv'
  <1>1. PICK c \in Rows("customer"), year \in Years, lines \in InvoiceLines :
            Handle(p, {New("invoice")},
                   <<Only(New("invoice"), Invoice(Cardinality(InvoicesOf(year)) + 1, year, c, lines,
                                              SumOf(LineNet, lines), SumOf(LineTaxed, lines)))>>)
    BY DEF CreateInvoice
  <1> DEFINE n   == Cardinality(DatedIn(db, year)) + 1
             net == SumOf(LineNet, lines)
             tax == SumOf(LineTaxed, lines)
             row == Invoice(n, year, c, lines, net, tax)
  <1>2. n \in 1 .. n /\ Handle(p, {New("invoice")}, <<Only(New("invoice"), row)>>)
    BY <1>1, NextOfYear
  <1>3. /\ row.table = "invoice" /\ row.status = "draft" /\ row.lines = lines
        /\ row.net = net /\ row.tax = tax
        /\ row.key = <<n, year>> /\ row.year = year /\ row.customer = c
        /\ {"table", "status", "key", "year", "customer", "lines", "net", "tax"} \subseteq DOMAIN row
    <2> HIDE DEF n, net, tax
    <2> QED BY DEF Invoice
  <1> HIDE DEF row
  <1>4. AmountsRight(row) BY <1>3, AmountsAssumption DEF AmountsRight
  <1>5. InYear(db, row) /\ row.customer \in Stored(db, "customer") BY <1>2, <1>3, SameRows DEF InYear
  <1>6. NewOK("invoice", row)
    <2> HIDE DEF n, net, tax
    <2> QED BY <1>3, <1>4, <1>5, TablesLast DEF NewOK, Rowed, Right, Columns, Numbered
  <1>7. Free("invoice") # {} BY DEF CreateInvoice
  <1> QED BY <1>2, <1>6, <1>7, Inserts DEF Models

LEMMA AcceptInvoiceInv ==
    ASSUME BackOfficeInv, NEW p \in Workers, AcceptInvoice(p)
    PROVE  BackOfficeInv'
  <1> PICK i \in Rows("invoice") :
          /\ Free("journal") # {}
          /\ db[i].status # "accepted"
          /\ Handle(p, {i, New("journal")},
                    <<And(Only(New("journal"), Registration(i)),
                          Only(i, [db[i] EXCEPT !.status = "accepted"]))>>)
    BY DEF AcceptInvoice
  <1> DEFINE j == New("journal")
             entry == Registration(i)
             row == [db[i] EXCEPT !.status = "accepted"]
             u == And(Only(j, entry), Only(i, row))
             D == {i, j}
             txs == <<u>>
  <1>1. /\ i \in DOMAIN db /\ Present(i) /\ Rowed(db[i]) /\ db[i].table = "invoice"
        /\ {"lines", "net", "tax"} \subseteq DOMAIN db[i]
        /\ i \notin contended => AmountsRight(db[i])
    BY RowHas, TablesLast DEF Columns, Right
  <1>2. /\ j \in DOMAIN db /\ db[j].table = "journal" /\ db[j].status = "absent"
        /\ j \in Free("journal")
    BY NewRow
  <1>3. i # j BY <1>1, <1>2
  <1>4. DOMAIN u = {i, j} /\ u[i] = row /\ u[j] = entry BY <1>3 DEF And, Only
  <1>5. /\ DOMAIN row = DOMAIN db[i] /\ row.status = "accepted" /\ row.table = "invoice"
        /\ row.lines = db[i].lines /\ row.net = db[i].net /\ row.tax = db[i].tax
        /\ \A f \in Fixed \cap DOMAIN row : row[f] = db[i][f]
    BY <1>1 DEF Rowed, Fixed
  <1>6. /\ entry.table = "journal" /\ entry.status = "posted" /\ entry.invoice = i
        /\ {"table", "status", "invoice"} \subseteq DOMAIN entry
    BY DEF Registration, JournalEntry
  <1>7. i \notin contended => Registers(db, entry, db[i])
    <2> SUFFICES ASSUME i \notin contended PROVE Registers(db, entry, db[i])
      OBVIOUS
    <2> DEFINE net == db[i].net
               tax == db[i].tax
               split == db[db[i].customer].splitPayment
    <2>1. net \in Int BY <1>1, NetAdds DEF AmountsRight
    <2>2. /\ entry.revenue = net /\ entry.vat = IF split THEN 0 ELSE tax
          /\ entry.receivable = IF split THEN net ELSE net + tax
      BY DEF Registration, JournalEntry
    <2> HIDE DEF net, tax, split, entry
    <2>3. net + 0 = net BY <2>1
    <2>4. entry.receivable = entry.revenue + entry.vat BY <2>2, <2>3
    <2> QED BY <2>2, <2>4 DEF Registers, net, tax, split
  <1>8. Readable(D) BY <1>1, <1>2 DEF Readable
  <1>9. Begin(p, D, txs, "idle") BY DEF Handle
  <1> HIDE DEF j, entry, row, u
  <1>10. UnitFits(db, u, D, {}, Lasting)
    BY <1>1, <1>2, <1>4, <1>5, <1>6 DEF UnitFits, ObjectFits, Rowed
  <1>11. i \in Stored(db, "invoice") BY <1>1 DEF Stored, Present
  <1>12. Posts(db, contended, u, i, j) BY <1>4, <1>5, <1>7, <1>11 DEF Posts
  <1>13. Fresh(db, contended, u, j, "journal")
    BY <1>1, <1>2, <1>4, <1>6, <1>12 DEF Fresh, Columns, Numbered, Present
  <1>14. Changed(db, contended, u, i, "invoice") BY <1>2, <1>4, <1>5, <1>6 DEF Changed
  <1>15. i \notin contended => Right("invoice", row) BY <1>1, <1>5 DEF Right, AmountsRight
  <1>16. Right("journal", entry) BY DEF Right
  <1>17. UnitOK(db, contended, u)
    BY <1>1, <1>2, <1>4, <1>13, <1>14, <1>15, <1>16 DEF UnitOK, Present
  <1>18. Sane(txs, D)
    <2>1. Belongs(db, u, D) /\ Silent(u) BY <1>1, <1>2, <1>4 DEF Belongs, Silent
    <2> HIDE DEF D
    <2> QED BY <1>10, <1>17, <2>1, OneUnit DEF Proper
  <1>20. \A x \in D : db[x].table \notin Watched BY <1>1, <1>2 DEF Watched, Models
  <1> HIDE DEF D, txs
  <1>19. GoesOnWith(db, [x \in D |-> db[x]], txs, "idle") BY DEF GoesOnWith
  <1> QED BY <1>8, <1>9, <1>18, <1>19, <1>20, BeginElsewhere

LEMMA QueueInvoiceInv ==
    ASSUME BackOfficeInv, NEW p \in Workers, QueueInvoiceForSdi(p)
    PROVE  BackOfficeInv'
  <1>1. PICK i \in Rows("invoice") :
            /\ db[i].status = "draft"
            /\ Handle(p, {i}, <<Only(i, [db[i] EXCEPT !.status = "queued", !.submittedAt = now])>>)
    BY DEF QueueInvoiceForSdi
  <1> DEFINE row == [db[i] EXCEPT !.status = "queued", !.submittedAt = now]
  <1>2. /\ i \in DOMAIN db /\ Present(i) /\ Rowed(db[i]) /\ db[i].table = "invoice"
        /\ {"lines", "net", "tax"} \subseteq DOMAIN db[i]
        /\ i \notin contended => AmountsRight(db[i])
    BY RowHas, TablesLast DEF Columns, Right
  <1>3. /\ DOMAIN row = DOMAIN db[i] /\ row.status = "queued" /\ row.table = "invoice"
        /\ row.lines = db[i].lines /\ row.net = db[i].net /\ row.tax = db[i].tax
        /\ \A f \in Fixed \cap DOMAIN row : row[f] = db[i][f]
    BY <1>2 DEF Rowed, Fixed
  <1> HIDE DEF row
  <1>4. OldOK(i, row) BY <1>1, <1>2, <1>3 DEF OldOK, Rowed, Right, AmountsRight
  <1> QED BY <1>1, <1>2, <1>4, Updates DEF row, Watched, Models

LEMMA AccountingInv ==
    ASSUME BackOfficeInv, NEW p \in Workers, AccountingStep(p)
    PROVE  BackOfficeInv'
  <1>1. ASSUME CreateAccount(p) PROVE BackOfficeInv'
    <2>1. PICK code :
              /\ Free("account") # {}
              /\ Handle(p, {New("account")}, <<Only(New("account"), Account(code, None, FALSE))>>)
      BY <1>1 DEF CreateAccount
    <2> DEFINE row == Account(code, None, FALSE)
    <2>2. /\ Rowed(row) /\ row.table = "account" /\ row.status # "absent" /\ row.seeded = FALSE
          /\ {"key", "parent", "seeded"} \subseteq DOMAIN row
      BY DEF Account, Rowed
    <2> HIDE DEF row
    <2>3. NewOK("account", row)
      BY <2>2, TablesLast DEF NewOK, Right, Columns, Numbered, UnderParent
    <2> QED BY <2>1, <2>3, Inserts DEF row, Models
  <1>2. ASSUME SeedDone(p) PROVE BackOfficeInv'
    BY <1>2, NoUnit, GoesOnNoMore DEF SeedDone
  <1> QED BY <1>1, <1>2, SeedsInv, CreateJournalEntryInv, CreateInvoiceInv, AcceptInvoiceInv,
             QueueInvoiceInv
          DEF AccountingStep
-----------------------------------------------------------------------------
(* Treasury.                                                               *)

LEMMA TwoUnitsSane ==
    ASSUME NEW txs, \E S : txs \in Seq(S), Len(txs) = 2, NEW E,
           \A i \in 1 .. 2 : Proper(txs[i], E),
           DOMAIN txs[1] \cap DOMAIN txs[2] = {}
    PROVE  Sane(txs, E)
  <1>1. \A i, j \in 1 .. 2 : i # j => DOMAIN txs[i] \cap DOMAIN txs[j] = {} OBVIOUS
  <1>2. Savable(txs, E, {}, Lasting) BY DEF Savable, Proper
  <1>3. \A i \in 1 .. 2 : /\ UnitOK(db, contended, txs[i]) /\ Belongs(db, txs[i], E)
                          /\ Silent(txs[i])
    BY DEF Proper
  <1>4. Reports(db, contended, txs) BY <1>3 DEF Reports, Silent
  <1> QED BY <1>1, <1>2, <1>3, <1>4 DEF Sane

LEMMA CreateBankAccountInv ==
    ASSUME BackOfficeInv, NEW p \in Workers, CreateBankAccount(p)
    PROVE  BackOfficeInv'
  <1>1. PICK name, provider :
            /\ Free("bank_account") # {}
            /\ Handle(p, {New("bank_account")},
                      <<Only(New("bank_account"), BankAccount(name, provider))>>)
    BY DEF CreateBankAccount
  <1> DEFINE row == BankAccount(name, provider)
  <1>2. /\ row.table = "bank_account" /\ row.status = "active"
        /\ row.lastTransactionCursor = None
        /\ {"table", "status", "psd2Provider", "lastTransactionCursor"} \subseteq DOMAIN row
    BY DEF BankAccount
  <1> HIDE DEF row
  <1>3. NewOK("bank_account", row) BY <1>2, TablesLast DEF NewOK, Rowed, Right, Columns, Numbered
  <1> QED BY <1>1, <1>3, Inserts DEF row, Models

LEMMA SyncPsd2Inv ==
    ASSUME BackOfficeInv, NEW p \in Workers, SyncPsd2(p)
    PROVE  BackOfficeInv'
  <1> PICK a \in Rows("bank_account") :
          /\ Free("bank_transaction") # {}
          /\ Handle(p, {a, New("bank_transaction")},
                    Append(Pulled(a, New("bank_transaction")),
                           Only(a, [db[a] EXCEPT !.lastTransactionCursor = now])))
    BY DEF SyncPsd2
  <1> DEFINE t == New("bank_transaction")
             row == [db[a] EXCEPT !.lastTransactionCursor = now]
             u == Only(a, row)
             D == {a, t}
             txs == Append(Pulled(a, t), u)
  <1>1. /\ a \in DOMAIN db /\ Present(a) /\ Rowed(db[a]) /\ db[a].table = "bank_account"
        /\ "lastTransactionCursor" \in DOMAIN db[a]
    BY RowHas, TablesLast DEF Columns
  <1>2. /\ t \in DOMAIN db /\ db[t].table = "bank_transaction" /\ db[t].status = "absent"
        /\ t \in Free("bank_transaction")
    BY NewRow
  <1>3. Readable(D) BY <1>1, <1>2 DEF Readable
  <1>4. OldOK(a, row) BY <1>1 DEF OldOK, Rowed, Right, Fixed, Present
  <1>5. Proper(u, D)
    <2> HIDE DEF row, t
    <2> QED BY <1>1, <1>4, UpdateFits
  <1>6. Begin(p, D, txs, "idle") BY DEF Handle
  <1>7. DOMAIN u = {a} /\ a # t /\ u[a].lastTransactionCursor # None
    BY <1>1, <1>2, NowIsThere DEF Only
  <1> HIDE DEF u
  <1> DEFINE given == Given(db[a].psd2Provider)
  <1>15. given \in {0, 1} BY DEF Given
  <1> HIDE DEF given
  <1>8. Sane(txs, D) /\ (Imported(db, a) => Syncs(db, txs, a))
    <2>1. CASE db[a].lastTransactionCursor # None \/ given = 0
      <3>1. txs = <<u>>
        <4>1. Pulled(a, t) = <<>> BY <2>1 DEF Pulled, given
        <4>2. \A v : Append(<<>>, v) = <<v>> OBVIOUS
        <4> QED BY <4>1, <4>2
      <3>2. Sane(txs, D)
        <4> HIDE DEF txs, D
        <4> QED BY <1>5, <3>1, OneUnit
      <3>3. Len(txs) = 1 /\ txs[Len(txs)] = u BY <3>1
      <3> HIDE DEF txs, D
      <3>4. Imported(db, a) => HasGiven(db, a) BY <2>1 DEF Imported, HasGiven, given
      <3> QED BY <1>7, <3>2, <3>3, <3>4 DEF Syncs
    <2>2. CASE db[a].lastTransactionCursor = None /\ given = 1
      <3> DEFINE new == BankTransaction(t, a, BankAmount[db[a].psd2Provider])
                 v == Only(t, new)
      <3>1. txs = Append(<<v>>, u) BY <2>2 DEF Pulled, given
      <3>2. /\ new.table = "bank_transaction" /\ new.status = "unmatched" /\ new.account = a
            /\ {"table", "status", "account"} \subseteq DOMAIN new
        BY DEF BankTransaction
      <3>3. DOMAIN v = {t} /\ v[t] = new BY DEF Only
      <3> HIDE DEF new
      <3>4. a \in Stored(db, "bank_account") BY SameRows
      <3>5. NewOK("bank_transaction", new)
        <4>1. Rowed(new) /\ new.table = "bank_transaction" /\ new.status # "absent" BY <3>2 DEF Rowed
        <4>2. Columns("bank_transaction") \subseteq DOMAIN new BY <3>2, TablesLast DEF Columns
        <4> QED BY <3>2, <3>4, <4>1, <4>2 DEF NewOK, Right, Numbered
      <3>6. Proper(v, D)
        <4> HIDE DEF t
        <4> QED BY <1>2, <3>2, <3>5, InsertFits
      <3> HIDE DEF v, txs, D
      <3>7. /\ \E S : txs \in Seq(S)
            /\ Len(txs) = 2
            /\ \A i \in 1 .. 2 : txs[i] = IF i = 1 THEN v ELSE u
        <4> DEFINE s == Append(<<v>>, u)
        <4>1. /\ \E S : s \in Seq(S)
              /\ Len(s) = 2
              /\ \A i \in 1 .. 2 : s[i] = IF i = 1 THEN v ELSE u
          BY TwoUnits
        <4>2. txs = s BY <3>1
        <4> HIDE DEF s
        <4> QED BY <4>1, <4>2
      <3>8. \A i \in 1 .. 2 : Proper(txs[i], D) BY <1>5, <3>6, <3>7
      <3>9. DOMAIN txs[1] \cap DOMAIN txs[2] = {} BY <1>7, <3>3, <3>7
      <3>10. Sane(txs, D) BY <3>7, <3>8, <3>9, TwoUnitsSane
      <3>11. txs[1] = v /\ txs[Len(txs)] = u BY <3>7
      <3>12. Imported(db, a) => Syncs(db, txs, a)
        BY <1>2, <1>7, <2>2, <3>2, <3>3, <3>7, <3>11 DEF Imported, Syncs, given
      <3> QED BY <3>10, <3>12
    <2> QED BY <1>15, <2>1, <2>2
  <1>9. Banking(db, contended' \cup cut, D, txs, "idle")
    <2> SUFFICES ASSUME a \notin contended' \cup cut PROVE Syncs(db, txs, a)
      BY <1>1, <1>2 DEF Banking, Present
    <2>1. contended' = contended \cup Shared(p, D) /\ req[p].pc = "idle"
      BY <1>6 DEF Begin, Busy
    <2>2. \A q \in Workers \ {p} : a \notin DOMAIN req[q].base BY <2>1 DEF Shared
    <2>3. a \notin DOMAIN req[p].base BY <1>1, <2>1 DEF BackOfficeInv, ImportInv, Importing
    <2>4. a \in Stored(db, "bank_account") \ (contended \cup cut) BY <2>1, SameRows
    <2>5. Imported(db, a) BY <2>2, <2>3, <2>4 DEF BackOfficeInv, ImportInv, Settled
    <2> QED BY <1>8, <2>5
  <1> DEFINE b == [x \in D |-> db[x]]
  <1>11. DOMAIN b = D OBVIOUS
  <1>12. \A x \in D : db[x].table \notin Models BY <1>1, <1>2 DEF Models
  <1> HIDE DEF txs, D, b
  <1>10. GoesOnWith(db, [x \in D |-> db[x]], txs, "idle") BY DEF GoesOnWith
  <1>13. \A x \in DOMAIN At(b, txs, "idle").base : db[x].table \notin Models
    BY <1>11, <1>12, AtBase
  <1>14. Runs(p, At(b, txs, "idle")) BY <1>6, <1>13, RunsElsewhere DEF Begin
  <1> QED BY <1>3, <1>6, <1>8, <1>9, <1>10, <1>14, BeginInv DEF b

LEMMA TreasuryInv ==
    ASSUME BackOfficeInv, NEW p \in Workers, TreasuryStep(p)
    PROVE  BackOfficeInv'
  <1>1. ASSUME ManualMatch(p) PROVE BackOfficeInv'
    <2>1. PICK t \in Rows("bank_transaction") : \E d :
              Handle(p, {t}, <<Only(t, [db[t] EXCEPT !.document = d, !.status = "matched",
                                                    !.matchedBy = p])>>)
      BY <1>1 DEF ManualMatch
    <2>2. PICK d : Handle(p, {t}, <<Only(t, [db[t] EXCEPT !.document = d, !.status = "matched",
                                                    !.matchedBy = p])>>)
      BY <2>1
    <2>3. t \in DOMAIN db /\ Present(t) /\ Rowed(db[t]) /\ db[t].table = "bank_transaction"
      BY RowHas
    <2>4. OldOK(t, [db[t] EXCEPT !.document = d, !.status = "matched", !.matchedBy = p])
      BY <2>3 DEF OldOK, Rowed, Right, Fixed
    <2> QED BY <2>2, <2>3, <2>4, Updates DEF Watched, Models
  <1>2. ASSUME IgnoreTransaction(p) PROVE BackOfficeInv'
    <2>1. PICK t \in Rows("bank_transaction") :
              Handle(p, {t}, <<Only(t, [db[t] EXCEPT !.status = "ignored", !.matchedBy = p])>>)
      BY <1>2 DEF IgnoreTransaction
    <2>3. t \in DOMAIN db /\ Present(t) /\ Rowed(db[t]) /\ db[t].table = "bank_transaction"
      BY RowHas
    <2>4. OldOK(t, [db[t] EXCEPT !.status = "ignored", !.matchedBy = p])
      BY <2>3 DEF OldOK, Rowed, Right, Fixed
    <2> QED BY <2>1, <2>3, <2>4, Updates DEF Watched, Models
  <1> QED BY <1>1, <1>2, CreateBankAccountInv, SyncPsd2Inv DEF TreasuryStep
-----------------------------------------------------------------------------
(* Production, products and warehouses.                                    *)

LEMMA CreateProductionOrderInv ==
    ASSUME BackOfficeInv, NEW p \in Workers, CreateProductionOrder(p)
    PROVE  BackOfficeInv'
  <1>1. PICK n :
            /\ n = Count("production_order") + 1 /\ Free("production_order") # {}
            /\ Handle(p, {New("production_order")},
                      <<Only(New("production_order"), ProductionOrder(n))>>)
    BY DEF CreateProductionOrder
  <1> DEFINE row == ProductionOrder(n)
  <1>2. n \in 1 .. Cardinality(Stored(db, "production_order")) + 1 BY <1>1, Counts DEF Numbered
  <1>3. /\ row.table = "production_order" /\ row.status = "draft" /\ row.key = n
        /\ {"table", "status", "key", "quantityProduced"} \subseteq DOMAIN row
    BY DEF ProductionOrder
  <1> HIDE DEF row
  <1>4. NewOK("production_order", row) BY <1>2, <1>3, TablesLast DEF NewOK, Rowed, Right, Columns
  <1> QED BY <1>1, <1>4, Inserts DEF row, Models

LEMMA CreateWorkOrderInv ==
    ASSUME BackOfficeInv, NEW p \in Workers, CreateWorkOrder(p)
    PROVE  BackOfficeInv'
  <1>1. PICK o \in Rows("production_order"), place \in Sequence :
            /\ Free("work_order") # {}
            /\ Handle(p, {New("work_order")},
                      <<Only(New("work_order"), WorkOrder(Count("work_order") + 1, o, place))>>)
    BY DEF CreateWorkOrder
  <1> DEFINE n == Count("work_order") + 1
             row == WorkOrder(n, o, place)
  <1>2. n \in 1 .. Cardinality(Stored(db, "work_order")) + 1 BY Counts DEF Numbered
  <1>3. /\ row.table = "work_order" /\ row.status = "pending" /\ row.key = n
        /\ row.productionOrder = o
        /\ {"table", "status", "key", "productionOrder"} \subseteq DOMAIN row
    <2> HIDE DEF n
    <2> QED BY DEF WorkOrder
  <1>4. Handle(p, {New("work_order")}, <<Only(New("work_order"), row)>>) BY <1>1
  <1> HIDE DEF row, n
  <1>5. NewOK("work_order", row)
    BY <1>2, <1>3, SameRows, TablesLast DEF NewOK, Rowed, Right, Columns
  <1> QED BY <1>1, <1>4, <1>5, Inserts DEF Models

LEMMA LastIsLast ==
    \A o : \A l \in LastCompleted(o) : LastMade(db, o, db[l].quantityProduced)
  <1>1. \A o : Completed(o) = DoneOf(db, o) BY SameRows DEF Completed, DoneOf
  <1> QED BY <1>1 DEF LastCompleted, LastMade

LEMMA UpdateWorkOrderStatusInv ==
    ASSUME BackOfficeInv, NEW p \in Workers, UpdateWorkOrderStatus(p)
    PROVE  BackOfficeInv'
  <1>1. ASSUME NEW w \in Rows("work_order"), NEW to, NEW quantity, NEW then,
               then \in {"produced", "idle"},
               Begin(p, {w, db[w].productionOrder}, <<Only(w, Operated(db[w], to, quantity))>>, then),
               to # "absent"
        PROVE  BackOfficeInv'
    <2> DEFINE o == db[w].productionOrder
               D == {w, o}
               row == Operated(db[w], to, quantity)
               txs == <<Only(w, row)>>
    <2>1. /\ w \in DOMAIN db /\ Present(w) /\ Rowed(db[w]) /\ db[w].table = "work_order"
          /\ "productionOrder" \in DOMAIN db[w]
      BY RowHas, TablesLast DEF Columns
    <2>2. o \in Stored(db, "production_order")
      BY SameRows DEF BackOfficeInv, Sound, Referring
    <2>3. Readable(D) BY <2>1, <2>2 DEF Readable, Stored, Present
    <2>4. /\ DOMAIN row = DOMAIN db[w] /\ row.status = to /\ row.table = "work_order"
          /\ \A f \in Fixed \cap DOMAIN row : row[f] = db[w][f]
      BY <2>1 DEF Operated, Rowed, Fixed
    <2> HIDE DEF row
    <2>5. OldOK(w, row) BY <1>1, <2>1, <2>4 DEF OldOK, Rowed, Right
    <2>6. Sane(txs, D)
      <3> HIDE DEF D
      <3>1. w \in D /\ db[w].productionOrder \in D BY DEF D
      <3> QED BY <2>1, <2>5, <3>1, UpdateFits, OneUnit
    <2>7. Begin(p, D, txs, then) BY <1>1 DEF row
    <2> DEFINE b == [x \in D |-> db[x]]
    <2>8. DOMAIN b = {w, o} /\ b[w] = db[w] OBVIOUS
    <2>9. db[o].table = "production_order" BY <2>2 DEF Stored
    <2>12. \A x \in D : db[x].table \notin Watched BY <2>1, <2>9 DEF Watched, Models
    <2> HIDE DEF b, txs, o
    <2>10. GoesOnWith(db, b, txs, then)
      BY <1>1, <2>1, <2>8, <2>9 DEF GoesOnWith, Present, o
    <2> HIDE DEF D
    <2>11. GoesOnWith(db, [x \in D |-> db[x]], txs, then) BY <2>10 DEF b
    <2> QED BY <1>1, <2>3, <2>6, <2>7, <2>11, <2>12, BeginElsewhere
  <1>2. ASSUME req[p].pc = "produced", NEW w \in DOMAIN req[p].base, db[w].table = "work_order",
               NEW n, LastMade(db, req[p].base[w].productionOrder, n),
               GoOn(p, "produced", {}, <<Only(req[p].base[w].productionOrder,
                                              [quantityProduced |-> n])>>, "idle")
        PROVE  BackOfficeInv'
    <2> DEFINE o == req[p].base[w].productionOrder
               u == Only(o, [quantityProduced |-> n])
    <2>1. PendingOK(db, contended, req[p]) /\ RequestFits(db, contended, req[p], {}, Lasting)
      BY DEF BackOfficeInv, Held
    <2>2. /\ db[w].status # "absent" /\ req[p].base[w].status # "absent"
          /\ db[w].productionOrder \in DOMAIN req[p].base
      BY <1>2, <2>1 DEF PendingOK, GoesOn
    <2>3. w \in DOMAIN db /\ w \in Rows("work_order")
      BY <1>2, <2>1, <2>2 DEF RequestFits, Rows, IdsOf, Present
    <2>4. "productionOrder" \in DOMAIN db[w] /\ "productionOrder" \in Fixed
      BY <2>3, RowHas, TablesLast DEF Columns, Fixed
    <2>5. o = db[w].productionOrder BY <1>2, <2>1, <2>2, <2>4, TablesLast DEF PendingOK, ReadOK
    <2>6. o \in Stored(db, "production_order")
      BY <2>3, <2>5, SameRows DEF BackOfficeInv, Sound, Referring
    <2>7. DOMAIN u = {o} /\ u[o] = [quantityProduced |-> n] /\ DOMAIN u[o] = {"quantityProduced"}
      BY DEF Only
    <2>8. GoOn(p, "produced", {}, <<u>>, "idle") BY <1>2
    <2> HIDE DEF u, o
    <2>9. UnitFits(db, u, DOMAIN req[p].base, {}, Lasting)
      BY <2>2, <2>5, <2>6, <2>7, TablesLast DEF UnitFits, ObjectFits, Stored
    <2>10. Changed(db, contended, u, o, "production_order") BY <2>7 DEF Changed, Fixed
    <2>11. UnitOK(db, contended, u)
      BY <2>6, <2>7, <2>10 DEF UnitOK, Stored, Right
    <2> DEFINE txs == <<u>>
    <2>12. Savable(txs, DOMAIN req[p].base, {}, Lasting) /\ Len(txs) = 1 /\ txs[1] = u
      BY <2>9, OneSavable
    <2>13. GoOn(p, "produced", {}, txs, "idle") BY <2>8
    <2> HIDE DEF txs
    <2>14. Belongs(db, u, DOMAIN req[p].base) BY <2>6, <2>7 DEF Belongs, Stored
    <2>15. LastMade(db, o, u[o].quantityProduced) BY <1>2, <2>7 DEF o
    <2>16. Reports(db, contended, txs) BY <2>7, <2>12, <2>15 DEF Reports
    <2>17. Sane(txs, DOMAIN req[p].base) BY <2>11, <2>12, <2>14, <2>16 DEF Sane
    <2> QED BY <2>13, <2>17, GoesOnNoMore
  <1>3. ASSUME GoOn(p, "produced", {}, <<>>, "idle") PROVE BackOfficeInv'
    BY <1>3, NoUnit, GoesOnNoMore
  <1>4. WorkOrderStatus \subseteq {"pending", "ready", "in_progress", "paused", "completed", "cancelled"}
    BY DEF WorkOrderStatus
  <1>5. \/ \E w \in Rows("work_order"), to \in WorkOrderStatus, quantity \in Quantities \cup {None} :
            Begin(p, {w, db[w].productionOrder}, <<Only(w, Operated(db[w], to, quantity))>>,
                  IF to = "completed" /\ quantity \notin {None, 0} THEN "produced" ELSE "idle")
        \/ /\ req[p].pc = "produced"
           /\ \E w \in DOMAIN req[p].base :
                /\ db[w].table = "work_order"
                /\ \/ \E n :
                        /\ LastMade(db, req[p].base[w].productionOrder, n)
                        /\ GoOn(p, "produced", {}, <<Only(req[p].base[w].productionOrder,
                                                         [quantityProduced |-> n])>>, "idle")
                   \/ GoOn(p, "produced", {}, <<>>, "idle")
    BY LastIsLast DEF UpdateWorkOrderStatus
  <1> QED BY <1>1, <1>2, <1>3, <1>4, <1>5

LEMMA ShopfloorInv ==
    ASSUME BackOfficeInv, NEW p \in Workers, ShopfloorStep(p)
    PROVE  BackOfficeInv'
  <1>0. "product" \notin Lasting /\ "warehouse" \notin Lasting BY TablesLast
  <1>1. ASSUME CreateProduct(p) PROVE BackOfficeInv'
    <2>1. PICK sku :
              /\ Free("product") # {}
              /\ Handle(p, {New("product")}, <<Only(New("product"), Product(sku))>>)
      BY <1>1 DEF CreateProduct
    <2> DEFINE row == Product(sku)
    <2>2. Rowed(row) /\ row.table = "product" /\ row.status # "absent" BY DEF Product, Rowed
    <2> HIDE DEF row
    <2> QED BY <1>0, <2>1, <2>2, InsertsOther DEF row, Models
  <1>2. ASSUME CreateWarehouse(p) PROVE BackOfficeInv'
    <2>1. PICK code :
              /\ Free("warehouse") # {}
              /\ Handle(p, {New("warehouse")}, <<Only(New("warehouse"), Warehouse(code))>>)
      BY <1>2 DEF CreateWarehouse
    <2> DEFINE row == Warehouse(code)
    <2>2. Rowed(row) /\ row.table = "warehouse" /\ row.status # "absent" BY DEF Warehouse, Rowed
    <2> HIDE DEF row
    <2> QED BY <1>0, <2>1, <2>2, InsertsOther DEF row, Models
  <1>3. ASSUME UpdateProduct(p) \/ DeleteProduct(p) PROVE BackOfficeInv'
    <2>1. PICK x \in Rows("product") :
              \/ \E sku : Handle(p, {x}, <<Only(x, [db[x] EXCEPT !.key = sku])>>)
              \/ \E to : Handle(p, {x}, <<Only(x, [db[x] EXCEPT !.status = to])>>)
      BY <1>3 DEF UpdateProduct, DeleteProduct
    <2>2. Rowed(db[x]) /\ db[x].table = "product" BY RowHas
    <2>3. \A sku : /\ Rowed([db[x] EXCEPT !.key = sku])
                   /\ [db[x] EXCEPT !.key = sku].table = "product"
      BY <2>2 DEF Rowed
    <2>4. \A to : /\ Rowed([db[x] EXCEPT !.status = to])
                  /\ [db[x] EXCEPT !.status = to].table = "product"
      BY <2>2 DEF Rowed
    <2>5. ASSUME NEW sku, Handle(p, {x}, <<Only(x, [db[x] EXCEPT !.key = sku])>>)
          PROVE  BackOfficeInv'
      BY <1>0, <2>3, <2>5, UpdatesOther DEF Models
    <2>6. ASSUME NEW to, Handle(p, {x}, <<Only(x, [db[x] EXCEPT !.status = to])>>)
          PROVE  BackOfficeInv'
      BY <1>0, <2>4, <2>6, UpdatesOther DEF Models
    <2> QED BY <2>1, <2>5, <2>6
  <1>4. ASSUME UpdateWarehouse(p) PROVE BackOfficeInv'
    <2>1. PICK x \in Rows("warehouse"), code \in Skus :
              Handle(p, {x}, <<Only(x, [db[x] EXCEPT !.key = code])>>)
      BY <1>4 DEF UpdateWarehouse
    <2>2. Rowed(db[x]) /\ db[x].table = "warehouse" BY RowHas
    <2>3. Rowed([db[x] EXCEPT !.key = code]) /\ [db[x] EXCEPT !.key = code].table = "warehouse"
      BY <2>2 DEF Rowed
    <2> QED BY <1>0, <2>1, <2>3, UpdatesOther DEF Models
  <1> QED BY <1>1, <1>2, <1>3, <1>4, CreateProductionOrderInv, CreateWorkOrderInv,
             UpdateWorkOrderStatusInv
          DEF ShopfloorStep
-----------------------------------------------------------------------------
(* Personnel.                                                              *)

\* Of rows, one that was created last.
LEMMA CreatedLast ==
    ASSUME NEW T, NEW m \in Nat, T # {}, \A x \in T : db[x].createdAt \in 0 .. m
    PROVE  \E x \in T : \A y \in T : db[y].createdAt <= db[x].createdAt
  <1> DEFINE Behind == {n \in Nat : \E x \in T : n = m - db[x].createdAt}
  <1>1. \A x \in T : m - db[x].createdAt \in Behind
    <2> TAKE x \in T
    <2> DEFINE at == db[x].createdAt
    <2>1. at \in 0 .. m OBVIOUS
    <2> HIDE DEF at
    <2>2. m - at \in Nat BY <2>1
    <2> QED BY <2>2 DEF at
  <1>2. PICK n \in Behind : \A k \in Behind : n <= k
    <2>1. \E k : k \in Behind BY <1>1
    <2>2. Behind \in SUBSET Nat OBVIOUS
    <2> HIDE DEF Behind
    <2>3. PICK n \in Behind : \A k \in Behind : ~(<<k, n>> \in OpToRel(<, Nat))
      BY <2>1, <2>2, NatLessThanWellFounded, WFMin
    <2>4. \A k \in Behind : k \in Nat /\ ~(k < n) BY <2>2, <2>3 DEF OpToRel
    <2>5. n \in Nat BY <2>2
    <2>6. \A k \in Behind : n <= k BY <2>4, <2>5
    <2> QED BY <2>6
  <1>3. PICK x \in T : n = m - db[x].createdAt OBVIOUS
  <1>4. ASSUME NEW y \in T PROVE db[y].createdAt <= db[x].createdAt
    <2> DEFINE v == db[y].createdAt
               w == db[x].createdAt
    <2>1. n <= m - v BY <1>1, <1>2
    <2>2. v \in 0 .. m /\ w \in 0 .. m /\ n = m - w BY <1>3
    <2> HIDE DEF Behind, v, w
    <2>3. v <= w BY <2>1, <2>2
    <2> QED BY <2>3 DEF v, w
  <1> QED BY <1>4

LEMMA NextNumber ==
    ASSUME BackOfficeInv
    PROVE  NextEmployeeNumber \in 1 .. Cardinality(Stored(db, "employee")) + 1
  <1> DEFINE all == Rows("employee")
             n == Cardinality(Stored(db, "employee"))
             last == CHOOSE e \in all : \A x \in all : db[x].createdAt <= db[e].createdAt
  <1>1. n \in Nat
    <2>1. Stored(db, "employee") \subseteq DOMAIN db BY DEF Stored
    <2>2. IsFiniteSet(Stored(db, "employee")) BY <2>1, FS_Subset DEF BackOfficeInv, Sound
    <2> QED BY <2>2, FS_CardinalityType
  <1>2. CASE all = {}
    <2>1. NextEmployeeNumber = 1 BY <1>2 DEF NextEmployeeNumber
    <2> HIDE DEF n
    <2>2. 1 \in 1 .. n + 1 BY <1>1
    <2>3. NextEmployeeNumber \in 1 .. n + 1 BY <2>1, <2>2
    <2> QED BY <2>3 DEF n
  <1>3. CASE all # {}
    <2>1. \A x \in all : db[x].createdAt \in 0 .. MaxCalls
      BY SameRows DEF BackOfficeInv, Sound
    <2>2. MaxCalls \in Nat BY RequestsAssumption
    <2> DEFINE k == db[last].key
    <2>3. NextEmployeeNumber = k + 1 BY <1>3 DEF NextEmployeeNumber
    <2>4. all = Stored(db, "employee") BY SameRows
    <2> HIDE DEF all
    <2>5. \E e \in all : \A x \in all : db[x].createdAt <= db[e].createdAt
      BY <1>3, <2>1, <2>2, CreatedLast
    <2>6. last \in all BY <2>5
    <2> HIDE DEF last
    <2>7. InOrder(db, "employee") BY DEF BackOfficeInv, Sound, Numbered
    <2>8. k \in 1 .. n BY <2>4, <2>6, <2>7 DEF InOrder
    <2> HIDE DEF k, n
    <2>9. k + 1 \in 1 .. n + 1 BY <1>1, <2>8
    <2>10. NextEmployeeNumber \in 1 .. n + 1 BY <2>3, <2>9
    <2> QED BY <2>10 DEF n
  <1> QED BY <1>2, <1>3

LEMMA CreateEmployeeInv ==
    ASSUME BackOfficeInv, NEW p \in Workers, CreateEmployee(p)
    PROVE  BackOfficeInv'
  <1>1. PICK code, hired :
            /\ Free("employee") # {}
            /\ Handle(p, {New("employee")},
                      <<Only(New("employee"), Employee(NextEmployeeNumber, code, hired))>>)
    BY DEF CreateEmployee
  <1> DEFINE n == NextEmployeeNumber
             row == Employee(n, code, hired)
  <1>2. n \in 1 .. Cardinality(Stored(db, "employee")) + 1 BY NextNumber
  <1>3. Handle(p, {New("employee")}, <<Only(New("employee"), row)>>) BY <1>1
  <1> HIDE DEF n
  <1>4. /\ row.table = "employee" /\ row.status = "prospect" /\ row.key = n
        /\ row.createdAt = calls
        /\ {"table", "status", "key", "createdAt"} \subseteq DOMAIN row
    BY DEF Employee
  <1>5. calls \in 0 .. MaxCalls BY DEF BackOfficeInv
  <1> HIDE DEF row
  <1>6. NewOK("employee", row) BY <1>2, <1>4, <1>5, TablesLast DEF NewOK, Rowed, Right, Columns
  <1> QED BY <1>1, <1>3, <1>6, Inserts DEF Models

\* What an employee's row may become.
LEMMA EmployeeUpdates ==
    ASSUME BackOfficeInv, NEW p \in Workers, NEW e \in Rows("employee"), NEW row,
           DOMAIN row = DOMAIN db[e], row.table = db[e].table, row.status # "absent",
           \A f \in DOMAIN row \ {"status", "alias", "hireDate", "terminationDate"} : row[f] = db[e][f],
           Handle(p, {e}, <<Only(e, row)>>)
    PROVE  BackOfficeInv'
  <1>1. e \in DOMAIN db /\ Present(e) /\ Rowed(db[e]) /\ db[e].table = "employee" BY RowHas
  <1>2. OldOK(e, row) BY <1>1 DEF OldOK, Rowed, Right, Fixed
  <1> QED BY <1>1, <1>2, Updates DEF Watched, Models

LEMMA UpdateEmployeeInv ==
    ASSUME BackOfficeInv, NEW p \in Workers,
           UpdateEmployee(p) \/ StartOnboarding(p) \/ Activate(p) \/ Terminate(p)
    PROVE  BackOfficeInv'
  <1>1. ASSUME UpdateEmployee(p) PROVE BackOfficeInv'
    <2>1. PICK e \in Rows("employee"), code \in FiscalCodes :
              Handle(p, {e}, <<Only(e, [db[e] EXCEPT !.alias = code])>>)
      BY <1>1 DEF UpdateEmployee
    <2> DEFINE row == [db[e] EXCEPT !.alias = code]
    <2>2. Rowed(db[e]) /\ Present(e) BY RowHas
    <2>3. /\ DOMAIN row = DOMAIN db[e] /\ row.table = db[e].table /\ row.status # "absent"
          /\ \A f \in DOMAIN row \ {"status", "alias", "hireDate", "terminationDate"} : row[f] = db[e][f]
      BY <2>2 DEF Rowed, Present
    <2> HIDE DEF row
    <2> QED BY <2>1, <2>3, EmployeeUpdates DEF row
  <1>2. ASSUME StartOnboarding(p) PROVE BackOfficeInv'
    <2>1. PICK e \in Rows("employee"), hired \in {None, now} :
              Handle(p, {e}, <<Only(e, [db[e] EXCEPT !.status = "onboarding",
                                       !.hireDate = IF hired = None THEN @ ELSE hired])>>)
      BY <1>2 DEF StartOnboarding
    <2> DEFINE row == [db[e] EXCEPT !.status = "onboarding",
                                    !.hireDate = IF hired = None THEN @ ELSE hired]
    <2>2. Rowed(db[e]) /\ Present(e) BY RowHas
    <2>3. /\ DOMAIN row = DOMAIN db[e] /\ row.table = db[e].table /\ row.status # "absent"
          /\ \A f \in DOMAIN row \ {"status", "alias", "hireDate", "terminationDate"} : row[f] = db[e][f]
      BY <2>2 DEF Rowed
    <2>4. Handle(p, {e}, <<Only(e, row)>>) BY <2>1
    <2> HIDE DEF row
    <2> QED BY <2>3, <2>4, EmployeeUpdates
  <1>3. ASSUME Activate(p) PROVE BackOfficeInv'
    <2>1. PICK e \in Rows("employee"), hired \in {None, now} :
              Handle(p, {e}, <<Only(e, [db[e] EXCEPT !.status = "active",
                  !.hireDate = IF hired # None THEN hired ELSE IF @ = None THEN now ELSE @])>>)
      BY <1>3 DEF Activate
    <2> DEFINE row == [db[e] EXCEPT !.status = "active",
                  !.hireDate = IF hired # None THEN hired ELSE IF @ = None THEN now ELSE @]
    <2>2. Rowed(db[e]) /\ Present(e) BY RowHas
    <2>3. /\ DOMAIN row = DOMAIN db[e] /\ row.table = db[e].table /\ row.status # "absent"
          /\ \A f \in DOMAIN row \ {"status", "alias", "hireDate", "terminationDate"} : row[f] = db[e][f]
      BY <2>2 DEF Rowed
    <2>4. Handle(p, {e}, <<Only(e, row)>>) BY <2>1
    <2> HIDE DEF row
    <2> QED BY <2>3, <2>4, EmployeeUpdates
  <1>4. ASSUME Terminate(p) PROVE BackOfficeInv'
    <2>1. PICK e \in Rows("employee") :
              Handle(p, {e}, <<Only(e, [db[e] EXCEPT !.status = "terminated", !.terminationDate = now])>>)
      BY <1>4 DEF Terminate
    <2> DEFINE row == [db[e] EXCEPT !.status = "terminated", !.terminationDate = now]
    <2>2. Rowed(db[e]) /\ Present(e) BY RowHas
    <2>3. /\ DOMAIN row = DOMAIN db[e] /\ row.table = db[e].table /\ row.status # "absent"
          /\ \A f \in DOMAIN row \ {"status", "alias", "hireDate", "terminationDate"} : row[f] = db[e][f]
      BY <2>2 DEF Rowed
    <2>4. Handle(p, {e}, <<Only(e, row)>>) BY <2>1
    <2> HIDE DEF row
    <2> QED BY <2>3, <2>4, EmployeeUpdates
  <1> QED BY <1>1, <1>2, <1>3, <1>4

\* What an attendance's may.
AttendanceColumns == {"clockInAt", "clockOutAt", "breakMinutes", "workedHours"}

LEMMA AttendanceOK ==
    ASSUME BackOfficeInv, NEW a \in Rows("attendance"), NEW row,
           DOMAIN row = DOMAIN db[a], row.table = db[a].table, row.status # "absent",
           \A f \in DOMAIN row \ ({"status"} \cup AttendanceColumns) : row[f] = db[a][f],
           HoursRight(db[a]) => HoursRight(row)
    PROVE  OldOK(a, row) /\ a \in DOMAIN db /\ Present(a) /\ db[a].table = "attendance"
  <1>1. /\ a \in DOMAIN db /\ Present(a) /\ Rowed(db[a]) /\ db[a].table = "attendance"
        /\ a \notin contended => HoursRight(db[a])
    BY RowHas DEF Right
  <1>2. \A f \in Fixed : f \notin {"status"} \cup AttendanceColumns BY DEF Fixed, AttendanceColumns
  <1> QED BY <1>1, <1>2 DEF OldOK, Rowed, Right

LEMMA AttendanceHas ==
    ASSUME BackOfficeInv, NEW a \in Rows("attendance")
    PROVE  {"table", "status"} \cup AttendanceColumns \subseteq DOMAIN db[a]
  BY RowHas, TablesLast DEF Columns, AttendanceColumns, Rowed

LEMMA ClockInInv ==
    ASSUME BackOfficeInv, NEW p \in Workers, ClockIn(p)
    PROVE  BackOfficeInv'
  <1>1. ASSUME NEW a \in Rows("attendance"), NEW at, db[a].status = "open",
               Handle(p, {a}, <<Only(a, [db[a] EXCEPT !.clockInAt = at])>>)
        PROVE  BackOfficeInv'
    <2> DEFINE row == [db[a] EXCEPT !.clockInAt = at]
    <2>1. {"table", "status"} \cup AttendanceColumns \subseteq DOMAIN db[a] BY AttendanceHas
    <2>2. /\ DOMAIN row = DOMAIN db[a] /\ row.table = db[a].table /\ row.status = "open"
          /\ row.clockOutAt = db[a].clockOutAt /\ row.workedHours = db[a].workedHours
          /\ \A f \in DOMAIN row \ ({"status"} \cup AttendanceColumns) : row[f] = db[a][f]
      BY <1>1, <2>1 DEF AttendanceColumns
    <2>3. Handle(p, {a}, <<Only(a, row)>>) BY <1>1
    <2> HIDE DEF row
    <2>4. HoursRight(db[a]) => HoursRight(row) BY <1>1, <2>2 DEF HoursRight
    <2>5. OldOK(a, row) /\ a \in DOMAIN db /\ Present(a) /\ db[a].table = "attendance"
      BY <2>2, <2>4, AttendanceOK
    <2> QED BY <2>3, <2>5, Updates DEF Watched, Models
  <1>2. ASSUME NEW e, NEW day, NEW at, Free("attendance") # {},
               Handle(p, {New("attendance")}, <<Only(New("attendance"), Attendance(e, day, at))>>)
        PROVE  BackOfficeInv'
    <2> DEFINE row == Attendance(e, day, at)
    <2>1. /\ row.table = "attendance" /\ row.status = "open" /\ row.clockOutAt = None
          /\ row.workedHours = 0
          /\ {"table", "status", "clockInAt", "clockOutAt", "breakMinutes", "workedHours"}
                 \subseteq DOMAIN row
      BY DEF Attendance
    <2>2. Handle(p, {New("attendance")}, <<Only(New("attendance"), row)>>) BY <1>2
    <2> HIDE DEF row
    <2>3. HoursRight(row) BY <2>1 DEF HoursRight
    <2>4. NewOK("attendance", row)
      BY <2>1, <2>3, TablesLast DEF NewOK, Rowed, Right, Columns, Numbered
    <2> QED BY <1>2, <2>2, <2>4, Inserts DEF Models
  <1>3. \/ \E a \in Rows("attendance") : \E at :
              /\ db[a].status = "open"
              /\ Handle(p, {a}, <<Only(a, [db[a] EXCEPT !.clockInAt = at])>>)
        \/ \E e, day, at :
              /\ Free("attendance") # {}
              /\ Handle(p, {New("attendance")}, <<Only(New("attendance"), Attendance(e, day, at))>>)
    BY DEF ClockIn, AttendanceOf
  <1> QED BY <1>1, <1>2, <1>3

LEMMA ClockOutInv ==
    ASSUME BackOfficeInv, NEW p \in Workers, ClockOut(p)
    PROVE  BackOfficeInv'
  <1>1. PICK a \in Rows("attendance") : \E at, minutes :
            Handle(p, {a}, <<Only(a, [db[a] EXCEPT !.status = "closed", !.clockOutAt = at,
                   !.breakMinutes = minutes,
                   !.workedHours = WorkedHours(db[a].clockInAt, at, minutes)])>>)
    BY DEF ClockOut
  <1> PICK at, minutes :
          Handle(p, {a}, <<Only(a, [db[a] EXCEPT !.status = "closed", !.clockOutAt = at,
                 !.breakMinutes = minutes,
                 !.workedHours = WorkedHours(db[a].clockInAt, at, minutes)])>>)
    BY <1>1
  <1> DEFINE hours == WorkedHours(db[a].clockInAt, at, minutes)
             row == [db[a] EXCEPT !.status = "closed", !.clockOutAt = at,
                 !.breakMinutes = minutes, !.workedHours = hours]
  <1>2. {"table", "status"} \cup AttendanceColumns \subseteq DOMAIN db[a] BY AttendanceHas
  <1>3. Handle(p, {a}, <<Only(a, row)>>) OBVIOUS
  <1> HIDE DEF hours
  <1>4. /\ DOMAIN row = DOMAIN db[a] /\ row.table = db[a].table /\ row.status = "closed"
        /\ row.clockInAt = db[a].clockInAt /\ row.clockOutAt = at /\ row.breakMinutes = minutes
        /\ row.workedHours = hours
        /\ \A f \in DOMAIN row \ ({"status"} \cup AttendanceColumns) : row[f] = db[a][f]
    BY <1>2 DEF AttendanceColumns
  <1> HIDE DEF row
  <1>5. HoursRight(row) BY <1>4 DEF HoursRight, hours
  <1>6. OldOK(a, row) /\ a \in DOMAIN db /\ Present(a) /\ db[a].table = "attendance"
    BY <1>4, <1>5, AttendanceOK
  <1> QED BY <1>3, <1>6, Updates DEF Watched, Models

\* Transactions of one row each, all different.
LEMMA ManyUnitsSane ==
    ASSUME NEW k \in Nat, NEW txs, txs = [n \in 1 .. k |-> txs[n]], NEW E,
           \A i \in 1 .. k : Proper(txs[i], E),
           \A i, j \in 1 .. k : i # j => DOMAIN txs[i] \cap DOMAIN txs[j] = {}
    PROVE  Sane(txs, E)
  <1> DEFINE S == {txs[n] : n \in 1 .. k}
  <1>1. txs \in Seq(S) /\ Len(txs) = k
    <2>1. txs \in [1 .. k -> S] OBVIOUS
    <2> HIDE DEF S
    <2>2. txs \in Seq(S) BY <2>1
    <2>3. Len(txs) = k BY <2>1, <2>2
    <2> QED BY <2>2, <2>3
  <1>2. Savable(txs, E, {}, Lasting) BY <1>1 DEF Savable, Proper
  <1>3. \A i \in 1 .. k : /\ UnitOK(db, contended, txs[i]) /\ Belongs(db, txs[i], E)
                          /\ Silent(txs[i])
    BY DEF Proper
  <1>4. Reports(db, contended, txs) BY <1>1, <1>3 DEF Reports, Silent
  <1> QED BY <1>1, <1>2, <1>3, <1>4 DEF Sane

\* Different rows that are stored, each saved again by itself.
LEMMA UpdatesEach ==
    ASSUME BackOfficeInv, NEW p \in Workers, NEW D \in SUBSET DOMAIN db,
           \A d \in D : /\ Present(d)
                       /\ db[d].table \notin {"production_order", "work_order"} \cup Watched,
           NEW k \in Nat, NEW ids \in [1 .. k -> D], \A i, j \in 1 .. k : i # j => ids[i] # ids[j],
           NEW rows, \A i \in 1 .. k : OldOK(ids[i], rows[i]),
           Handle(p, D, [n \in 1 .. k |-> Only(ids[n], rows[n])])
    PROVE  BackOfficeInv'
  <1> DEFINE txs == [n \in 1 .. k |-> Only(ids[n], rows[n])]
  <1>1. \A i \in 1 .. k : Proper(txs[i], D)
    <2> TAKE i \in 1 .. k
    <2>1. /\ ids[i] \in D /\ ids[i] \in DOMAIN db /\ Present(ids[i]) /\ OldOK(ids[i], rows[i])
          /\ db[ids[i]].table \notin {"production_order", "work_order"} \cup Watched
      OBVIOUS
    <2>2. txs[i] = Only(ids[i], rows[i]) OBVIOUS
    <2> HIDE DEF txs
    <2> QED BY <2>1, <2>2, UpdateFits
  <1>2. \A i, j \in 1 .. k : i # j => DOMAIN txs[i] \cap DOMAIN txs[j] = {} BY DEF Only
  <1>3. txs = [n \in 1 .. k |-> txs[n]] OBVIOUS
  <1>4. Begin(p, D, txs, "idle") BY DEF Handle
  <1> HIDE DEF txs
  <1>5. Sane(txs, D) BY <1>1, <1>2, <1>3, ManyUnitsSane
  <1>6. Readable(D) BY DEF Readable
  <1>7. GoesOnWith(db, [x \in D |-> db[x]], txs, "idle") BY DEF GoesOnWith
  <1>8. \A d \in D : db[d].table \notin Watched OBVIOUS
  <1> QED BY <1>4, <1>5, <1>6, <1>7, <1>8, BeginElsewhere

LEMMA InAnyOrder ==
    ASSUME NEW S, IsFiniteSet(S)
    PROVE  /\ Cardinality(S) \in Nat
           /\ SetToSeq(S) \in [1 .. Cardinality(S) -> S]
           /\ \A i, j \in 1 .. Cardinality(S) : i # j => SetToSeq(S)[i] # SetToSeq(S)[j]
  <1>1. Cardinality(S) \in Nat /\ ExistsBijection(1 .. Cardinality(S), S)
    BY FS_CardinalityType
  <1>2. \E f \in [1 .. Cardinality(S) -> S] : IsInjective(f)
    BY <1>1 DEF ExistsBijection, Bijection, Injection
  <1>3. SetToSeq(S) \in [1 .. Cardinality(S) -> S] /\ IsInjective(SetToSeq(S))
    BY <1>2 DEF SetToSeq
  <1> HIDE DEF SetToSeq
  <1> QED BY <1>1, <1>3 DEF IsInjective

LEMMA SweepOrphansInv ==
    ASSUME BackOfficeInv, NEW p \in Workers, SweepOrphans(p)
    PROVE  BackOfficeInv'
  <1>1. PICK cutoff :
            LET orphans == {a \in Rows("attendance") : db[a].status = "open" /\ db[a].day < cutoff}
            IN  Handle(p, orphans,
                      [i \in 1 .. Cardinality(orphans) |->
                          LET a == SetToSeq(orphans)[i] IN Only(a, AutoClosed(db[a]))])
    BY DEF SweepOrphans
  <1> DEFINE orphans == {a \in Rows("attendance") : db[a].status = "open" /\ db[a].day < cutoff}
             k == Cardinality(orphans)
             ids == SetToSeq(orphans)
             rows == [i \in 1 .. k |-> AutoClosed(db[ids[i]])]
  <1>2. /\ orphans \in SUBSET DOMAIN db
        /\ \A a \in orphans : Present(a) /\ db[a].table = "attendance"
    BY RowsThere
  <1>3. IsFiniteSet(orphans) BY <1>2, FS_Subset DEF BackOfficeInv, Sound
  <1>4. /\ k \in Nat /\ ids \in [1 .. k -> orphans]
        /\ \A i, j \in 1 .. k : i # j => ids[i] # ids[j]
    BY <1>3, InAnyOrder
  <1>5. ASSUME NEW a \in orphans PROVE OldOK(a, AutoClosed(db[a]))
    <2> DEFINE row == AutoClosed(db[a])
               end == EndOfDay(db[a].day)
               hours == WorkedHours(db[a].clockInAt, end, db[a].breakMinutes)
    <2>1. a \in Rows("attendance") /\ db[a].status = "open" OBVIOUS
    <2>2. {"table", "status"} \cup AttendanceColumns \subseteq DOMAIN db[a] BY <2>1, AttendanceHas
    <2>3. row = IF db[a].clockOutAt # None THEN [db[a] EXCEPT !.status = "auto_closed"]
                ELSE [db[a] EXCEPT !.status = "auto_closed", !.clockOutAt = end, !.workedHours = hours]
      BY DEF AutoClosed
    <2> HIDE DEF hours, end, row
    <2>4. /\ DOMAIN row = DOMAIN db[a] /\ row.table = db[a].table /\ row.status = "auto_closed"
          /\ row.clockInAt = db[a].clockInAt /\ row.breakMinutes = db[a].breakMinutes
          /\ db[a].clockOutAt = None => row.clockOutAt = end /\ row.workedHours = hours
          /\ \A f \in DOMAIN row \ ({"status"} \cup AttendanceColumns) : row[f] = db[a][f]
      BY <2>2, <2>3 DEF AttendanceColumns
    <2>5. HoursRight(db[a]) => HoursRight(row) BY <2>1, <2>4 DEF HoursRight, hours
    <2>6. OldOK(a, row) BY <2>1, <2>4, <2>5, AttendanceOK
    <2> QED BY <2>6 DEF row
  <1>6. \A i \in 1 .. k : OldOK(ids[i], rows[i])
    <2> TAKE i \in 1 .. k
    <2>1. ids[i] \in orphans BY <1>4
    <2>2. OldOK(ids[i], AutoClosed(db[ids[i]])) BY <1>5, <2>1
    <2> QED BY <2>2
  <1>7. Handle(p, orphans, [n \in 1 .. k |-> Only(ids[n], rows[n])])
    <2>1. [n \in 1 .. k |-> Only(ids[n], rows[n])] = [n \in 1 .. k |-> Only(ids[n], AutoClosed(db[ids[n]]))]
      OBVIOUS
    <2> QED BY <1>1, <2>1
  <1>8. /\ orphans \in SUBSET DOMAIN db
        /\ \A a \in orphans : /\ Present(a)
                             /\ db[a].table \notin {"production_order", "work_order"} \cup Watched
    BY <1>2 DEF Watched, Models
  <1> HIDE DEF orphans, k, ids, rows
  <1> QED BY <1>4, <1>6, <1>7, <1>8, UpdatesEach

LEMMA LeavesInv ==
    ASSUME BackOfficeInv, NEW p \in Workers, CreateLeave(p) \/ SubmitLeave(p) \/ DecideLeave(p)
    PROVE  BackOfficeInv'
  <1>0. "leave" \notin Lasting BY TablesLast DEF Lasting, Numbered
  <1>1. ASSUME CreateLeave(p) PROVE BackOfficeInv'
    <2>1. PICK e, from, until :
              /\ Free("leave") # {}
              /\ Handle(p, {New("leave")}, <<Only(New("leave"), LeaveRequest(e, from, until))>>)
      BY <1>1 DEF CreateLeave
    <2> DEFINE row == LeaveRequest(e, from, until)
    <2>2. Rowed(row) /\ row.table = "leave" /\ row.status # "absent" BY DEF LeaveRequest, Rowed
    <2>3. Handle(p, {New("leave")}, <<Only(New("leave"), row)>>) BY <2>1
    <2> HIDE DEF row
    <2> QED BY <1>0, <2>1, <2>2, <2>3, InsertsOther DEF Models
  <1>2. ASSUME SubmitLeave(p) PROVE BackOfficeInv'
    <2>1. PICK r \in Rows("leave") :
              Handle(p, {r}, <<Only(r, [db[r] EXCEPT !.status = "submitted", !.submittedAt = now])>>)
      BY <1>2 DEF SubmitLeave
    <2> DEFINE row == [db[r] EXCEPT !.status = "submitted", !.submittedAt = now]
    <2>2. Rowed(db[r]) /\ db[r].table = "leave" BY RowHas
    <2>3. Rowed(row) /\ row.table = "leave" BY <2>2 DEF Rowed
    <2>4. Handle(p, {r}, <<Only(r, row)>>) BY <2>1
    <2> HIDE DEF row
    <2> QED BY <1>0, <2>3, <2>4, UpdatesOther DEF Models
  <1>3. ASSUME DecideLeave(p) PROVE BackOfficeInv'
    <2>1. PICK r \in Rows("leave"), to \in {"approved", "rejected", "cancelled"} :
              Handle(p, {r}, <<Only(r, [db[r] EXCEPT !.status = to, !.decidedAt = now,
                                                  !.decidedBy = p])>>)
      BY <1>3 DEF DecideLeave
    <2> DEFINE row == [db[r] EXCEPT !.status = to, !.decidedAt = now, !.decidedBy = p]
    <2>2. Rowed(db[r]) /\ db[r].table = "leave" BY RowHas
    <2>3. Rowed(row) /\ row.table = "leave" BY <2>2 DEF Rowed
    <2>4. Handle(p, {r}, <<Only(r, row)>>) BY <2>1
    <2> HIDE DEF row
    <2> QED BY <1>0, <2>3, <2>4, UpdatesOther DEF Models
  <1> QED BY <1>1, <1>2, <1>3

LEMMA PeopleInv ==
    ASSUME BackOfficeInv, NEW p \in Workers, PeopleStep(p)
    PROVE  BackOfficeInv'
  BY CreateEmployeeInv, UpdateEmployeeInv, ClockInInv, ClockOutInv, SweepOrphansInv, LeavesInv
     DEF PeopleStep
-----------------------------------------------------------------------------
(* Customs, reports, companies.                                            *)

\* Rows of tables nothing here is said of, in one transaction.
LEMMA OtherUnit ==
    ASSUME NEW u, NEW E,
           \A d \in DOMAIN u : /\ d \in E /\ d \in DOMAIN db /\ Rowed(u[d])
                               /\ u[d].table = db[d].table /\ db[d].table \notin Lasting
    PROVE  Proper(u, E)
  <1>1. UnitFits(db, u, E, {}, Lasting) /\ UnitOK(db, contended, u)
    BY DEF UnitFits, ObjectFits, UnitOK
  <1>2. Belongs(db, u, E) /\ Silent(u) BY TablesLast DEF Belongs, Silent
  <1> QED BY <1>1, <1>2 DEF Proper

LEMMA SpareIds ==
    ASSUME NEW t, NEW n, Spare(t, n)
    PROVE  NewIds(t, n) \subseteq Free(t)
  BY DEF Spare, NewIds

LEMMA OtherTables ==
    /\ {"leave", "declaration", "line", "read_model", "report", "schedule", "company",
        "installation"} \cap Lasting = {}
    /\ "bank_account" \in Lasting
  BY DEF Lasting, Numbered

LEMMA DeclarationsInv ==
    ASSUME BackOfficeInv, NEW p \in Workers, CreateDraft(p) \/ Submit(p) \/ Answer(p) \/ Reopen(p)
    PROVE  BackOfficeInv'
  <1>0. "declaration" \notin Lasting BY OtherTables
  <1>1. ASSUME CreateDraft(p) PROVE BackOfficeInv'
    <2>1. PICK type, period :
              /\ Free("declaration") # {}
              /\ Handle(p, {New("declaration")},
                        <<Only(New("declaration"), IntrastatDeclaration(type, period))>>)
      BY <1>1 DEF CreateDraft
    <2> DEFINE row == IntrastatDeclaration(type, period)
    <2>2. Rowed(row) /\ row.table = "declaration" /\ row.status # "absent"
      BY DEF IntrastatDeclaration, Rowed
    <2>3. Handle(p, {New("declaration")}, <<Only(New("declaration"), row)>>) BY <2>1
    <2> HIDE DEF row
    <2> QED BY <1>0, <2>1, <2>2, <2>3, InsertsOther DEF Models
  <1>2. ASSUME NEW x \in Rows("declaration"), NEW row, Rowed(row), row.table = "declaration",
               Handle(p, {x}, <<Only(x, row)>>)
        PROVE  BackOfficeInv'
    BY <1>0, <1>2, UpdatesOther DEF Models
  <1>3. \A x \in Rows("declaration") : Rowed(db[x]) /\ db[x].table = "declaration" BY RowHas
  <1>4. ASSUME Submit(p) PROVE BackOfficeInv'
    <2>1. PICK x \in Rows("declaration") :
              Handle(p, {x}, <<Only(x, [db[x] EXCEPT !.status = "submitted", !.admProtocollo = p])>>)
      BY <1>4 DEF Submit
    <2> DEFINE row == [db[x] EXCEPT !.status = "submitted", !.admProtocollo = p]
    <2>2. Rowed(row) /\ row.table = "declaration" BY <1>3 DEF Rowed
    <2>3. Handle(p, {x}, <<Only(x, row)>>) BY <2>1
    <2> HIDE DEF row
    <2> QED BY <1>2, <2>2, <2>3
  <1>5. ASSUME Answer(p) PROVE BackOfficeInv'
    <2>1. PICK x \in Rows("declaration"), to \in {"accepted", "rejected"} :
              Handle(p, {x}, <<Only(x, [db[x] EXCEPT !.status = to])>>)
      BY <1>5 DEF Answer
    <2> DEFINE row == [db[x] EXCEPT !.status = to]
    <2>2. Rowed(row) /\ row.table = "declaration" BY <1>3 DEF Rowed
    <2>3. Handle(p, {x}, <<Only(x, row)>>) BY <2>1
    <2> HIDE DEF row
    <2> QED BY <1>2, <2>2, <2>3
  <1>6. ASSUME Reopen(p) PROVE BackOfficeInv'
    <2>1. PICK x \in Rows("declaration") :
              Handle(p, {x}, <<Only(x, [db[x] EXCEPT !.status = "draft", !.generatedAt = None,
                                       !.totalValueCents = 0, !.lineCount = 0])>>)
      BY <1>6 DEF Reopen
    <2> DEFINE row == [db[x] EXCEPT !.status = "draft", !.generatedAt = None,
                                    !.totalValueCents = 0, !.lineCount = 0]
    <2>2. Rowed(row) /\ row.table = "declaration" BY <1>3 DEF Rowed
    <2>3. Handle(p, {x}, <<Only(x, row)>>) BY <2>1
    <2> HIDE DEF row
    <2> QED BY <1>2, <2>2, <2>3
  <1> QED BY <1>1, <1>4, <1>5, <1>6

LEMMA GenerateInv ==
    ASSUME BackOfficeInv, NEW p \in Workers, Generate(p)
    PROVE  BackOfficeInv'
  <1>1. ASSUME NEW x \in Rows("declaration"), Begin(p, {x}, <<>>, "aggregate")
        PROVE  BackOfficeInv'
    <2> DEFINE D == {x}
               txs == <<>>
    <2>1. Readable(D) BY RowsThere DEF Readable
    <2>2. Sane(txs, D) BY NoUnit
    <2>3. Begin(p, D, txs, "aggregate") BY <1>1
    <2>5. \A a \in D : db[a].table \notin Watched BY RowsThere DEF Watched, Models
    <2> HIDE DEF D, txs
    <2>4. GoesOnWith(db, [d \in D |-> db[d]], txs, "aggregate") BY DEF GoesOnWith
    <2> QED BY <2>1, <2>2, <2>3, <2>4, <2>5, BeginElsewhere
  <1>2. ASSUME NEW x \in DOMAIN req[p].base, db[x].table = "declaration", NEW found, NEW n,
               NEW total, Spare("line", n),
               GoOn(p, "aggregate", NewIds("line", n) \cup LinesOf(x),
                    <<And(Rewritten(x, found, NewIds("line", n)),
                          Only(x, [req[p].base[x] EXCEPT !.status = "generated", !.generatedAt = now,
                                       !.totalValueCents = total, !.lineCount = n]))>>, "idle")
        PROVE  BackOfficeInv'
    <2> DEFINE ids == NewIds("line", n)
               D == ids \cup LinesOf(x)
               E == D \cup DOMAIN req[p].base
               row == [req[p].base[x] EXCEPT !.status = "generated", !.generatedAt = now,
                           !.totalValueCents = total, !.lineCount = n]
               lines == Rewritten(x, found, ids)
               u == And(lines, Only(x, row))
               txs == <<u>>
    <2>1. ids \subseteq Free("line") BY <1>2, SpareIds
    <2>2. \A l \in D : l \in DOMAIN db /\ db[l].table = "line" /\ (Present(l) \/ l \in Free(db[l].table))
      <3>1. \A l \in LinesOf(x) : l \in DOMAIN db /\ db[l].table = "line" /\ Present(l)
        BY DEF LinesOf, Rows, IdsOf
      <3> HIDE DEF ids
      <3> QED BY <2>1, <3>1 DEF Free, IdsOf
    <2>3. Readable(D) BY <2>2 DEF Readable
    <2>4. DOMAIN lines = D /\ \A l \in D : Rowed(lines[l]) /\ lines[l].table = "line"
      <3> HIDE DEF ids
      <3> QED BY DEF Rewritten, And, Absent, IntrastatLine, Rowed
    <2>5. ReadOK(db, x, req[p].base[x]) /\ x \in DOMAIN db
      BY DEF BackOfficeInv, PendingOK, Held, RequestFits
    <2>6. Rowed(row) /\ row.table = "declaration" BY <1>2, <2>5 DEF ReadOK, Rowed
    <2> HIDE DEF lines, row
    <2>7. /\ DOMAIN u = D \cup {x}
          /\ \A d \in DOMAIN u : u[d] = IF d \in D THEN lines[d] ELSE row
      <3> HIDE DEF D
      <3> QED BY <2>4 DEF And, Only
    <2>8. GoOn(p, "aggregate", D, txs, "idle") BY <1>2 DEF lines, row
    <2>13. \A l \in D : db[l].table \notin Watched BY <2>2 DEF Watched, Models
    <2> HIDE DEF D, u
    <2>9. \A d \in DOMAIN u : /\ d \in E /\ d \in DOMAIN db /\ Rowed(u[d])
                              /\ u[d].table = db[d].table /\ db[d].table \notin Lasting
      BY <1>2, <2>2, <2>4, <2>5, <2>6, <2>7, OtherTables
    <2> HIDE DEF E
    <2>10. Sane(txs, E) BY <2>9, OtherUnit, OneUnit
    <2>11. Sane(txs, D \cup DOMAIN req[p].base) BY <2>10 DEF E
    <2> HIDE DEF txs
    <2>12. GoesOnWith(db, And([d \in D |-> db[d]], req[p].base), txs, "idle") BY DEF GoesOnWith
    <2> QED BY <2>3, <2>8, <2>11, <2>12, <2>13, GoOnElsewhere
  <1>3. \/ \E x \in Rows("declaration") : Begin(p, {x}, <<>>, "aggregate")
        \/ \E x \in DOMAIN req[p].base : \E found, n, total :
              /\ db[x].table = "declaration" /\ Spare("line", n)
              /\ GoOn(p, "aggregate", NewIds("line", n) \cup LinesOf(x),
                      <<And(Rewritten(x, found, NewIds("line", n)),
                            Only(x, [req[p].base[x] EXCEPT !.status = "generated",
                                         !.generatedAt = now,
                                         !.totalValueCents = total, !.lineCount = n]))>>, "idle")
    BY DEF Generate
  <1> QED BY <1>1, <1>2, <1>3

LEMMA IntrastatInv ==
    ASSUME BackOfficeInv, NEW p \in Workers, IntrastatStep(p)
    PROVE  BackOfficeInv'
  BY DeclarationsInv, GenerateInv DEF IntrastatStep
-----------------------------------------------------------------------------
\* A run that has read its cursor is that of the cursor.
LEMMA HasCursor ==
    ASSUME BackOfficeInv, NEW p \in Workers, req[p].pc \in {"project", "refresh"}
    PROVE  LET c == CursorOf(p)
               b == req[p].base
           IN  /\ c \in DOMAIN b /\ c \in DOMAIN db /\ db[c].table = "cursor"
               /\ Rowed(b[c]) /\ b[c].table = "cursor"
               /\ IsRun(db, contended, req[p], c) /\ Present(c)
               /\ DOMAIN b[c] = DOMAIN db[c] /\ Columns("cursor") \subseteq DOMAIN db[c]
               /\ \A f \in Fixed \cap DOMAIN b[c] : b[c][f] = db[c][f]
               /\ b[c].key = db[c].key
               /\ \A x \in DOMAIN b : db[x].table = "cursor" => x = c
  <1> DEFINE c == CursorOf(p)
             b == req[p].base
  <1>1. PendingOK(db, contended, req[p]) /\ DOMAIN b \subseteq DOMAIN db
    BY DEF BackOfficeInv, Held, RequestFits
  <1>2. \A d \in DOMAIN b : ReadOK(db, d, b[d]) BY <1>1 DEF PendingOK
  <1>3. \A d \in DOMAIN b : Rowed(b[d]) /\ b[d].table = db[d].table BY <1>2 DEF ReadOK
  <1>4. \E d \in DOMAIN b : b[d].table = "cursor" BY <1>1, <1>3 DEF PendingOK, GoesOn
  <1>5. c \in DOMAIN b /\ b[c].table = "cursor" BY <1>4 DEF CursorOf
  <1> HIDE DEF c
  <1>6. c \in DOMAIN db /\ db[c].table = "cursor" /\ Rowed(b[c]) BY <1>1, <1>3, <1>5
  <1>7. PICK x \in DOMAIN b : IsRun(db, contended, req[p], x)
    BY <1>5, <1>6 DEF BackOfficeInv, ModelInv, Running, Models
  <1>8. \A y \in DOMAIN b : db[y].table = "cursor" => y = x BY <1>7 DEF IsRun
  <1>9. IsRun(db, contended, req[p], c) /\ x = c BY <1>5, <1>6, <1>7, <1>8
  <1>10. Projects(db, contended, req[p], c) \/ Refreshes(db, contended, req[p], c)
    BY <1>9 DEF IsRun, Starts, Finishes
  <1>11. db[c].status # "absent" /\ b[c].status # "absent"
    BY <1>10 DEF Projects, Refreshes, Underway
  <1>12. /\ DOMAIN b[c] = DOMAIN db[c] /\ \A f \in Fixed \cap DOMAIN b[c] : b[c][f] = db[c][f]
    BY <1>2, <1>5, <1>6, <1>11, TablesLast DEF ReadOK
  <1>13. Columns("cursor") \subseteq DOMAIN db[c]
    BY <1>6, <1>11, TablesLast DEF BackOfficeInv, Sound
  <1>14. b[c].key = db[c].key BY <1>12, <1>13 DEF Columns, Fixed
  <1> QED BY <1>5, <1>6, <1>8, <1>9, <1>11, <1>12, <1>13, <1>14 DEF Present, c

\* The rows a run is going to insert are not there.
LEMMA BroughtAbsent ==
    ASSUME BackOfficeInv, NEW q \in Workers, NEW d \in Brings(db, req[q])
    PROVE  db[d].status = "absent"
  <1>1. d \in DOMAIN req[q].base /\ db[d].table = "read_model" BY DEF Brings
  <1>2. PICK c \in DOMAIN req[q].base : IsRun(db, contended, req[q], c)
    BY <1>1 DEF BackOfficeInv, ModelInv, Running, Models
  <1>3. d # c BY <1>1, <1>2 DEF IsRun
  <1>4. CASE req[q].pc = "refresh"
    BY <1>1, <1>2, <1>3, <1>4 DEF IsRun, Starts, Projects, Refreshes, Finishes
  <1>5. CASE Len(req[q].todo) = 2 /\ d \in Brought(req[q].todo[1])
    <2>1. Len(<<>>) # 2 OBVIOUS
    <2>2. Finishes(db, contended, req[q], c)
      BY <1>2, <1>5, <2>1 DEF IsRun, Starts, Projects, Refreshes
    <2> QED BY <1>5, <2>2 DEF Finishes, Swaps
  <1> QED BY <1>4, <1>5 DEF Brings

\* A run that has the rows of D in hand besides, and others that run meanwhile.
LEMMA RunsFurther ==
    ASSUME BackOfficeInv, NEW p \in Workers, NEW r, contended \subseteq contended',
           Running(db, contended', r), NEW D, DOMAIN r.base = D \cup DOMAIN req[p].base,
           \A d \in D : db[d].table = "read_model",
           Brings(db, r) \subseteq Brings(db, req[p]) \cup Free("read_model"),
           \A q \in Workers \ {p} : \A d \in D \cap DOMAIN req[q].base :
               /\ d \notin Brings(db, req[q])
               /\ \A c \in DOMAIN req[p].base \cup DOMAIN req[q].base :
                      db[c].table = "cursor" => c \in contended
    PROVE  Runs(p, r)
  <1> SUFFICES ASSUME NEW q \in Workers \ {p}
               PROVE  Alone(db, contended', r, req[q]) /\ Alone(db, contended', req[q], r)
    BY DEF Runs
  <1>1. Alone(db, contended, req[p], req[q]) /\ Alone(db, contended, req[q], req[p])
    BY DEF BackOfficeInv, ModelInv
  <1>2. Brings(db, r) \cap DOMAIN req[q].base = {} BY <1>1 DEF Alone, Free
  <1>3. ASSUME NEW c \in DOMAIN r.base \ contended', db[c].table = "cursor"
        PROVE  DOMAIN r.base \cap DOMAIN req[q].base = {}
    <2>1. c \in DOMAIN req[p].base \ contended BY <1>3
    <2>2. DOMAIN req[p].base \cap DOMAIN req[q].base = {} BY <1>1, <1>3, <2>1 DEF Alone
    <2> QED BY <1>3, <2>1, <2>2
  <1>4. Brings(db, req[q]) \cap DOMAIN r.base = {} BY <1>1 DEF Alone, Brings
  <1>5. ASSUME NEW c \in DOMAIN req[q].base \ contended', db[c].table = "cursor"
        PROVE  DOMAIN r.base \cap DOMAIN req[q].base = {}
    <2>1. DOMAIN req[p].base \cap DOMAIN req[q].base = {} BY <1>1, <1>5 DEF Alone
    <2> QED BY <1>5, <2>1
  <1> QED BY <1>2, <1>3, <1>4, <1>5 DEF Alone

\* A request that has anything to save, or goes on.
LEMMA AtSomewhere ==
    ASSUME NEW b, NEW txs, NEW then, txs # <<>> \/ then # "idle"
    PROVE  LET r == At(b, txs, then)
           IN  /\ r.pc = IF txs = <<>> THEN then ELSE "reload"
               /\ r.base = b /\ r.todo = txs /\ r.then = then
  BY DEF At

LEMMA StartRunInv ==
    ASSUME BackOfficeInv, NEW p \in Workers, StartRun(p)
    PROVE  BackOfficeInv'
  <1>1. ASSUME NEW c \in DOMAIN db, db[c].table = "cursor", Readable({c}), NEW row,
               Proper(Only(c, row), {c}), row.status = "running",
               Begin(p, {c}, <<Only(c, row)>>, "project")
        PROVE  BackOfficeInv'
    <2> DEFINE D == {c}
               u == Only(c, row)
               txs == <<u>>
               b == [d \in D |-> db[d]]
               r == At(b, txs, "project")
    <2>1. DOMAIN u = {c} /\ u[c] = row BY DEF Only
    <2>2. Sane(txs, D) BY <1>1, OneUnit
    <2> HIDE DEF u
    <2>3. Begin(p, D, txs, "project") BY <1>1 DEF u
    <2>4. Readable(D) /\ \E d \in D : db[d].table = "cursor" BY <1>1
    <2>6. Len(txs) = 1 /\ txs[1] = u /\ DOMAIN b = {c} OBVIOUS
    <2>7. Banking(db, contended' \cup cut, D, txs, "project") BY <1>1 DEF Banking
    <2>8. contended' = contended \cup Shared(p, D) BY <2>3 DEF Begin
    <2>9. \A q \in Workers \ {p} : c \in DOMAIN req[q].base => c \in contended'
      BY <2>8 DEF Shared
    <2> HIDE DEF D, txs, b
    <2>10. /\ r.pc = "reload" /\ r.then = "project" /\ r.todo = txs /\ DOMAIN r.base = {c}
      BY <2>6, AtSomewhere
    <2> HIDE DEF r
    <2>11. Starts(db, r, c) BY <1>1, <2>1, <2>6, <2>10 DEF Starts
    <2>12. Running(db, contended', r) BY <1>1, <2>10, <2>11 DEF Running, IsRun
    <2>13. Brings(db, r) = {} BY <1>1, <2>10 DEF Brings
    <2>14. ASSUME NEW q \in Workers \ {p}
           PROVE  Alone(db, contended', r, req[q]) /\ Alone(db, contended', req[q], r)
      <3>1. Alone(db, contended', r, req[q]) BY <2>9, <2>10, <2>13 DEF Alone
      <3>2. c \notin Brings(db, req[q]) BY <1>1 DEF Brings
      <3>3. ASSUME NEW x \in DOMAIN req[q].base, db[x].table = "cursor", c \in DOMAIN req[q].base
            PROVE  x = c
        BY <1>1, <3>3 DEF BackOfficeInv, ModelInv, Running, IsRun, Models
      <3> QED BY <2>9, <2>10, <3>1, <3>2, <3>3 DEF Alone
    <2>15. Runs(p, r) BY <2>12, <2>14 DEF Runs
    <2>5. GoesOnWith(db, [d \in D |-> db[d]], txs, "project") BY <2>4 DEF GoesOnWith
    <2> QED BY <2>2, <2>3, <2>4, <2>5, <2>7, <2>15, BeginInv DEF r, b
  <1>2. ASSUME NEW c \in Rows("cursor"),
               Begin(p, {c}, <<Only(c, [db[c] EXCEPT !.status = "running", !.lastError = None])>>,
                     "project")
        PROVE  BackOfficeInv'
    <2> DEFINE row == [db[c] EXCEPT !.status = "running", !.lastError = None]
    <2>1. c \in DOMAIN db /\ Present(c) /\ Rowed(db[c]) /\ db[c].table = "cursor" BY RowHas
    <2>2. Rowed(row) /\ row.table = "cursor" /\ row.status = "running" BY <2>1 DEF Rowed
    <2>3. Begin(p, {c}, <<Only(c, row)>>, "project") BY <1>2
    <2>4. Readable({c}) BY <2>1 DEF Readable
    <2>5. DOMAIN row = DOMAIN db[c] /\ \A f \in Fixed \cap DOMAIN row : row[f] = db[c][f]
      BY DEF Fixed
    <2> HIDE DEF row
    <2>6. OldOK(c, row) BY <2>1, <2>2, <2>5 DEF OldOK, Right
    <2>7. Proper(Only(c, row), {c}) BY <2>1, <2>6, UpdateFits
    <2> QED BY <1>1, <2>1, <2>2, <2>3, <2>4, <2>7
  <1>3. ASSUME NEW projection \in Refreshed, Free("cursor") # {},
               Begin(p, {New("cursor")}, <<Only(New("cursor"), ProjectionCursor(projection))>>,
                     "project")
        PROVE  BackOfficeInv'
    <2> DEFINE c == New("cursor")
               row == ProjectionCursor(projection)
    <2>1. c \in DOMAIN db /\ db[c].table = "cursor" /\ db[c].status = "absent" BY <1>3, NewRow
    <2>2. /\ Rowed(row) /\ row.table = "cursor" /\ row.status = "running" /\ row.key = projection
          /\ {"key", "rowsProjected", "seen"} \subseteq DOMAIN row
      BY DEF ProjectionCursor, Rowed
    <2>3. Readable({c}) BY <1>3, NewReadable
    <2>4. Begin(p, {c}, <<Only(c, row)>>, "project") BY <1>3
    <2> HIDE DEF c, row
    <2>5. row.key # None BY <2>2, BackOfficeAssumption
    <2>6. NewOK("cursor", row) BY <2>2, <2>5 DEF NewOK, Right, Columns, Numbered
    <2>7. Proper(Only(c, row), {c}) BY <2>1, <2>6, InsertFits
    <2> QED BY <1>1, <2>1, <2>2, <2>3, <2>4, <2>7
  <1>4. \/ \E c \in Rows("cursor") :
              Begin(p, {c}, <<Only(c, [db[c] EXCEPT !.status = "running", !.lastError = None])>>,
                    "project")
        \/ \E projection \in Refreshed :
              /\ Free("cursor") # {}
              /\ Begin(p, {New("cursor")}, <<Only(New("cursor"), ProjectionCursor(projection))>>,
                       "project")
    BY DEF StartRun
  <1> QED BY <1>2, <1>3, <1>4

\* The result of a projection is kept under ids that nobody has yet.
LEMMA ProjectInv ==
    ASSUME BackOfficeInv, NEW p \in Workers, Project(p)
    PROVE  BackOfficeInv'
  <1>1. PICK ids, rows :
            /\ ids \subseteq Free("read_model") /\ DOMAIN rows = ids
            /\ \A d \in ids : /\ Rowed(rows[d]) /\ rows[d].table = "read_model"
                            /\ rows[d].status # "absent" /\ "projection" \in DOMAIN rows[d]
                            /\ rows[d].projection = req[p].base[CursorOf(p)].key
            /\ req' = [req EXCEPT ![p] = At(And(rows, req[p].base), <<>>, "refresh")]
    <2> DEFINE projection == req[p].base[CursorOf(p)].key
               found == SetToSeq(Registry[projection])
               ids   == NewIds("read_model", Len(found))
               fresh == [d \in ids |-> CHOOSE n \in DOMAIN found : SetToSeq(ids)[n] = d]
               rows  == [d \in ids |-> ReadModelRow(projection, found[fresh[d]])]
    <2>1. /\ Spare("read_model", Len(found))
          /\ req' = [req EXCEPT ![p] = At(And(rows, req[p].base), <<>>, "refresh")]
      BY DEF Project
    <2>2. ids \subseteq Free("read_model") BY <2>1, SpareIds
    <2>3. DOMAIN rows = ids /\ \A d \in ids : rows[d] = ReadModelRow(projection, found[fresh[d]])
      OBVIOUS
    <2>4. \A d \in ids : /\ Rowed(rows[d]) /\ rows[d].table = "read_model"
                        /\ rows[d].status # "absent" /\ "projection" \in DOMAIN rows[d]
                        /\ rows[d].projection = projection
      <3> HIDE DEF projection, found, ids, fresh, rows
      <3> QED BY <2>3 DEF ReadModelRow, Rowed
    <2> HIDE DEF projection, found, ids, fresh, rows
    <2> QED BY <2>1, <2>2, <2>3, <2>4 DEF projection
  <1> DEFINE b == And(rows, req[p].base)
             txs == <<>>
             r == At(b, txs, "refresh")
  <1>2. /\ db' = db /\ contended' = contended /\ calls' = calls /\ now' = now
        /\ cut' = cut /\ req[p].pc = "project"
    BY DEF Project
  <1>3. /\ Held({}, Lasting) /\ RequestFits(db, contended, req[p], {}, Lasting)
        /\ PendingOK(db, contended, req[p]) /\ calls \in 0 .. MaxCalls
    BY DEF BackOfficeInv, Held
  <1>4. /\ DOMAIN b = ids \cup DOMAIN req[p].base
        /\ \A d \in DOMAIN b : b[d] = IF d \in ids THEN rows[d] ELSE req[p].base[d]
    BY <1>1 DEF And
  <1>5. \A d \in ids : /\ d \in DOMAIN db /\ db[d].table = "read_model" /\ db[d].status = "absent"
                       /\ \A q \in Workers : d \notin DOMAIN req[q].base
    BY <1>1 DEF Free, IdsOf, Present
  <1>6. txs \in Seq({}) /\ Len(txs) = 0 OBVIOUS
  <1>7. req' = [req EXCEPT ![p] = r] BY <1>1
  <1> HIDE DEF b, txs
  <1>8. /\ RequestFits(db, contended, r, {}, Lasting)
        /\ DOMAIN r.base \subseteq DOMAIN b
    <2>1. DOMAIN b \subseteq DOMAIN db BY <1>3, <1>4, <1>5 DEF RequestFits
    <2>2. \A d \in DOMAIN b \ contended : AsRead(db, d, {}, Lasting) => b[d] = db[d]
      BY <1>3, <1>4, <1>5, OtherTables DEF RequestFits, AsRead
    <2>3. \A i \in 1 .. Len(txs) : UnitFits(db, txs[i], DOMAIN b, {}, Lasting) BY <1>6
    <2>4. "refresh" \notin {"reload", "write"} OBVIOUS
    <2>5. PICK S : txs \in Seq(S) BY <1>6
    <2> QED BY <2>1, <2>2, <2>3, <2>4, <2>5, AtFits
  <1>9. PendingOK(db, contended, r)
    <2>1. \A i \in 1 .. Len(txs) : UnitOK(db, contended, txs[i]) BY <1>6
    <2>2. \A i, j \in 1 .. Len(txs) : i # j => DOMAIN txs[i] \cap DOMAIN txs[j] = {} BY <1>6
    <2>3. \A d \in DOMAIN b : ReadOK(db, d, b[d])
      BY <1>1, <1>3, <1>4, <1>5, OtherTables DEF PendingOK, ReadOK
    <2>4. \E d \in DOMAIN b : db[d].table = "cursor" BY <1>2, <1>4, HasCursor
    <2>5. GoesOnWith(db, b, txs, "refresh") BY <2>4 DEF GoesOnWith
    <2>6. (\A i \in 1 .. Len(txs) : Belongs(db, txs[i], DOMAIN b)) /\ Reports(db, contended, txs)
      BY <1>6 DEF Reports
    <2> QED BY <1>6, <2>1, <2>2, <2>3, <2>5, <2>6, AtPending
  <1>12. \A a \in DOMAIN req[p].base : db[a].table = "bank_account" => a \in contended \cup cut
    BY <1>2 DEF BackOfficeInv, ImportInv, Importing
  <1>13. Banking(db, contended \cup cut, DOMAIN b, txs, "refresh")
    BY <1>4, <1>5, <1>12, OtherTables DEF Banking
  <1>14. Importing(db, contended \cup cut, r) BY <1>13, BankedAt
  <1>15. r.pc = "refresh" /\ r.then = "refresh" /\ r.todo = txs /\ r.base = b
    BY <1>6, AtSomewhere
  <1> HIDE DEF r
  <1>16. Runs(p, r)
    <2> DEFINE c == CursorOf(p)
    <2>1. /\ c \in DOMAIN req[p].base /\ db[c].table = "cursor" /\ IsRun(db, contended, req[p], c)
          /\ req[p].base[c].key = db[c].key
      BY <1>2, HasCursor
    <2>2. \A d \in ids : rows[d].projection = db[c].key BY <1>1, <2>1
    <2> HIDE DEF c
    <2>3. Projects(db, contended, req[p], c)
      BY <1>2, <2>1 DEF IsRun, Starts, Refreshes, Finishes
    <2>4. DOMAIN b = ids \cup {c} /\ c \notin ids /\ b[c] = req[p].base[c]
      BY <1>4, <1>5, <2>1, <2>3 DEF Projects
    <2>5. txs = <<>> BY <1>6
    <2>6. Refreshes(db, contended, r, c)
      BY <1>1, <1>4, <1>5, <1>15, <2>2, <2>3, <2>4, <2>5 DEF Refreshes, Projects, Underway
    <2>7. IsRun(db, contended, r, c) BY <1>5, <1>15, <2>1, <2>4, <2>6 DEF IsRun
    <2>8. Running(db, contended', r) BY <1>2, <1>15, <2>4, <2>7 DEF Running
    <2>9. Brings(db, r) \subseteq Free("read_model")
      BY <1>1, <1>15, <2>1, <2>4 DEF Brings
    <2> QED BY <1>2, <1>4, <1>5, <1>15, <2>8, <2>9, RunsFurther
  <1>10. \A q \in Workers \ {p} : Apart(db, contended, r, req[q], {})
    <2> TAKE q \in Workers \ {p}
    <2>1. Apart(db, contended, req[p], req[q], {}) BY <1>3 DEF Held
    <2> QED BY <1>4, <1>5, <1>8, <2>1 DEF Apart
  <1>11. Held({}, Lasting)'
    <2>1. \A d \in DOMAIN db : db[d].status = "absent" /\ db[d].table \in Lasting => d \notin contended'
      BY <1>2, <1>3 DEF Held
    <2>2. contended \subseteq contended' /\ RequestFits(db, contended', r, {}, Lasting)
      BY <1>2, <1>8
    <2>3. \A q \in Workers \ {p} : Apart(db, contended', r, req[q], {}) BY <1>2, <1>10
    <2> QED BY <1>2, <1>3, <1>7, <2>1, <2>2, <2>3, OneRequestHeld
  <1> QED BY <1>2, <1>3, <1>7, <1>9, <1>11, <1>12, <1>14, <1>16, OnePending

LEMMA ProjectFailedInv ==
    ASSUME BackOfficeInv, NEW p \in Workers, ProjectFailed(p)
    PROVE  BackOfficeInv'
  <1> DEFINE c == CursorOf(p)
             E == DOMAIN req[p].base
             row == [req[p].base[c] EXCEPT !.status = "failed", !.lastError = "thrown"]
             u == Only(c, row)
             txs == <<u>>
             D == {}
             b == And([d \in D |-> db[d]], req[p].base)
             r == At(b, txs, "idle")
  <1>1. GoOn(p, "project", D, txs, "idle") /\ req[p].pc = "project" BY DEF ProjectFailed
  <1>2. /\ c \in E /\ c \in DOMAIN db /\ db[c].table = "cursor"
        /\ Rowed(req[p].base[c]) /\ req[p].base[c].table = "cursor"
        /\ IsRun(db, contended, req[p], c) /\ Present(c) /\ DOMAIN req[p].base[c] = DOMAIN db[c]
        /\ \A f \in Fixed \cap DOMAIN req[p].base[c] : req[p].base[c][f] = db[c][f]
    BY <1>1, HasCursor
  <1> HIDE DEF c
  <1>3. Rowed(row) /\ row.table = "cursor" /\ row.status = "failed" BY <1>2 DEF Rowed
  <1>4. DOMAIN row = DOMAIN db[c] /\ \A f \in Fixed \cap DOMAIN row : row[f] = db[c][f]
    BY <1>2 DEF Fixed
  <1>5. DOMAIN u = {c} /\ u[c] = row BY DEF Only
  <1> HIDE DEF row
  <1>6. OldOK(c, row) BY <1>2, <1>3, <1>4 DEF OldOK, Right
  <1>7. Sane(txs, E) BY <1>2, <1>6, UpdateFits, OneUnit
  <1> HIDE DEF u
  <1>8. Len(txs) = 1 /\ txs[1] = u /\ txs # <<>> OBVIOUS
  <1>9. DOMAIN b = E BY DEF And
  <1>10. Readable(D) /\ D \cup DOMAIN req[p].base = E BY DEF Readable
  <1> HIDE DEF txs, b
  <1>11. /\ r.pc = "reload" /\ r.then = "idle" /\ r.todo = txs /\ DOMAIN r.base = E
    BY <1>8, <1>9, AtSomewhere
  <1> HIDE DEF r
  <1>12. contended \subseteq contended' BY <1>1 DEF GoOn
  <1>13. DOMAIN req[p].base = {c}
    BY <1>1, <1>2 DEF IsRun, Starts, Projects, Refreshes, Finishes
  <1>14. Finishes(db, contended', r, c)
    <2>1. Len(r.todo) = 1 /\ r.todo[Len(r.todo)] = u BY <1>8, <1>11
    <2>2. DOMAIN u = {c} /\ u[c].status # "idle" BY <1>3, <1>5
    <2>3. db[c].status # "absent" BY <1>2 DEF Present
    <2> QED BY <1>11, <2>1, <2>2, <2>3 DEF Finishes
  <1>15. Running(db, contended', r) BY <1>2, <1>11, <1>13, <1>14 DEF Running, IsRun
  <1>16. Brings(db, r) = {} BY <1>8, <1>11 DEF Brings
  <1>17. Runs(p, r) BY <1>10, <1>11, <1>12, <1>15, <1>16, RunsFurther
  <1>18. GoesOnWith(db, And([d \in D |-> db[d]], req[p].base), txs, "idle") BY DEF GoesOnWith
  <1>19. \A a \in D : db[a].table # "bank_account" OBVIOUS
  <1> HIDE DEF D
  <1>20. Sane(txs, D \cup DOMAIN req[p].base) BY <1>7, <1>10
  <1> QED BY <1>1, <1>10, <1>17, <1>18, <1>19, <1>20, GoOnInv DEF r, b

\* What there is of a read model, and who else has it in hand.
LEMMA ModelShared ==
    ASSUME BackOfficeInv, NEW p \in Workers, req[p].pc \in {"project", "refresh"},
           NEW d \in ModelIn(db, db[CursorOf(p)].key), NEW q \in Workers \ {p},
           d \in DOMAIN req[q].base
    PROVE  /\ d \notin Brings(db, req[q])
           /\ \A c \in DOMAIN req[p].base \cup DOMAIN req[q].base :
                  db[c].table = "cursor" => c \in contended
  <1> DEFINE c == CursorOf(p)
  <1>1. /\ c \in DOMAIN req[p].base /\ c \in DOMAIN db /\ db[c].table = "cursor" /\ Present(c)
        /\ \A x \in DOMAIN req[p].base : db[x].table = "cursor" => x = c
    BY HasCursor
  <1>2. d \in DOMAIN db /\ db[d].table = "read_model" /\ db[d].status # "absent"
        /\ db[d].projection = db[c].key
    BY DEF ModelIn, Stored
  <1> HIDE DEF c
  <1>3. PICK x \in DOMAIN req[q].base : IsRun(db, contended, req[q], x)
    BY <1>2 DEF BackOfficeInv, ModelInv, Running, Models
  <1>4. d # x /\ db[x].table = "cursor" BY <1>2, <1>3 DEF IsRun
  <1>5. db[x].status # "absent" /\ db[x].key = db[c].key BY <1>2, <1>3, <1>4 DEF IsRun
  <1>6. x \in DOMAIN db BY DEF BackOfficeInv, Held, RequestFits
  <1>7. x = c
    BY <1>1, <1>4, <1>5, <1>6 DEF BackOfficeInv, ModelInv, ModelsOK, Stored, Present
  <1>8. c \in contended
    BY <1>1, <1>3, <1>7 DEF BackOfficeInv, ModelInv, Alone
  <1>9. \A y \in DOMAIN req[q].base : db[y].table = "cursor" => y = c BY <1>3, <1>7 DEF IsRun
  <1>10. d \notin Brings(db, req[q]) BY <1>2, BroughtAbsent
  <1> QED BY <1>1, <1>8, <1>9, <1>10

LEMMA RefreshInv ==
    ASSUME BackOfficeInv, NEW p \in Workers, Refresh(p)
    PROVE  BackOfficeInv'
  <1> DEFINE c      == CursorOf(p)
             cursor == req[p].base[c]
             fresh  == {d \in DOMAIN req[p].base : req[p].base[d].table = "read_model"}
             rows   == [d \in fresh |-> req[p].base[d]]
             old    == ModelOf(cursor.key)
             swap   == And(rows, [d \in old |-> Absent("read_model")])
             seen   == {rows[d] : d \in fresh}
             row    == [cursor EXCEPT !.status = "idle", !.lastProcessedAt = now,
                                 !.rowsProjected = Cardinality(fresh),
                                 !.seen = seen]
             done   == Only(c, row)
             txs    == IF fresh = {} THEN <<done>> ELSE <<swap, done>>
             E      == old \cup DOMAIN req[p].base
             b      == And([d \in old |-> db[d]], req[p].base)
             r      == At(b, txs, "idle")
  <1>1. GoOn(p, "refresh", old, txs, "idle") /\ req[p].pc = "refresh" BY DEF Refresh
  <1>2. /\ c \in DOMAIN req[p].base /\ c \in DOMAIN db /\ db[c].table = "cursor"
        /\ Rowed(cursor) /\ cursor.table = "cursor"
        /\ IsRun(db, contended, req[p], c) /\ Present(c)
        /\ DOMAIN cursor = DOMAIN db[c] /\ Columns("cursor") \subseteq DOMAIN db[c]
        /\ \A f \in Fixed \cap DOMAIN cursor : cursor[f] = db[c][f]
        /\ cursor.key = db[c].key
        /\ \A x \in DOMAIN req[p].base : db[x].table = "cursor" => x = c
    BY <1>1, HasCursor
  <1>3. \A d \in old : d \in DOMAIN db /\ db[d].table = "read_model" /\ Present(d)
    BY DEF ModelOf, Rows, IdsOf
  <1>4. \A d \in fresh : /\ d \in DOMAIN db /\ db[d].table = "read_model"
                         /\ Rowed(req[p].base[d]) /\ req[p].base[d].table = "read_model"
    BY DEF BackOfficeInv, PendingOK, ReadOK, Held, RequestFits
  <1>20. old = ModelIn(db, db[c].key)
    BY <1>2 DEF ModelOf, ModelIn, Rows, IdsOf, Present, Stored
  <1>5. /\ Rowed(row) /\ row.table = "cursor" /\ row.status = "idle" /\ DOMAIN row = DOMAIN db[c]
        /\ row.seen = seen /\ (fresh = {} => row.rowsProjected = 0)
        /\ \A f \in Fixed \cap DOMAIN row : row[f] = db[c][f]
    <2>1. Cardinality({}) = 0 BY FS_EmptySet
    <2> HIDE DEF cursor, fresh, rows, seen
    <2> QED BY <1>2, <2>1 DEF Rowed, Fixed, Columns
  <1>6. DOMAIN done = {c} /\ done[c] = row BY DEF Only
  <1>21. DOMAIN rows = fresh /\ \A d \in fresh : rows[d] = req[p].base[d] OBVIOUS
  <1>22. /\ DOMAIN swap = fresh \cup old
         /\ \A d \in fresh : swap[d] = rows[d]
         /\ \A d \in old \ fresh : swap[d] = Absent("read_model")
    <2> HIDE DEF rows, old, fresh
    <2> QED BY <1>21 DEF And
  <1>7. \A d \in DOMAIN swap : Rowed(swap[d]) /\ swap[d].table = "read_model"
    <2> HIDE DEF rows, old, fresh, swap
    <2> QED BY <1>4, <1>21, <1>22 DEF Absent, Rowed
  <1>23. seen = {rows[d] : d \in fresh} OBVIOUS
  <1>24. DOMAIN b = E BY DEF And
  <1>8. fresh \subseteq DOMAIN req[p].base OBVIOUS
  <1>25. \A d \in DOMAIN req[p].base \ {c} : d \in fresh
    <2>1. \A d \in DOMAIN req[p].base : req[p].base[d].table = db[d].table
      BY DEF BackOfficeInv, PendingOK, ReadOK
    <2>2. \A d \in DOMAIN req[p].base \ {c} : db[d].table = "read_model" BY <1>2 DEF IsRun
    <2> QED BY <2>1, <2>2
  <1>16. \A d \in old : db[d].table # "bank_account" BY <1>3
  <1>9. Readable(old) BY <1>3 DEF Readable
  <1> HIDE DEF row, done, swap, rows, seen, fresh, old, cursor, c
  <1>26. Refreshes(db, contended, req[p], c)
    BY <1>1, <1>2 DEF IsRun, Starts, Projects, Finishes
  <1>27. \A d \in fresh : /\ db[d].status = "absent" /\ rows[d].status # "absent"
                          /\ "projection" \in DOMAIN rows[d] /\ rows[d].projection = db[c].key
    BY <1>2, <1>4, <1>8, <1>21, <1>26 DEF Refreshes
  <1>10. Proper(done, E)
    <2>1. OldOK(c, row) BY <1>2, <1>5 DEF OldOK, Right
    <2> QED BY <1>2, <2>1, UpdateFits DEF done
  <1>11. Proper(swap, E)
    BY <1>3, <1>4, <1>7, <1>8, <1>22, OtherTables, OtherUnit
  <1>12. DOMAIN swap \cap DOMAIN done = {} BY <1>2, <1>3, <1>4, <1>6, <1>22
  <1> HIDE DEF E
  <1>13. Sane(txs, E) /\ txs # <<>>
         /\ IF fresh = {} THEN Len(txs) = 1 /\ txs[1] = done
            ELSE Len(txs) = 2 /\ txs[1] = swap /\ txs[2] = done
    <2>1. CASE fresh = {}
      <3>1. Sane(<<done>>, E) BY <1>10, OneUnit
      <3> QED BY <2>1, <3>1
    <2>2. CASE fresh # {}
      <3>1. /\ <<swap, done>> \in Seq({swap, done}) /\ Len(<<swap, done>>) = 2
            /\ <<swap, done>>[1] = swap /\ <<swap, done>>[2] = done
            /\ <<swap, done>> # <<>>
        OBVIOUS
      <3> DEFINE s == <<swap, done>>
      <3>2. /\ \E S : s \in Seq(S)
            /\ Len(s) = 2 /\ s[1] = swap /\ s[2] = done /\ s # <<>>
        BY <3>1
      <3>3. txs = s BY <2>2
      <3> HIDE DEF s
      <3>4. \A i \in 1 .. 2 : Proper(s[i], E)
        BY <1>10, <1>11, <3>2
      <3>5. Sane(s, E) BY <1>12, <3>2, <3>4, TwoUnitsSane
      <3> HIDE DEF txs
      <3> QED BY <2>2, <3>2, <3>3, <3>5
    <2> QED BY <2>1, <2>2
  <1> HIDE DEF txs, b
  <1>14. Sane(txs, old \cup DOMAIN req[p].base) BY <1>13 DEF E
  <1>15. GoesOnWith(db, And([d \in old |-> db[d]], req[p].base), txs, "idle") BY DEF GoesOnWith
  <1>28. r.pc = "reload" /\ r.then = "idle" /\ r.todo = txs /\ DOMAIN r.base = E
    BY <1>13, <1>24, AtSomewhere
  <1> HIDE DEF r
  <1>29. contended \subseteq contended' BY <1>1 DEF GoOn
  <1>30. Brought(swap) = fresh BY <1>22, <1>27 DEF Brought, Absent
  <1>31. Swaps(db, contended', swap, c, seen)
    <2>1. fresh \cap old = {} BY <1>3, <1>27 DEF Present
    <2>2. \A d \in DOMAIN swap : db[d].table = "read_model" BY <1>3, <1>4, <1>22
    <2>3. \A d \in Brought(swap) :
              /\ db[d].status = "absent" /\ "projection" \in DOMAIN swap[d]
              /\ swap[d].projection = db[c].key
      BY <1>22, <1>27, <1>30
    <2>4. \A d \in DOMAIN swap \ Brought(swap) : swap[d] = Absent("read_model")
      BY <1>22, <1>30
    <2>5. ModelIn(db, db[c].key) \subseteq DOMAIN swap \ Brought(swap)
      BY <1>20, <1>22, <1>30, <2>1
    <2>6. seen = {swap[d] : d \in Brought(swap)} BY <1>22, <1>23, <1>30
    <2> QED BY <2>2, <2>3, <2>4, <2>5, <2>6 DEF Swaps
  <1>32. Finishes(db, contended', r, c)
    <2>1. c \notin contended' => db[c].status = "running"
      BY <1>26, <1>29 DEF Refreshes, Underway
    <2>2. CASE fresh = {}
      BY <1>2, <1>5, <1>6, <1>13, <1>28, <2>2 DEF Finishes, Present
    <2>3. CASE fresh # {}
      BY <1>2, <1>5, <1>6, <1>13, <1>28, <1>31, <2>1, <2>3 DEF Finishes, Present
    <2> QED BY <2>2, <2>3
  <1>33. \A d \in E \ {c} : /\ db[d].table = "read_model"
                            /\ db[d].status # "absent" => db[d].projection = db[c].key
    BY <1>3, <1>4, <1>20, <1>25, <1>27 DEF E, ModelIn
  <1>34. Running(db, contended', r)
    <2>1. c \in E BY <1>2 DEF E
    <2> QED BY <1>2, <1>28, <1>32, <1>33, <2>1 DEF Running, IsRun, Present
  <1>35. Brings(db, r) \subseteq Brings(db, req[p])
    <2>1. CASE fresh = {} BY <1>13, <1>28, <2>1 DEF Brings
    <2>2. CASE fresh # {} BY <1>1, <1>4, <1>8, <1>13, <1>28, <1>30, <2>2 DEF Brings
    <2> QED BY <2>1, <2>2
  <1>36. \A q \in Workers \ {p} : \A d \in old \cap DOMAIN req[q].base :
            /\ d \notin Brings(db, req[q])
            /\ \A x \in DOMAIN req[p].base \cup DOMAIN req[q].base :
                   db[x].table = "cursor" => x \in contended
    BY <1>1, <1>20, ModelShared DEF c
  <1>37. Runs(p, r) BY <1>3, <1>28, <1>29, <1>34, <1>35, <1>36, RunsFurther DEF E
  <1> QED BY <1>1, <1>9, <1>14, <1>15, <1>16, <1>37, GoOnInv DEF r, b

LEMMA ReportsInv ==
    ASSUME BackOfficeInv, NEW p \in Workers,
           \/ CreateReport(p) \/ UpdateReport(p) \/ DeleteReport(p)
           \/ CreateSchedule(p) \/ PauseSchedule(p) \/ ResumeSchedule(p)
    PROVE  BackOfficeInv'
  <1>0. "report" \notin Lasting /\ "schedule" \notin Lasting BY OtherTables
  <1>1. ASSUME NEW t \in {"report", "schedule"}, NEW d \in Rows(t), NEW row, DOMAIN row = DOMAIN db[d],
               row.table = db[d].table, Handle(p, {d}, <<Only(d, row)>>)
        PROVE  BackOfficeInv'
    <2>1. Rowed(row) /\ row.table = t BY <1>1, RowHas DEF Rowed
    <2> QED BY <1>0, <1>1, <2>1, UpdatesOther DEF Models
  <1>2. ASSUME CreateReport(p) PROVE BackOfficeInv'
    <2>1. PICK name :
              /\ Free("report") # {}
              /\ Handle(p, {New("report")}, <<Only(New("report"), ReportDefinition(name))>>)
      BY <1>2 DEF CreateReport
    <2> DEFINE row == ReportDefinition(name)
    <2>2. Rowed(row) /\ row.table = "report" /\ row.status # "absent" BY DEF ReportDefinition, Rowed
    <2>3. Handle(p, {New("report")}, <<Only(New("report"), row)>>) BY <2>1
    <2> HIDE DEF row
    <2> QED BY <1>0, <2>1, <2>2, <2>3, InsertsOther DEF Models
  <1>3. ASSUME CreateSchedule(p) PROVE BackOfficeInv'
    <2>1. PICK r :
              /\ Free("schedule") # {}
              /\ Handle(p, {New("schedule")}, <<Only(New("schedule"), ReportSchedule(r, now + 1))>>)
      BY <1>3 DEF CreateSchedule
    <2> DEFINE row == ReportSchedule(r, now + 1)
    <2>2. Rowed(row) /\ row.table = "schedule" /\ row.status # "absent" BY DEF ReportSchedule, Rowed
    <2>3. Handle(p, {New("schedule")}, <<Only(New("schedule"), row)>>) BY <2>1
    <2> HIDE DEF row
    <2> QED BY <1>0, <2>1, <2>2, <2>3, InsertsOther DEF Models
  <1>4. \A t \in {"report", "schedule"} : \A d \in Rows(t) : Rowed(db[d]) /\ d \in DOMAIN db BY RowHas
  <1>5. ASSUME UpdateReport(p) PROVE BackOfficeInv'
    <2>1. PICK r \in Rows("report") : Handle(p, {r}, <<Only(r, [db[r] EXCEPT !.body = 1])>>)
      BY <1>5 DEF UpdateReport
    <2> DEFINE row == [db[r] EXCEPT !.body = 1]
    <2>2. DOMAIN row = DOMAIN db[r] /\ row.table = db[r].table BY <1>4 DEF Rowed
    <2>3. Handle(p, {r}, <<Only(r, row)>>) BY <2>1
    <2> HIDE DEF row
    <2> QED BY <1>1, <2>2, <2>3
  <1>6. ASSUME DeleteReport(p) PROVE BackOfficeInv'
    <2>1. PICK r \in Rows("report") : Handle(p, {r}, <<Only(r, [db[r] EXCEPT !.status = "inactive"])>>)
      BY <1>6 DEF DeleteReport
    <2> DEFINE row == [db[r] EXCEPT !.status = "inactive"]
    <2>2. DOMAIN row = DOMAIN db[r] /\ row.table = db[r].table BY <1>4 DEF Rowed
    <2>3. Handle(p, {r}, <<Only(r, row)>>) BY <2>1
    <2> HIDE DEF row
    <2> QED BY <1>1, <2>2, <2>3
  <1>7. ASSUME PauseSchedule(p) PROVE BackOfficeInv'
    <2>1. PICK s \in Rows("schedule") : Handle(p, {s}, <<Only(s, [db[s] EXCEPT !.status = "paused"])>>)
      BY <1>7 DEF PauseSchedule
    <2> DEFINE row == [db[s] EXCEPT !.status = "paused"]
    <2>2. DOMAIN row = DOMAIN db[s] /\ row.table = db[s].table BY <1>4 DEF Rowed
    <2>3. Handle(p, {s}, <<Only(s, row)>>) BY <2>1
    <2> HIDE DEF row
    <2> QED BY <1>1, <2>2, <2>3
  <1>8. ASSUME ResumeSchedule(p) PROVE BackOfficeInv'
    <2>1. PICK s \in Rows("schedule") :
              Handle(p, {s}, <<Only(s, [db[s] EXCEPT !.status = "active", !.nextRunAt = now + 1])>>)
      BY <1>8 DEF ResumeSchedule
    <2> DEFINE row == [db[s] EXCEPT !.status = "active", !.nextRunAt = now + 1]
    <2>2. DOMAIN row = DOMAIN db[s] /\ row.table = db[s].table BY <1>4 DEF Rowed
    <2>3. Handle(p, {s}, <<Only(s, row)>>) BY <2>1
    <2> HIDE DEF row
    <2> QED BY <1>1, <2>2, <2>3
  <1> QED BY <1>2, <1>3, <1>5, <1>6, <1>7, <1>8

LEMMA ReportingInv ==
    ASSUME BackOfficeInv, NEW p \in Workers, ReportingStep(p)
    PROVE  BackOfficeInv'
  BY StartRunInv, ProjectInv, ProjectFailedInv, RefreshInv, ReportsInv DEF ReportingStep
-----------------------------------------------------------------------------
LEMMA SetPrimaryInv ==
    ASSUME BackOfficeInv, NEW p \in Workers, SetPrimary(p)
    PROVE  BackOfficeInv'
  <1>1. PICK target \in Rows("company") :
            LET changed == {c \in Rows("company") : db[c].isPrimary # (c = target)}
            IN  \E inOrder \in Bijection(1 .. Cardinality(changed), changed) :
                    /\ \A m, n \in DOMAIN inOrder : m < n => db[inOrder[m]].key < db[inOrder[n]].key
                    /\ Handle(p, Rows("company"),
                              [n \in DOMAIN inOrder |->
                                  Only(inOrder[n], [db[inOrder[n]] EXCEPT !.isPrimary = ~@])])
    BY DEF SetPrimary
  <1> DEFINE changed == {c \in Rows("company") : db[c].isPrimary # (c = target)}
             k == Cardinality(changed)
  <1>2. PICK ids \in Bijection(1 .. k, changed) :
            Handle(p, Rows("company"),
                      [n \in DOMAIN ids |-> Only(ids[n], [db[ids[n]] EXCEPT !.isPrimary = ~@])])
    BY <1>1
  <1> DEFINE rows == [n \in 1 .. k |-> [db[ids[n]] EXCEPT !.isPrimary = ~@]]
             D == Rows("company")
  <1>3. \A c \in D : c \in DOMAIN db /\ Present(c) /\ Rowed(db[c]) /\ db[c].table = "company"
    BY RowHas
  <1>4. k \in Nat
    <2>1. changed \in SUBSET DOMAIN db BY <1>3
    <2>2. IsFiniteSet(changed) BY <2>1, FS_Subset DEF BackOfficeInv, Sound
    <2> HIDE DEF changed
    <2> QED BY <2>2, FS_CardinalityType
  <1>5. ids \in [1 .. k -> D] /\ \A i, j \in 1 .. k : i # j => ids[i] # ids[j]
    BY DEF Bijection, Injection, IsInjective
  <1>6. \A i \in 1 .. k : OldOK(ids[i], rows[i])
    <2> TAKE i \in 1 .. k
    <2>1. ids[i] \in D BY <1>5
    <2>2. DOMAIN rows[i] = DOMAIN db[ids[i]] /\ rows[i].table = db[ids[i]].table
      BY <1>3, <2>1 DEF Rowed
    <2> HIDE DEF rows, D, k
    <2> QED BY <1>3, <2>1, <2>2, OtherTables DEF OldOK, Rowed
  <1>7. Handle(p, D, [n \in 1 .. k |-> Only(ids[n], rows[n])])
    <2>1. DOMAIN ids = 1 .. k BY <1>5
    <2>2. \A n \in 1 .. k : rows[n] = [db[ids[n]] EXCEPT !.isPrimary = ~@] OBVIOUS
    <2>3. [n \in 1 .. k |-> Only(ids[n], rows[n])] =
          [n \in DOMAIN ids |-> Only(ids[n], [db[ids[n]] EXCEPT !.isPrimary = ~@])]
      BY <2>1, <2>2
    <2> QED BY <1>2, <2>3
  <1>8. /\ D \in SUBSET DOMAIN db
        /\ \A d \in D : /\ Present(d)
                        /\ db[d].table \notin {"production_order", "work_order"} \cup Watched
    BY <1>3 DEF Watched, Models
  <1> HIDE DEF rows, D, k
  <1> QED BY <1>4, <1>5, <1>6, <1>7, <1>8, UpdatesEach

LEMMA CompanyInv ==
    ASSUME BackOfficeInv, NEW p \in Workers, CompanyStep(p)
    PROVE  BackOfficeInv'
  <1>0. "company" \notin Lasting /\ "installation" \notin Lasting BY OtherTables
  <1>1. ASSUME CreateCompany(p) PROVE BackOfficeInv'
    <2>1. PICK code, vat :
              /\ Free("company") # {}
              /\ Handle(p, {New("company")}, <<Only(New("company"), Company(code, vat))>>)
      BY <1>1 DEF CreateCompany
    <2> DEFINE row == Company(code, vat)
    <2>2. Rowed(row) /\ row.table = "company" /\ row.status # "absent" BY DEF Company, Rowed
    <2>3. Handle(p, {New("company")}, <<Only(New("company"), row)>>) BY <2>1
    <2> HIDE DEF row
    <2> QED BY <1>0, <2>1, <2>2, <2>3, InsertsOther DEF Models
  <1>2. ASSUME Install(p) PROVE BackOfficeInv'
    <2>1. PICK package :
              /\ Free("installation") # {}
              /\ Handle(p, {New("installation")}, <<Only(New("installation"), Installation(package))>>)
      BY <1>2 DEF Install
    <2> DEFINE row == Installation(package)
    <2>2. Rowed(row) /\ row.table = "installation" /\ row.status # "absent" BY DEF Installation, Rowed
    <2>3. Handle(p, {New("installation")}, <<Only(New("installation"), row)>>) BY <2>1
    <2> HIDE DEF row
    <2> QED BY <1>0, <2>1, <2>2, <2>3, InsertsOther DEF Models
  <1>3. ASSUME CancelInstallation(p) PROVE BackOfficeInv'
    <2>1. PICK i \in Rows("installation") :
              Handle(p, {i}, <<Only(i, [db[i] EXCEPT !.status = "cancelled", !.cancelledAt = now])>>)
      BY <1>3 DEF CancelInstallation
    <2> DEFINE row == [db[i] EXCEPT !.status = "cancelled", !.cancelledAt = now]
    <2>2. Rowed(db[i]) /\ db[i].table = "installation" BY RowHas
    <2>3. Rowed(row) /\ row.table = "installation" BY <2>2 DEF Rowed
    <2>4. Handle(p, {i}, <<Only(i, row)>>) BY <2>1
    <2> HIDE DEF row
    <2> QED BY <1>0, <2>3, <2>4, UpdatesOther DEF Models
  <1> QED BY <1>1, <1>2, <1>3, SetPrimaryInv DEF CompanyStep
-----------------------------------------------------------------------------
(* The theorems.                                                           *)

LEMMA BackOfficeInit == Start => BackOfficeInv
  <1> SUFFICES ASSUME Start PROVE BackOfficeInv
    OBVIOUS
  <1>1. Held({}, Lasting) BY StartHeld
  <1>2. Sound(db, contended) BY BackOfficeAssumption DEF Start
  <1>3. PendingOK(db, contended, Idle)
    <2>1. /\ Idle.pc = "idle" /\ Idle.then = "idle" /\ Idle.todo = <<>> /\ DOMAIN Idle.base = {}
      BY DEF Idle, Nothing
    <2>2. Len(<<>>) = 0 OBVIOUS
    <2> HIDE DEF Idle
    <2> QED BY <2>1, <2>2 DEF PendingOK, GoesOn, Reports
  <1>4. \A p \in Workers : PendingOK(db, contended, req[p]) BY <1>3 DEF Start
  <1>5. calls \in 0 .. MaxCalls /\ now \in Nat BY RequestsAssumption DEF Start
  <1>6. ImportInv
    <2>1. \A a \in Stored(db, "bank_account") : Imported(db, a)
      BY BackOfficeAssumption DEF Start
    <2>2. DOMAIN Idle.base = {} BY DEF Idle, Nothing
    <2>3. \A p \in Workers : req[p] = Idle BY DEF Start
    <2> HIDE DEF Idle
    <2> QED BY <2>1, <2>2, <2>3 DEF ImportInv, Importing, Banking
  <1>7. ModelInv
    <2>1. ModelsOK(db, contended) BY BackOfficeAssumption DEF Start
    <2>2. DOMAIN Idle.base = {} BY DEF Idle, Nothing
    <2>3. \A p \in Workers : req[p] = Idle BY DEF Start
    <2> HIDE DEF Idle
    <2> QED BY <2>1, <2>2, <2>3 DEF ModelInv, Running, Alone, Brings
  <1> QED BY <1>1, <1>2, <1>4, <1>5, <1>6, <1>7 DEF BackOfficeInv

LEMMA BackOfficeNext == BackOfficeInv /\ [Next]_vars => BackOfficeInv'
  <1> SUFFICES ASSUME BackOfficeInv, [Next]_vars PROVE BackOfficeInv'
    OBVIOUS
  <1>1. CASE UNCHANGED vars
    <2>1. /\ db' = db /\ req' = req /\ now' = now /\ contended' = contended /\ calls' = calls
          /\ cut' = cut
      BY <1>1 DEF vars
    <2>2. Held({}, Lasting)' BY <1>1, StillHeld DEF BackOfficeInv, vars
    <2>3. Sound(db', contended') BY <2>1 DEF BackOfficeInv
    <2>4. \A p \in Workers : PendingOK(db', contended', req'[p]) BY <2>1 DEF BackOfficeInv
    <2>5. ImportInv' BY <2>1 DEF BackOfficeInv, ImportInv, Settled
    <2>6. ModelInv' BY <2>1 DEF BackOfficeInv, ModelInv
    <2> QED BY <2>1, <2>2, <2>3, <2>4, <2>5, <2>6 DEF BackOfficeInv
  <1>2. ASSUME NEW p \in Workers,
               \/ SellingStep(p) \/ AccountingStep(p) \/ TreasuryStep(p) \/ PeopleStep(p)
               \/ IntrastatStep(p) \/ ShopfloorStep(p) \/ ReportingStep(p) \/ CompanyStep(p)
               \/ Statements(p)
        PROVE  BackOfficeInv'
    BY <1>2, SellingInv, AccountingInv, TreasuryInv, PeopleInv, IntrastatInv, ShopfloorInv,
       ReportingInv, CompanyInv, StatementsInv
  <1> QED BY <1>1, <1>2 DEF Next, Quiet

\* Whatever handlers overlap, are refused or are lost: rows, and what requests are
\* about to save, are as the handlers of all eight components leave them.
THEOREM BackOfficeAlways == Spec => []BackOfficeInv
  BY BackOfficeInit, BackOfficeNext, PTL DEF Spec

\* Documents, employees, production orders and operations are numbered 1, 2, 3 ...
\* with no gap and no number twice: `count + 1` is read before the insert, and
\* only the unique index stands between two requests that read the same count.
THEOREM EverythingNumbered == Spec => []NumberedOneByOne
  <1>1. BackOfficeInv => NumberedOneByOne
    BY SameRows DEF BackOfficeInv, Sound, InOrder, NumberedOneByOne, Count
  <1> QED BY <1>1, BackOfficeAlways, PTL

\* A quotation is converted exactly when it names an order, and that order is the
\* only one that came from it, as long as its own requests never overlap.
THEOREM ConversionsAgree == Spec => []ConvertedOnce
  <1>1. BackOfficeInv => ConvertedOnce
    <2> SUFFICES ASSUME BackOfficeInv, NEW q \in Rows("quotation") \ contended
                 PROVE  /\ db[q].status = "converted" <=> db[q].order # None
                        /\ {o \in Rows("sales_order") : db[o].quotation = q} = {db[q].order} \ {None}
      BY DEF ConvertedOnce
    <2>1. QuotationRight(db[q]) BY RowHas DEF Right
    <2>2. OrdersOf(db, q) = {db[q].order} \ {None} BY SameRows DEF BackOfficeInv, Sound
    <2>3. {o \in Rows("sales_order") : db[o].quotation = q} = OrdersOf(db, q)
      BY SameRows DEF OrdersOf
    <2> QED BY <2>1, <2>2, <2>3 DEF QuotationRight
  <1> QED BY <1>1, BackOfficeAlways, PTL

\* What getCustomerTimeline tells of a quotation or a transport document can have
\* happened in some order, however its dates were set and left behind.
THEOREM TimelinesTell == Spec => []TimelineTells
  <1>1. BackOfficeInv => TimelineTells
    <2> SUFFICES ASSUME BackOfficeInv PROVE TimelineTells
      OBVIOUS
    <2>1. ASSUME NEW q \in Rows("quotation") \ contended
          PROVE  /\ Told(q) \cap {"revised", "accepted", "rejected"} # {} => "sent" \in Told(q)
                 /\ ~({"accepted", "rejected"} \subseteq Told(q))
                 /\ "converted" \in Told(q) => "accepted" \in Told(q)
      <3>1. QuotationRight(db[q]) /\ db[q].table = "quotation" BY RowHas DEF Right
      <3>2. /\ "sent" \in Told(q) <=> db[q].sentAt # None
            /\ "accepted" \in Told(q) <=> db[q].acceptedAt # None
            /\ "rejected" \in Told(q) <=> db[q].rejectedAt # None
            /\ "converted" \in Told(q) <=> db[q].order # None
            /\ "revised" \in Told(q) <=> db[q].status = "revised"
        BY <3>1 DEF Told
      <3>3. "rejected" \in Told(q) => "sent" \in Told(q) BY <3>1, <3>2 DEF QuotationRight
      <3>4. "accepted" \in Told(q) => "sent" \in Told(q) BY <3>1, <3>2 DEF QuotationRight
      <3>5. "revised" \in Told(q) => "sent" \in Told(q) BY <3>1, <3>2 DEF QuotationRight
      <3>6. ~("accepted" \in Told(q) /\ "rejected" \in Told(q)) BY <3>1, <3>2 DEF QuotationRight
      <3>7. "converted" \in Told(q) => "accepted" \in Told(q) BY <3>1, <3>2 DEF QuotationRight
      <3> QED BY <3>3, <3>4, <3>5, <3>6, <3>7
    <2>2. ASSUME NEW d \in Rows("ddt") \ contended
          PROVE  /\ "invoiced" \in Told(d) => "delivered" \in Told(d)
                 /\ Told(d) \cap {"in_transit", "delivered"} # {} => "issued" \in Told(d)
      <3>1. DdtRight(db[d]) /\ db[d].table = "ddt" BY RowHas DEF Right
      <3>2. /\ "invoiced" \in Told(d) <=> db[d].invoice # None
            /\ "delivered" \in Told(d) <=> db[d].deliveredAt # None
            /\ "in_transit" \in Told(d) <=> db[d].shippedAt # None
            /\ "issued" \in Told(d) <=> db[d].status # "draft"
        BY <3>1 DEF Told
      <3>3. "invoiced" \in Told(d) => "delivered" \in Told(d) BY <3>1, <3>2 DEF DdtRight
      <3>4. "in_transit" \in Told(d) => "issued" \in Told(d) BY <3>1, <3>2 DEF DdtRight
      <3>5. "delivered" \in Told(d) => "issued" \in Told(d) BY <3>1, <3>2 DEF DdtRight
      <3> QED BY <3>3, <3>4, <3>5
    <2> QED BY <2>1, <2>2 DEF TimelineTells
  <1> QED BY <1>1, BackOfficeAlways, PTL

\* An invoice has one journal entry when it is accepted and none otherwise; the
\* entry balances, and its revenue is the net of the invoice's lines.
THEOREM InvoicesPostedOnce == Spec => []PostedOnce
  <1>1. BackOfficeInv => PostedOnce
    <2> SUFFICES ASSUME BackOfficeInv, NEW i \in Rows("invoice") \ contended
                 PROVE  LET entries == {j \in Rows("journal") : db[j].invoice = i}
                        IN  /\ Cardinality(entries) = IF db[i].status = "accepted" THEN 1 ELSE 0
                            /\ \A j \in entries : /\ db[j].receivable = db[j].revenue + db[j].vat
                                                  /\ db[j].revenue = SumOf(LineNet, db[i].lines)
      BY DEF PostedOnce
    <2> DEFINE entries == {j \in Rows("journal") : db[j].invoice = i}
    <2>1. entries = EntriesOf(db, i) BY SameRows DEF EntriesOf
    <2>2. db[i].net = SumOf(LineNet, db[i].lines) BY RowHas DEF Right, AmountsRight
    <2>3. Registered(db, i) BY SameRows DEF BackOfficeInv, Sound
    <2> HIDE DEF entries
    <2>4. CASE db[i].status = "accepted"
      <3>1. PICK j : entries = {j} /\ Registers(db, db[j], db[i]) BY <2>1, <2>3, <2>4 DEF Registered
      <3>2. Cardinality(entries) = 1 BY <3>1, FS_Singleton
      <3>3. /\ db[j].receivable = db[j].revenue + db[j].vat
            /\ db[j].revenue = SumOf(LineNet, db[i].lines)
        BY <2>2, <3>1 DEF Registers
      <3> QED BY <2>4, <3>1, <3>2, <3>3 DEF entries
    <2>5. CASE db[i].status # "accepted"
      <3>1. entries = {} BY <2>1, <2>3, <2>5 DEF Registered
      <3>2. Cardinality(entries) = 0 BY <3>1, FS_EmptySet
      <3> QED BY <2>5, <3>1, <3>2 DEF entries
    <2> QED BY <2>4, <2>5
  <1> QED BY <1>1, BackOfficeAlways, PTL

\* Rounding a line moves its tax by half a cent at most.
LEMMA ExactTax ==
    ASSUME NEW lines, Listed(lines)
    PROVE  /\ SumOf(LineTaxExact, lines) \in Int /\ SumOf(LineTaxed, lines) \in Int
           /\ SumOf(LineTaxExact, lines) - 100 * SumOf(LineTaxed, lines)
                  \in -(50 * Len(lines)) .. 50 * Len(lines)
  <1> DEFINE S == DOMAIN lines
             l == Len(lines)
             X == [n \in S |-> LineTaxExact(lines[n])]
             T == [n \in S |-> LineTaxed(lines[n])]
             R == [n \in S |-> 100 * LineTaxed(lines[n])]
             I == [n \in S |-> 1]
             H == [n \in S |-> 50]
             x == SumOf(LineTaxExact, lines)
             t == SumOf(LineTaxed, lines)
  <1>1. /\ IsFiniteSet(S) /\ Cardinality(S) = l /\ l \in Nat
        /\ \A n \in S : lines[n].net \in Int /\ lines[n].rate \in Int
    BY LinesFinite
  <1>2. /\ x = SumOver(X, S) /\ t = SumOver(T, S) /\ x \in Int /\ t \in Int
        /\ \A n \in S : LineTaxExact(lines[n]) \in Int /\ LineTaxed(lines[n]) \in Int
    BY ExactAdds, TaxedAdds
  <1>3. \A n \in S : LineTaxExact(lines[n]) - 100 * LineTaxed(lines[n]) \in -50 .. 50
    <2> TAKE n \in S
    <2> DEFINE k == lines[n].net * lines[n].rate
    <2>1. k \in Int BY <1>1
    <2>2. CASE lines[n].nature = None
      <3>1. LineTaxExact(lines[n]) = k /\ LineTaxed(lines[n]) = (k + 100 \div 2) \div 100
        BY <2>2 DEF LineTaxExact, LineTaxed, ToCents
      <3> HIDE DEF k
      <3>2. k - 100 * ((k + 100 \div 2) \div 100) \in -50 .. 50 BY <2>1
      <3> QED BY <3>1, <3>2
    <2>3. CASE lines[n].nature # None
      <3>1. LineTaxExact(lines[n]) = 0 /\ LineTaxed(lines[n]) = 0
        BY <2>3 DEF LineTaxExact, LineTaxed
      <3> QED BY <3>1
    <2> QED BY <2>2, <2>3
  <1>4. /\ \A n \in S : X[n] \in Int /\ T[n] \in Int /\ R[n] = 100 * T[n] /\ R[n] \in Int
        /\ \A n \in S : I[n] = 1 /\ H[n] = 50 * I[n] /\ H[n] \in Int /\ I[n] \in Int
        /\ \A n \in S : X[n] - R[n] \in -H[n] .. H[n]
    BY <1>2, <1>3
  <1> HIDE DEF S, l, X, T, R, I, H, x, t
  <1>5. SumOver(R, S) = 100 * SumOver(T, S) BY <1>1, <1>4, SumTimes
  <1>6. SumOver(H, S) = 50 * l
    <2>1. SumOver(I, S) = l BY <1>1, <1>4, SumOnes
    <2>2. SumOver(H, S) = 50 * SumOver(I, S) BY <1>1, <1>4, SumTimes
    <2> QED BY <2>1, <2>2
  <1>7. SumOver(X, S) - SumOver(R, S) \in -SumOver(H, S) .. SumOver(H, S)
    BY <1>1, <1>4, SumWithin
  <1>8. x - 100 * t \in -(50 * l) .. 50 * l BY <1>2, <1>5, <1>6, <1>7
  <1> QED BY <1>2, <1>8 DEF x, t, l

\* The sums as LiquidationNearLedger writes them.
LEMMA DueAdds ==
    ASSUME NEW S, IsFiniteSet(S), NEW F, \A x \in S : F[x] = SumOf(LineTaxExact, db[x].lines) /\ F[x] \in Int
    PROVE  MapThenSumSet(LAMBDA i : SumOf(LineTaxExact, db[i].lines), S) = SumOver(F, S)
  <1> DEFINE Op(x) == SumOf(LineTaxExact, db[x].lines)
             IsIt(h) == h = [T \in SUBSET S |-> IF T = {} THEN 0
                                                ELSE Op(CHOOSE x \in T : TRUE) + h[T \ {CHOOSE x \in T : TRUE}]]
             g == CHOOSE h : IsIt(h)
  <1>1. MapThenSumSet(LAMBDA i : SumOf(LineTaxExact, db[i].lines), S) = g[S] BY DEF MapThenSumSet, MapThenFoldSet
  <1>2. \A x \in S : F[x] = Op(x) OBVIOUS
  <1> HIDE DEF Op
  <1>3. ASSUME NEW h PROVE IsSum(h, F, S) <=> IsIt(h)
    <2>1. \A T \in SUBSET S : T # {} => (CHOOSE x \in T : TRUE) \in S OBVIOUS
    <2>2. \A T \in SUBSET S :
              SumStep(F, h, T) = IF T = {} THEN 0 ELSE Op(CHOOSE x \in T : TRUE)
                                                      + h[T \ {CHOOSE x \in T : TRUE}]
      BY <1>2, <2>1 DEF SumStep, One
    <2> QED BY <2>2 DEF IsSum
  <1>4. IsSum(g, F, S)
    <2>1. PICK h : IsSum(h, F, S) BY SumExists
    <2>2. IsIt(h) BY <1>3, <2>1
    <2>3. IsIt(g)
      <3> HIDE DEF IsIt
      <3> QED BY <2>2
    <2> QED BY <1>3, <2>3
  <1> HIDE DEF g
  <1>5. SumOver(F, S) = g[S] BY <1>4, SumOfAny
  <1> QED BY <1>1, <1>5

LEMMA PostedAdds ==
    ASSUME NEW S, IsFiniteSet(S), NEW F, \A x \in S : F[x] = 100 * db[x].vat /\ F[x] \in Int
    PROVE  MapThenSumSet(LAMBDA j : 100 * db[j].vat, S) = SumOver(F, S)
  <1> DEFINE Op(x) == 100 * db[x].vat
             IsIt(h) == h = [T \in SUBSET S |-> IF T = {} THEN 0
                                                ELSE Op(CHOOSE x \in T : TRUE) + h[T \ {CHOOSE x \in T : TRUE}]]
             g == CHOOSE h : IsIt(h)
  <1>1. MapThenSumSet(LAMBDA j : 100 * db[j].vat, S) = g[S] BY DEF MapThenSumSet, MapThenFoldSet
  <1>2. \A x \in S : F[x] = Op(x) OBVIOUS
  <1> HIDE DEF Op
  <1>3. ASSUME NEW h PROVE IsSum(h, F, S) <=> IsIt(h)
    <2>1. \A T \in SUBSET S : T # {} => (CHOOSE x \in T : TRUE) \in S OBVIOUS
    <2>2. \A T \in SUBSET S :
              SumStep(F, h, T) = IF T = {} THEN 0 ELSE Op(CHOOSE x \in T : TRUE)
                                                      + h[T \ {CHOOSE x \in T : TRUE}]
      BY <1>2, <2>1 DEF SumStep, One
    <2> QED BY <2>2 DEF IsSum
  <1>4. IsSum(g, F, S)
    <2>1. PICK h : IsSum(h, F, S) BY SumExists
    <2>2. IsIt(h) BY <1>3, <2>1
    <2>3. IsIt(g)
      <3> HIDE DEF IsIt
      <3> QED BY <2>2
    <2> QED BY <1>3, <2>3
  <1> HIDE DEF g
  <1>5. SumOver(F, S) = g[S] BY <1>4, SumOfAny
  <1> QED BY <1>1, <1>5

LEMMA ListedAdds ==
    ASSUME NEW S, IsFiniteSet(S), NEW F, \A x \in S : F[x] = Len(db[db[x].invoice].lines) /\ F[x] \in Int
    PROVE  MapThenSumSet(LAMBDA j : Len(db[db[j].invoice].lines), S) = SumOver(F, S)
  <1> DEFINE Op(x) == Len(db[db[x].invoice].lines)
             IsIt(h) == h = [T \in SUBSET S |-> IF T = {} THEN 0
                                                ELSE Op(CHOOSE x \in T : TRUE) + h[T \ {CHOOSE x \in T : TRUE}]]
             g == CHOOSE h : IsIt(h)
  <1>1. MapThenSumSet(LAMBDA j : Len(db[db[j].invoice].lines), S) = g[S] BY DEF MapThenSumSet, MapThenFoldSet
  <1>2. \A x \in S : F[x] = Op(x) OBVIOUS
  <1> HIDE DEF Op
  <1>3. ASSUME NEW h PROVE IsSum(h, F, S) <=> IsIt(h)
    <2>1. \A T \in SUBSET S : T # {} => (CHOOSE x \in T : TRUE) \in S OBVIOUS
    <2>2. \A T \in SUBSET S :
              SumStep(F, h, T) = IF T = {} THEN 0 ELSE Op(CHOOSE x \in T : TRUE)
                                                      + h[T \ {CHOOSE x \in T : TRUE}]
      BY <1>2, <2>1 DEF SumStep, One
    <2> QED BY <2>2 DEF IsSum
  <1>4. IsSum(g, F, S)
    <2>1. PICK h : IsSum(h, F, S) BY SumExists
    <2>2. IsIt(h) BY <1>3, <2>1
    <2>3. IsIt(g)
      <3> HIDE DEF IsIt
      <3> QED BY <2>2
    <2> QED BY <1>3, <2>3
  <1> HIDE DEF g
  <1>5. SumOver(F, S) = g[S] BY <1>4, SumOfAny
  <1> QED BY <1>1, <1>5

\* The entries of a year's invoices are those of the accepted ones, one each, and
\* say their tax when nobody is under split payment.
LEMMA EntriesOfYear ==
    ASSUME BackOfficeInv, NEW A, A \subseteq Rows("invoice"), A \cap contended = {},
           \A i \in A : ~db[db[i].customer].splitPayment,
           NEW E, E = {j \in Rows("journal") : db[j].invoice \in A}
    PROVE  /\ IsFiniteSet(E) /\ IsFiniteSet(A)
           /\ {i \in A : db[i].status = "accepted"} = {db[j].invoice : j \in E}
           /\ \A j, k \in E : db[j].invoice = db[k].invoice => j = k
           /\ \A j \in E : /\ Listed(db[db[j].invoice].lines)
                           /\ db[j].vat = SumOf(LineTaxed, db[db[j].invoice].lines)
  <1>1. IsFiniteSet(E) /\ IsFiniteSet(A)
    <2>1. E \subseteq DOMAIN db /\ A \subseteq DOMAIN db BY RowsThere
    <2>2. IsFiniteSet(DOMAIN db) BY DEF BackOfficeInv, Sound
    <2> QED BY <2>1, <2>2, FS_Subset
  <1>2. \A i \in A : AmountsRight(db[i]) /\ Registered(db, i)
    <2> TAKE i \in A
    <2>1. i \in Rows("invoice") /\ i \notin contended OBVIOUS
    <2>2. Right("invoice", db[i]) BY <2>1, RowHas
    <2>3. Registered(db, i) BY <2>1, SameRows DEF BackOfficeInv, Sound
    <2> QED BY <2>2, <2>3 DEF Right
  <1>3. \A j \in E : db[j].invoice \in A /\ j \in EntriesOf(db, db[j].invoice)
    BY SameRows DEF EntriesOf
  <1>4. ASSUME NEW j \in E
        PROVE  LET i == db[j].invoice
               IN  /\ db[i].status = "accepted" /\ EntriesOf(db, i) = {j}
                   /\ Registers(db, db[j], db[i])
    BY <1>2, <1>3 DEF Registered
  <1>5. \A i \in A : db[i].status = "accepted" => \E j \in E : db[j].invoice = i
    <2> SUFFICES ASSUME NEW i \in A, db[i].status = "accepted" PROVE \E j \in E : db[j].invoice = i
      OBVIOUS
    <2>1. PICK j : EntriesOf(db, i) = {j} BY <1>2 DEF Registered
    <2>2. j \in Rows("journal") /\ db[j].invoice = i BY <2>1, SameRows DEF EntriesOf
    <2> QED BY <2>2
  <1>6. {i \in A : db[i].status = "accepted"} = {db[j].invoice : j \in E}
    <2>1. \A j \in E : db[j].invoice \in A /\ db[db[j].invoice].status = "accepted" BY <1>3, <1>4
    <2> QED BY <1>5, <2>1
  <1>7. \A j, k \in E : db[j].invoice = db[k].invoice => j = k
    <2> TAKE j, k \in E
    <2>1. EntriesOf(db, db[j].invoice) = {j} /\ EntriesOf(db, db[k].invoice) = {k} BY <1>4
    <2> QED BY <2>1
  <1>8. ASSUME NEW j \in E
        PROVE  /\ Listed(db[db[j].invoice].lines)
               /\ db[j].vat = SumOf(LineTaxed, db[db[j].invoice].lines)
    <2> DEFINE i == db[j].invoice
    <2>1. i \in A /\ AmountsRight(db[i]) /\ ~db[db[i].customer].splitPayment BY <1>2, <1>3
    <2>2. Registers(db, db[j], db[i]) BY <1>4
    <2> QED BY <2>1, <2>2 DEF Registers, AmountsRight
  <1> QED BY <1>1, <1>6, <1>7, <1>8

\* The IVA of a year's liquidation is that of the registered invoices but for half a
\* cent a line: createInvoice rounds every line, ivaLiquidation none, and one
\* entry stands for every accepted invoice, in whatever order they were accepted.
THEOREM LiquidationAgrees == Spec => []LiquidationNearLedger
  <1>1. ASSUME BackOfficeInv, NEW y \in Years, InvoicesOf(y) \cap contended = {},
               \A i \in InvoicesOf(y) : ~db[db[i].customer].splitPayment
        PROVE  LET entries == {j \in Rows("journal") : db[j].invoice \in InvoicesOf(y)}
                   posted  == MapThenSumSet(LAMBDA j : 100 * db[j].vat, entries)
                   lines   == MapThenSumSet(LAMBDA j : Len(db[db[j].invoice].lines), entries)
               IN  Liquidation(y) - posted \in -(50 * lines) .. 50 * lines
    <2> DEFINE A == InvoicesOf(y)
               E == {j \in Rows("journal") : db[j].invoice \in A}
               C == {i \in A : db[i].status = "accepted"}
               f == [j \in E |-> db[j].invoice]
               D == [i \in C |-> SumOf(LineTaxExact, db[i].lines)]
               X == [j \in E |-> SumOf(LineTaxExact, db[db[j].invoice].lines)]
               R == [j \in E |-> 100 * db[j].vat]
               L == [j \in E |-> Len(db[db[j].invoice].lines)]
               H == [j \in E |-> 50 * Len(db[db[j].invoice].lines)]
    <2>1. A \subseteq Rows("invoice") BY DEF InvoicesOf
    <2>2. /\ IsFiniteSet(E) /\ IsFiniteSet(A) /\ C = {db[j].invoice : j \in E}
          /\ \A j, k \in E : db[j].invoice = db[k].invoice => j = k
          /\ \A j \in E : /\ Listed(db[db[j].invoice].lines)
                          /\ db[j].vat = SumOf(LineTaxed, db[db[j].invoice].lines)
      <3> HIDE DEF A
      <3> QED BY <1>1, <2>1, EntriesOfYear DEF A
    <2>3. IsFiniteSet(C) BY <2>2, FS_Subset
    <2>4. \A j \in E :
            /\ X[j] \in Int /\ R[j] \in Int /\ L[j] \in Int /\ H[j] = 50 * L[j] /\ H[j] \in Int
            /\ X[j] - R[j] \in -H[j] .. H[j]
      <3> TAKE j \in E
      <3> DEFINE lines == db[db[j].invoice].lines
                 l == Len(lines)
                 x == SumOf(LineTaxExact, lines)
                 t == SumOf(LineTaxed, lines)
      <3>1. Listed(lines) /\ db[j].vat = t BY <2>2
      <3>2. x \in Int /\ t \in Int /\ x - 100 * t \in -(50 * l) .. 50 * l BY <3>1, ExactTax
      <3>3. l \in Nat BY <3>1, LinesFinite
      <3>4. X[j] = x /\ R[j] = 100 * t /\ L[j] = l /\ H[j] = 50 * l BY <3>1
      <3> HIDE DEF lines, l, x, t, X, R, L, H
      <3> QED BY <3>2, <3>3, <3>4
    <2>5. \A i \in C : D[i] = SumOf(LineTaxExact, db[i].lines) /\ D[i] \in Int
      <3> SUFFICES ASSUME NEW i \in C PROVE SumOf(LineTaxExact, db[i].lines) \in Int
        OBVIOUS
      <3>1. PICK j \in E : i = db[j].invoice BY <2>2
      <3> QED BY <2>2, <3>1, ExactTax
    <2>6. /\ \A j \in E : R[j] = 100 * db[j].vat /\ L[j] = Len(db[db[j].invoice].lines)
          /\ \A j \in E : f[j] = db[j].invoice /\ f[j] \in C /\ X[j] = D[f[j]]
          /\ {f[j] : j \in E} = C
      <3>1. \A j \in E : db[j].invoice \in C
        <4> HIDE DEF C, E
        <4> QED BY <2>2
      <3>2. {f[j] : j \in E} = {db[j].invoice : j \in E} OBVIOUS
      <3>3. \A j \in E : X[j] = D[db[j].invoice]
        <4> HIDE DEF C, E
        <4> QED BY <3>1
      <3> HIDE DEF C, E, X, D
      <3> QED BY <2>2, <3>1, <3>2, <3>3
    <2>7. Liquidation(y) = MapThenSumSet(LAMBDA i : SumOf(LineTaxExact, db[i].lines), C)
      BY DEF Liquidation
    <2> HIDE DEF A, E, C, f, D, X, R, L, H
    <2>8. Liquidation(y) = SumOver(D, C) BY <2>3, <2>5, <2>7, DueAdds
    <2>9. SumOver(X, E) = SumOver(D, C)
      <3>1. \A j, k \in E : f[j] = f[k] => j = k BY <2>2, <2>6
      <3>2. \A j \in E : D[f[j]] \in Int /\ X[j] = D[f[j]] BY <2>4, <2>6
      <3>3. SumOver(X, E) = SumOver(D, {f[j] : j \in E}) BY <2>2, <3>1, <3>2, SumTaken
      <3> QED BY <2>6, <3>3
    <2>10. SumOver(X, E) - SumOver(R, E) \in -SumOver(H, E) .. SumOver(H, E)
      BY <2>2, <2>4, SumWithin
    <2>11. SumOver(H, E) = 50 * SumOver(L, E) BY <2>2, <2>4, SumTimes
    <2>12. MapThenSumSet(LAMBDA j : 100 * db[j].vat, E) = SumOver(R, E)
      BY <2>2, <2>4, <2>6, PostedAdds
    <2>13. MapThenSumSet(LAMBDA j : Len(db[db[j].invoice].lines), E) = SumOver(L, E)
      BY <2>2, <2>4, <2>6, ListedAdds
    <2>14. /\ Liquidation(y) - SumOver(R, E) \in -(50 * SumOver(L, E)) .. 50 * SumOver(L, E)
      BY <2>8, <2>9, <2>10, <2>11
    <2> QED BY <2>12, <2>13, <2>14 DEF E, A
  <1>2. BackOfficeInv => LiquidationNearLedger BY <1>1 DEF LiquidationNearLedger
  <1> QED BY <1>2, BackOfficeAlways, PTL

\* createInvoice counts, then inserts, and locks nothing; yet the invoices of a
\* year are numbered without a gap, whatever overlaps, fails or is refused: the
\* rows never go and the unique index leaves a stale count no way in.
THEOREM NumbersHaveNoGap == Spec => []InvoicesWithoutGap
  <1>1. BackOfficeInv => InvoicesWithoutGap
    BY SameRows DEF BackOfficeInv, Sound, NumberedIn, DatedIn, InvoicesOf, InvoicesWithoutGap
  <1> QED BY <1>1, BackOfficeAlways, PTL

\* seedChartOfAccounts saves one account after the other; yet each it created
\* has its parent, wherever it was cut off and however many run at once.
THEOREM NoOrphans == Spec => []ParentsFirst
  <1>1. BackOfficeInv => ParentsFirst
    BY SameRows DEF BackOfficeInv, Sound, UnderParent, CodeIn, Known, ParentsFirst
  <1> QED BY <1>1, BackOfficeAlways, PTL

\* The hours of an attendance are those between the times it ended up with, whoever
\* closed it, and none while it is open.
THEOREM HoursAsStamped == Spec => []HoursMatchTimes
  <1>1. BackOfficeInv => HoursMatchTimes
    <2> SUFFICES ASSUME BackOfficeInv, NEW a \in Rows("attendance") \ contended
                 PROVE  db[a].workedHours =
                            IF db[a].status = "open" THEN 0
                            ELSE WorkedHours(db[a].clockInAt, db[a].clockOutAt, db[a].breakMinutes)
      BY DEF HoursMatchTimes
    <2>1. HoursRight(db[a]) BY RowHas DEF Right
    <2> QED BY <2>1 DEF HoursRight
  <1> QED BY <1>1, BackOfficeAlways, PTL

\* A transaction of the bank is imported once: an account no request has in hand,
\* and that no two had at once and none was lost with, has what its provider gives,
\* one transaction or none, when it has a cursor, and none before. syncPsd2 saves
\* the one before the other.
THEOREM BankImportsOnce == Spec => []ImportedOnce
  <1>1. BackOfficeInv => ImportedOnce
    <2> SUFFICES ASSUME BackOfficeInv, NEW a \in Rows("bank_account") \ (contended \cup cut), Settled(a)
                 PROVE  Cardinality({t \in Rows("bank_transaction") : db[t].account = a})
                            = IF db[a].lastTransactionCursor = None THEN 0
                              ELSE Given(db[a].psd2Provider)
      BY DEF ImportedOnce
    <2> DEFINE found == {t \in Rows("bank_transaction") : db[t].account = a}
    <2>1. found = ImportsOf(db, a) BY SameRows DEF ImportsOf
    <2>2. Imported(db, a) BY SameRows DEF BackOfficeInv, ImportInv
    <2> HIDE DEF found
    <2>3. CASE db[a].lastTransactionCursor = None
      <3>1. found = {} BY <2>1, <2>2, <2>3 DEF Imported
      <3>2. Cardinality(found) = 0 BY <3>1, FS_EmptySet
      <3> QED BY <2>3, <3>2 DEF found
    <2>4. CASE db[a].lastTransactionCursor # None
      <3>1. Given(db[a].psd2Provider) \in {0, 1} /\ HasGiven(db, a)
        BY <2>2, <2>4 DEF Imported, Given
      <3>2. Given(db[a].psd2Provider) = 0 => found = {} BY <2>1, <3>1 DEF HasGiven
      <3>3. Given(db[a].psd2Provider) = 1 => \E t : found = {t} BY <2>1, <3>1 DEF HasGiven
      <3>4. Cardinality(found) = Given(db[a].psd2Provider)
        BY <3>1, <3>2, <3>3, FS_EmptySet, FS_Singleton
      <3> QED BY <2>4, <3>4 DEF found
    <2> QED BY <2>3, <2>4
  <1> QED BY <1>1, BackOfficeAlways, PTL

\* A cursor that says idle tells the truth: the read model of its projection is the
\* result of its last run, row by row, whichever runs failed, were lost half way or
\* ran for other projections meanwhile, as long as no two of its own overlapped.
THEOREM ReadModelsOfLastRun == Spec => []ReadModelOfLastRun
  <1>1. BackOfficeInv => ReadModelOfLastRun
    <2> SUFFICES ASSUME BackOfficeInv, NEW c \in Rows("cursor") \ contended,
                        db[c].status = "idle", db[c].rowsProjected > 0
                 PROVE  {db[r] : r \in ModelOf(db[c].key)} = db[c].seen
      BY DEF ReadModelOfLastRun
    <2>1. Modelled(db, c) BY SameRows DEF BackOfficeInv, ModelInv, ModelsOK
    <2>2. ModelOf(db[c].key) = ModelIn(db, db[c].key)
      BY DEF ModelOf, ModelIn, Rows, IdsOf, Present, Stored
    <2> QED BY <2>1, <2>2 DEF Modelled, ResultIn
  <1> QED BY <1>1, BackOfficeAlways, PTL
-----------------------------------------------------------------------------
(* What a step may never do.                                               *)

\* A handler commits nothing in the step it starts or goes on with.
LEMMA OnlyWrites ==
    ASSUME [Next]_vars
    PROVE  /\ db' = db \/ \E p \in Workers : Write(p)
           /\ contended \subseteq contended'
  <1>1. CASE UNCHANGED vars BY <1>1 DEF vars
  <1>2. ASSUME NEW p \in Workers, SellingStep(p)
        PROVE  db' = db /\ contended \subseteq contended'
    BY <1>2 DEF SellingStep, CreateCustomer, CreateSalesOrder, MoveSalesOrder, CreateQuotation,
       TransitionQuotation, Convert, CreateDdt, TransitionDdt, InvoiceDdt, LogActivity,
       Handle, Begin, GoOn
  <1>3. ASSUME NEW p \in Workers, AccountingStep(p)
        PROVE  db' = db /\ contended \subseteq contended'
    BY <1>3 DEF AccountingStep, CreateAccount, Seed, SeedDone, CreateJournalEntry, CreateInvoice,
       AcceptInvoice, QueueInvoiceForSdi, Handle, Begin, GoOn
  <1>4. ASSUME NEW p \in Workers, TreasuryStep(p)
        PROVE  db' = db /\ contended \subseteq contended'
    BY <1>4 DEF TreasuryStep, CreateBankAccount, SyncPsd2, ManualMatch, IgnoreTransaction,
       Handle, Begin
  <1>5. ASSUME NEW p \in Workers, PeopleStep(p)
        PROVE  db' = db /\ contended \subseteq contended'
    BY <1>5 DEF PeopleStep, CreateEmployee, UpdateEmployee, StartOnboarding, Activate, Terminate,
       ClockIn, ClockOut, SweepOrphans, CreateLeave, SubmitLeave, DecideLeave, Handle, Begin
  <1>6. ASSUME NEW p \in Workers, IntrastatStep(p)
        PROVE  db' = db /\ contended \subseteq contended'
    BY <1>6 DEF IntrastatStep, CreateDraft, Submit, Answer, Reopen, Generate, Handle, Begin, GoOn
  <1>7. ASSUME NEW p \in Workers, ShopfloorStep(p)
        PROVE  db' = db /\ contended \subseteq contended'
    BY <1>7 DEF ShopfloorStep, CreateProductionOrder, CreateWorkOrder, UpdateWorkOrderStatus,
       CreateProduct, UpdateProduct, DeleteProduct, CreateWarehouse, UpdateWarehouse,
       Handle, Begin, GoOn
  <1>8. ASSUME NEW p \in Workers, ReportingStep(p)
        PROVE  db' = db /\ contended \subseteq contended'
    BY <1>8 DEF ReportingStep, StartRun, Project, ProjectFailed, Refresh, CreateReport,
       UpdateReport, DeleteReport, CreateSchedule, PauseSchedule, ResumeSchedule,
       Handle, Begin, GoOn
  <1>9. ASSUME NEW p \in Workers, CompanyStep(p)
        PROVE  db' = db /\ contended \subseteq contended'
    BY <1>9 DEF CompanyStep, CreateCompany, Install, CancelInstallation, SetPrimary, Handle, Begin
  <1>10. ASSUME NEW p \in Workers, Statements(p)
         PROVE  (db' = db \/ Write(p)) /\ contended \subseteq contended'
    BY <1>10 DEF Statements, Reload, Write, Refused, Lost, Leave
  <1> QED BY <1>1, <1>2, <1>3, <1>4, <1>5, <1>6, <1>7, <1>8, <1>9, <1>10 DEF Next, Quiet

\* A COMMIT leaves a quotation converted, to the same order, and goods that left away.
LEMMA StaysConverted ==
    ASSUME BackOfficeInv, NEW p \in Workers, Write(p), NEW q \in Rows("quotation"),
           db[q].status = "converted", q \notin contended, db[q].order \notin contended
    PROVE  /\ db'[q].table = "quotation" /\ db'[q].status = "converted"
           /\ db'[q].order = db[q].order /\ db[q].order # None
           /\ db[q].order \in Rows("sales_order") /\ db'[db[q].order].status # "absent"
           /\ db[db[q].order].status \in Away => db'[db[q].order].status \in Away
  <1> DEFINE u == Unit(p)
             o == db[q].order
  <1>1. UnitOK(db, contended, u) /\ Commits(db, db', contended, u) BY Commit
  <1> HIDE DEF u
  <1>2. /\ q \in DOMAIN db /\ db[q].table = "quotation" /\ QuotationRight(db[q])
        /\ {"status", "order"} \subseteq DOMAIN db[q] /\ q \in Stored(db, "quotation")
    BY RowHas, SameRows, TablesLast DEF Columns, Right, Rowed
  <1>3. o # None BY <1>2 DEF QuotationRight
  <1>4. OrdersOf(db, q) = {o} BY <1>2, <1>3 DEF BackOfficeInv, Sound
  <1> HIDE DEF o
  <1>5. o \in Stored(db, "sales_order") BY <1>4 DEF OrdersOf
  <1>6. o \in Rows("sales_order") BY <1>5, SameRows
  <1>7. /\ o \in DOMAIN db /\ db[o].table = "sales_order" /\ db[o].status # "absent"
        /\ "status" \in DOMAIN db[o]
    BY <1>6, RowHas DEF Rowed, Present
  <1>8. db'[q].table = "quotation" /\ db'[o].status # "absent"
    BY <1>1, <1>2, <1>7, TablesLast DEF Commits, Grown
  <1>9. /\ DOMAIN db'[q] = DOMAIN db[q] /\ DOMAIN db'[o] = DOMAIN db[o]
    BY <1>1, <1>2, <1>7, TablesLast DEF Commits, Grown
  <1>10. db'[q].status = "converted" /\ db'[q].order = o
    <2>1. CASE q \notin DOMAIN u BY <1>1, <1>2, <2>1 DEF Commits, o
    <2>2. CASE q \in DOMAIN u
      <3>1. Changed(db, contended, u, q, "quotation") BY <1>1, <1>2, <2>2, TablesLast DEF UnitOK
      <3>2. u[q].status = "converted" BY <1>2, <3>1 DEF Changed
      <3>3. u[q].order = o
        <4> SUFFICES ASSUME NEW x \in DOMAIN u, db[x].table = "sales_order",
                            db[x].status = "absent", u[x].quotation = q
                     PROVE  FALSE
          BY <3>1 DEF Changed, o
        <4>1. Fresh(db, contended, u, x, "sales_order") BY <1>1, TablesLast DEF UnitOK
        <4>2. q # None BY <1>2 DEF BackOfficeInv, Sound
        <4>3. Converts(db, contended, u, q, x) BY <4>1, <4>2 DEF Fresh
        <4> QED BY <1>3, <4>3 DEF Converts, o
      <3>4. DOMAIN u[q] = DOMAIN db'[q] /\ \A f \in DOMAIN u[q] : db'[q][f] = u[q][f]
        BY <1>1, <1>2, <2>2, TablesLast DEF Commits
      <3> QED BY <1>2, <1>9, <3>2, <3>3, <3>4
    <2> QED BY <2>1, <2>2
  <1>11. db[o].status \in Away => db'[o].status \in Away
    <2>1. CASE o \notin DOMAIN u BY <1>1, <1>7, <2>1 DEF Commits
    <2>2. CASE o \in DOMAIN u
      <3>1. Changed(db, contended, u, o, "sales_order") BY <1>1, <1>7, <2>2, TablesLast DEF UnitOK
      <3>2. o \notin contended BY DEF o
      <3>3. db[o].status \in Away => u[o].status \in Away BY <3>1, <3>2 DEF Changed
      <3>4. DOMAIN u[o] = DOMAIN db'[o] /\ \A f \in DOMAIN u[o] : db'[o][f] = u[o][f]
        BY <1>1, <1>7, <2>2, <3>2, TablesLast DEF Commits
      <3> QED BY <1>7, <1>9, <3>3, <3>4
    <2> QED BY <2>1, <2>2
  <1> QED BY <1>3, <1>6, <1>8, <1>10, <1>11 DEF o

LEMMA NullIsNoStage == None # "won" /\ None # "delivered"
  BY BackOfficeAssumption

\* A deal that became an order never falls back in the pipeline: it stays won until
\* its goods leave, and is delivered ever after, as long as requests for the
\* quotation or its order do not overlap.
THEOREM DealsOnlyGoForward == Spec => DealsGoForward
  <1>1. ASSUME BackOfficeInv, [Next]_vars, NEW q \in Rows("quotation"),
               db[q].status = "converted", {q, db[q].order} \cap contended' = {}
        PROVE  /\ Stage(q) = "won" => Stage(q)' \in {"won", "delivered"}
               /\ Stage(q) = "delivered" => Stage(q)' = "delivered"
    <2> DEFINE o == db[q].order
               left == o # None /\ Present(o) /\ db[o].status \in Away
    <2>1. q \notin contended /\ o \notin contended BY <1>1, OnlyWrites
    <2>2. Stage(q) = IF left THEN "delivered" ELSE "won" BY <1>1 DEF Stage, Away
    <2>3. CASE db' = db
      <3>1. Stage(q)' = IF left THEN "delivered" ELSE "won"
        BY <1>1, <2>3 DEF Stage, Away, Present
      <3> QED BY <2>2, <3>1
    <2>4. CASE \E p \in Workers : Write(p)
      <3>1. /\ db'[q].status = "converted" /\ db'[q].order = o /\ o # None
            /\ db'[o].status # "absent" /\ (db[o].status \in Away => db'[o].status \in Away)
        BY <1>1, <2>1, <2>4, StaysConverted
      <3>2. Stage(q)' = IF db'[o].status \in Away THEN "delivered" ELSE "won"
        BY <3>1 DEF Stage, Away, Present
      <3> QED BY <2>2, <3>1, <3>2
    <2> QED BY <1>1, <2>3, <2>4, OnlyWrites
  <1>2. BackOfficeInv /\ [Next]_vars =>
          [\A q \in Rows("quotation") :
              LET documents == {q, db[q].order}
                  before    == IF db[q].status = "converted" THEN Stage(q) ELSE None
              IN  documents \cap contended' = {} =>
                    /\ before = "won" => Stage(q)' \in {"won", "delivered"}
                    /\ before = "delivered" => Stage(q)' = "delivered"]_vars
    BY <1>1, NullIsNoStage
  <1> QED BY <1>2, BackOfficeAlways, PTL DEF Spec, DealsGoForward

\* The produced quantity of an order becomes nothing but that of its last completed
\* operation, as it is when the order is saved, while no other request has the
\* order in hand.
THEOREM QuantityOfLastOperation == Spec => ProducedByLastOperation
  <1>1. ASSUME BackOfficeInv, [Next]_vars, NEW o \in Rows("production_order") \ contended',
               db'[o].quantityProduced # db[o].quantityProduced
        PROVE  \E w \in Completed(o) :
                   /\ \A v \in Completed(o) : db[v].sequenceNumber <= db[w].sequenceNumber
                   /\ db'[o].quantityProduced = db[w].quantityProduced
    <2>1. o \notin contended BY <1>1, OnlyWrites
    <2>2. PICK p \in Workers : Write(p) BY <1>1, OnlyWrites
    <2> DEFINE u == Unit(p)
    <2>3. Held({}, Lasting) /\ PendingOK(db, contended, req[p]) BY <1>1 DEF BackOfficeInv
    <2>4. /\ UnitFits(db, u, DOMAIN req[p].base, {}, Lasting)
          /\ \A d \in DOMAIN db \ DOMAIN u : db'[d] = db[d]
          /\ \A d \in DOMAIN u \ contended : db'[d] = Updated(db[d], u[d])
      BY <2>2, <2>3, WriteSaves
    <2>5. /\ o \in DOMAIN db /\ db[o].table = "production_order" /\ db[o].status # "absent"
          /\ "quantityProduced" \in DOMAIN db[o]
      BY <1>1, RowHas, TablesLast DEF Columns, Present
    <2>6. u = req[p].todo[1] /\ 1 \in 1 .. Len(req[p].todo)
      <3>1. RequestFits(db, contended, req[p], {}, Lasting) /\ req[p].pc \in {"reload", "write"}
        BY <2>2, <2>3 DEF Held, Write
      <3> QED BY <3>1, NextUnit DEF Unit
    <2> HIDE DEF u
    <2>7. o \in DOMAIN u BY <1>1, <2>4, <2>5
    <2>8. db'[o] = Updated(db[o], u[o]) BY <2>1, <2>4, <2>7
    <2>9. db'[o].quantityProduced = u[o].quantityProduced BY <1>1, <2>5, <2>8 DEF Updated
    <2>10. LastMade(db, o, u[o].quantityProduced)
      BY <2>1, <2>3, <2>5, <2>6, <2>7 DEF PendingOK, Reports
    <2>11. Completed(o) = DoneOf(db, o) BY SameRows DEF Completed, DoneOf
    <2> QED BY <2>9, <2>10, <2>11 DEF LastMade
  <1>2. BackOfficeInv /\ [Next]_vars =>
          [\A o \in Rows("production_order") \ contended' :
              db'[o].quantityProduced # db[o].quantityProduced =>
                \E w \in Completed(o) :
                    /\ \A v \in Completed(o) : db[v].sequenceNumber <= db[w].sequenceNumber
                    /\ db'[o].quantityProduced = db[w].quantityProduced]_vars
    BY <1>1
  <1> QED BY <1>2, BackOfficeAlways, PTL DEF Spec, ProducedByLastOperation
=============================================================================
