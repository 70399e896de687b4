------------------------------ MODULE Requests ------------------------------
(***************************************************************************)
(* What every handler of the backend does to the database, whichever       *)
(* component it belongs to: it reads rows, decides, and then commits one   *)
(* or more transactions of saves, while other requests do the same.        *)
(* Nothing is locked and no row has a version, PostgreSQL runs at READ     *)
(* COMMITTED, and save() writes the columns in which the object in memory  *)
(* differs from the row as it is read again just before.                   *)
(*                                                                         *)
(* A component says which rows a handler reads and what it saves, with     *)
(* Begin and GoOn; the rest is here. All components share `db`, so modules *)
(* that extend this one compose by the disjunction of their handlers. A    *)
(* request that is refused before it saves anything changes nothing and is *)
(* no step. The saves of one transaction are reloaded together and written *)
(* together with its COMMIT.                                               *)
(***************************************************************************)
EXTENDS Integers, Sequences, FiniteSets, Documents

CONSTANTS
    Workers,        \* requests in flight together
    MaxCalls,       \* bound: requests received in a behaviour
    MaxNow,         \* bound: how often the clock advances
    Faults,         \* whether a request may lose its connection
    None,           \* null and undefined
    Scenes          \* the databases a behaviour may start from

ASSUME RequestsAssumption ==
    /\ MaxCalls \in Nat /\ MaxNow \in Nat
    /\ Faults \in BOOLEAN

\* A row, and the rows that a database has in a table.
Rowed(row)      == {"table", "status"} \subseteq DOMAIN row
Stored(rows, t) == {d \in DOMAIN rows : rows[d].table = t /\ rows[d].status # "absent"}

ASSUME RowsAssumption == \A scene \in Scenes : \A d \in DOMAIN scene : Rowed(scene[d])

VARIABLES
    db,         \* the committed rows: id -> its columns, `table` and `status` among them
    req,        \* what each worker is doing
    now,        \* the clock
    contended,  \* rows that ever had two requests in flight
    cut,        \* rows of requests that were lost before their end
    calls       \* requests received so far

vars == <<db, req, now, contended, cut, calls>>

-----------------------------------------------------------------------------
(* Rows. An id that no row has yet is there with the status "absent".      *)

Present(d)   == db[d].status # "absent"
Absent(t)    == [table |-> t, status |-> "absent"]
IdsOf(t)     == {d \in DOMAIN db : db[d].table = t}
Rows(t)      == {d \in IdsOf(t) : Present(d)}
Count(t)     == Cardinality(Rows(t))
Ever(t)      == UNION {{d \in DOMAIN scene : scene[d].table = t} : scene \in Scenes}

\* The ids no row and no request has: one of them is the next uuid.
Free(t) == {d \in IdsOf(t) : ~Present(d) /\ \A q \in Workers : d \notin DOMAIN req[q].base}
New(t)  == CHOOSE d \in Free(t) : TRUE

\* The ids of n rows to insert together; as many are there, uuids being many.
Spare(t, n)  == \E S \in SUBSET Free(t) : Cardinality(S) = n
NewIds(t, n) == CHOOSE S \in SUBSET Free(t) : Cardinality(S) = n

Only(d, row) == [x \in {d} |-> row]
And(f, g)    == [x \in DOMAIN f \cup DOMAIN g |-> IF x \in DOMAIN f THEN f[x] ELSE g[x]]

-----------------------------------------------------------------------------
(* Requests: the rows read, as they were when read; the transactions still *)
(* to commit, each the objects to save; the columns found changed; where   *)
(* the handler goes on once they are committed, "idle" for nowhere.        *)

Nothing == [d \in {} |-> None]
Idle    == [pc |-> "idle", base |-> Nothing, todo |-> <<>>, dirty |-> Nothing, then |-> "idle"]
Busy(p) == req[p].pc # "idle"

\* The rows of D that another request has in hand.
Shared(p, D) == {d \in D : \E q \in Workers \ {p} : d \in DOMAIN req[q].base}

At(base, txs, then) ==
    IF txs = <<>> /\ then = "idle" THEN Idle
    ELSE [pc |-> IF txs = <<>> THEN then ELSE "reload",
          base |-> base, todo |-> txs, dirty |-> Nothing, then |-> then]

\* A handler starts: it reads D, saves the transactions `txs`, goes on at `then`.
Begin(p, D, txs, then) ==
    /\ ~Busy(p)
    /\ calls < MaxCalls
    /\ calls' = calls + 1
    /\ req' = [req EXCEPT ![p] = At([d \in D |-> db[d]], txs, then)]
    /\ contended' = contended \cup Shared(p, D)
    /\ UNCHANGED <<db, now, cut>>

Handle(p, D, txs) == Begin(p, D, txs, "idle")

\* A handler that got to `pc` reads D besides, saves `txs`, goes on at `then`.
GoOn(p, pc, D, txs, then) ==
    /\ req[p].pc = pc
    /\ req' = [req EXCEPT ![p] = At(And([d \in D |-> db[d]], req[p].base), txs, then)]
    /\ contended' = contended \cup Shared(p, D)
    /\ UNCHANGED <<db, now, cut, calls>>

-----------------------------------------------------------------------------
(* The transactions of a request, in their order.                          *)

Unit(p) == Head(req[p].todo)

\* save() of a new object, and update() of some columns, read nothing first.
ToWrite(object, row) ==
    IF DOMAIN object = DOMAIN row THEN Dirty(object, row) ELSE DOMAIN object

\* The SELECT that save() starts with.
Reload(p) ==
    /\ req[p].pc = "reload"
    /\ req' = [req EXCEPT ![p].pc = "write",
                          ![p].dirty = [d \in DOMAIN Unit(p) |-> ToWrite(Unit(p)[d], db[d])]]
    /\ UNCHANGED <<db, now, contended, cut, calls>>

\* The column of a table's unique index, that of its second one where it has one.
UniqueColumns == {"key", "alias"}

\* Mutant: the tables have no unique index.
NoUniqueIndex(p) == FALSE

\* Rows that the transaction deletes before it inserts any.
Deleted(p) ==
    {d \in DOMAIN Unit(p) : "status" \in DOMAIN Unit(p)[d] /\ Unit(p)[d].status = "absent"}

\* A unique index has a value of a row to write already; null is no value.
Taken(p) ==
    \E d \in DOMAIN Unit(p), column \in UniqueColumns :
        \E x \in Rows(db[d].table) \ ({d} \cup Deleted(p)) :
            /\ column \in DOMAIN Unit(p)[d] /\ column \in DOMAIN db[x]
            /\ Unit(p)[d][column] # None
            /\ Unit(p)[d][column] = db[x][column]

\* The row after the INSERT of an object, or the UPDATE of its columns.
Saved(p, d) ==
    IF Present(d) THEN Merge(db[d], Unit(p)[d], req[p].dirty[d]) ELSE Unit(p)[d]

\* The UPDATEs and INSERTs, and the COMMIT.
Write(p) ==
    /\ req[p].pc = "write"
    /\ ~Taken(p)
    /\ LET saved == [d \in DOMAIN Unit(p) |-> Saved(p, d)]
       IN  /\ db' = And(saved, db)
           /\ req' = [req EXCEPT ![p] = At(And(saved, @.base), Tail(@.todo), @.then)]
    /\ UNCHANGED <<now, contended, cut, calls>>

\* The request ends where it is; what it has committed before stays.
Leave(p) ==
    /\ req' = [req EXCEPT ![p] = Idle]
    /\ cut' = cut \cup DOMAIN req[p].base
    /\ UNCHANGED <<db, now, contended, calls>>

Refused(p) == req[p].pc = "write" /\ Taken(p) /\ Leave(p)

\* The connection or the process is lost between two statements.
Lost(p) == Faults /\ Busy(p) /\ Leave(p)

Statements(p) == Reload(p) \/ Write(p) \/ Refused(p) \/ Lost(p)

Tick ==
    /\ now < MaxNow
    /\ now' = now + 1
    /\ UNCHANGED <<db, req, contended, cut, calls>>

\* No request in flight: the clients may send nothing more.
Quiet == (\A p \in Workers : ~Busy(p)) /\ UNCHANGED vars

Start ==
    /\ db \in Scenes
    /\ req = [p \in Workers |-> Idle]
    /\ now = 0
    /\ contended = {}
    /\ cut = {}
    /\ calls = 0

\* No request has this row in hand.
Settled(d) == \A p \in Workers : d \notin DOMAIN req[p].base
=============================================================================
