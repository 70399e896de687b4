--------------------------- MODULE RequestsProofs ---------------------------
(***************************************************************************)
(* What holds of the requests of any component, whatever its handlers read *)
(* and save, on every set of workers and every database: a row that no two *)
(* requests had in hand at once is, for the request that has it, as it was *)
(* read, and its save() leaves there exactly what the handler computed. So *)
(* a property of such rows can be proved handler by handler, as if one ran *)
(* after the other.                                                        *)
(***************************************************************************)
EXTENDS Requests, SequenceTheorems, TLAPS

\* What becomes of a row as it is read, when an object is saved to it.
Updated(row, object) ==
    IF row.status = "absent" THEN object
    ELSE [f \in DOMAIN row |-> IF f \in DOMAIN object THEN object[f] ELSE row[f]]

(***************************************************************************)
(* Of the tables, `loose` are those with rows that a handler saves without *)
(* having them in hand, `lasting` those whose rows are never deleted.      *)
(***************************************************************************)
ObjectFits(rows, d, o, lasting) ==
    /\ "table" \in DOMAIN o => o.table = rows[d].table
    /\ Rowed(o) \/ (rows[d].status # "absent" /\ rows[d].table \in lasting)
    /\ rows[d].table \in lasting /\ "status" \in DOMAIN o => o.status # "absent"

UnitFits(rows, u, D, loose, lasting) ==
    \A d \in DOMAIN u :
        /\ d \in DOMAIN rows
        /\ d \in D \/ (rows[d].table \in loose /\ rows[d].status # "absent")
        /\ ObjectFits(rows, d, u[d], lasting)

\* A row that is, for the request that has it, as it was read. An object of another
\* table that is not stored yet may be in memory with what it is going to say.
AsRead(rows, d, loose, lasting) ==
    rows[d].table \notin loose /\ (rows[d].table \in lasting \/ rows[d].status # "absent")

\* What the second SELECT of a save() found to be changed.
DirtyFits(rows, hot, r, loose) ==
    LET u == Head(r.todo)
    IN  /\ \A d \in DOMAIN u : r.dirty[d] \subseteq DOMAIN u[d]
        /\ \A d \in DOMAIN u \ hot :
               rows[d].table \notin loose => r.dirty[d] = ToWrite(u[d], rows[d])

RequestFits(rows, hot, r, loose, lasting) ==
    /\ {"pc", "base", "todo", "dirty", "then"} \subseteq DOMAIN r
    /\ DOMAIN r.base \subseteq DOMAIN rows
    /\ r.then \notin {"reload", "write"}
    /\ \E S : r.todo \in Seq(S)
    /\ r.pc \in {"reload", "write"} => r.todo # <<>>
    /\ \A i \in 1 .. Len(r.todo) : UnitFits(rows, r.todo[i], DOMAIN r.base, loose, lasting)
    /\ \A d \in DOMAIN r.base \ hot : AsRead(rows, d, loose, lasting) => r.base[d] = rows[d]
    /\ r.pc = "write" => DirtyFits(rows, hot, r, loose)

Apart(rows, hot, r, s, loose) ==
    \A d \in DOMAIN r.base \cap DOMAIN s.base :
        d \in hot \/ (rows[d].table \in loose /\ rows[d].status # "absent")

\* The invariant of every component.
Held(loose, lasting) ==
    /\ \A d \in DOMAIN db : Rowed(db[d])
    /\ DOMAIN req = Workers
    /\ \A p \in Workers : RequestFits(db, contended, req[p], loose, lasting)
    /\ \A p, q \in Workers : p # q => Apart(db, contended, req[p], req[q], loose)
    /\ \A d \in DOMAIN db : db[d].status = "absent" /\ db[d].table \in lasting =>
           d \notin contended

\* The rows a handler may read: those stored, and new ones.
Readable(D) == \A d \in D : d \in DOMAIN db /\ (Present(d) \/ d \in Free(db[d].table))

\* The transactions it may save, with the rows of D in hand.
Savable(txs, D, loose, lasting) ==
    /\ \E S : txs \in Seq(S)
    /\ \A i \in 1 .. Len(txs) : UnitFits(db, txs[i], D, loose, lasting)
-----------------------------------------------------------------------------
LEMMA IdleFits ==
    ASSUME NEW rows, NEW hot, NEW loose, NEW lasting
    PROVE  /\ RequestFits(rows, hot, Idle, loose, lasting)
           /\ \A r : Apart(rows, hot, Idle, r, loose) /\ Apart(rows, hot, r, Idle, loose)
  <1>1. /\ Idle.pc = "idle" /\ Idle.then = "idle" /\ Idle.todo = <<>> /\ DOMAIN Idle.base = {}
        /\ DOMAIN Idle = {"pc", "base", "todo", "dirty", "then"}
    BY DEF Idle, Nothing
  <1>2. <<>> \in Seq({}) /\ Len(<<>>) = 0 OBVIOUS
  <1>3. RequestFits(rows, hot, Idle, loose, lasting)
    <2> HIDE DEF Idle
    <2>1. \E S : Idle.todo \in Seq(S) BY <1>1, <1>2
    <2> QED BY <1>1, <1>2, <2>1 DEF RequestFits
  <1> QED BY <1>1, <1>3 DEF Apart

\* The request of a handler that has the rows of b in hand and saves txs.
LEMMA AtFits ==
    ASSUME NEW rows, NEW hot, NEW loose, NEW lasting, NEW b, NEW txs, NEW then,
           then \notin {"reload", "write"},
           DOMAIN b \subseteq DOMAIN rows,
           NEW S, txs \in Seq(S),
           \A i \in 1 .. Len(txs) : UnitFits(rows, txs[i], DOMAIN b, loose, lasting),
           \A d \in DOMAIN b \ hot : AsRead(rows, d, loose, lasting) => b[d] = rows[d]
    PROVE  /\ RequestFits(rows, hot, At(b, txs, then), loose, lasting)
           /\ DOMAIN At(b, txs, then).base \subseteq DOMAIN b
  <1>1. CASE txs = <<>> /\ then = "idle"
    <2>1. At(b, txs, then) = Idle BY <1>1 DEF At
    <2>2. DOMAIN Idle.base = {} BY DEF Idle, Nothing
    <2> QED BY <2>1, <2>2, IdleFits
  <1>2. CASE ~(txs = <<>> /\ then = "idle")
    <2> DEFINE r == At(b, txs, then)
    <2>1. /\ r.pc = IF txs = <<>> THEN then ELSE "reload"
          /\ r.base = b /\ r.todo = txs /\ r.then = then
          /\ DOMAIN r = {"pc", "base", "todo", "dirty", "then"}
      BY <1>2 DEF At
    <2> HIDE DEF r
    <2>2. r.pc \in {"reload", "write"} => r.todo # <<>> BY <2>1
    <2>3. r.pc # "write" BY <2>1
    <2>4. RequestFits(rows, hot, r, loose, lasting)
      BY <2>1, <2>2, <2>3 DEF RequestFits
    <2> QED BY <2>1, <2>4 DEF r
  <1> QED BY <1>1, <1>2

\* Objects and transactions fit as long as rows keep their table and last.
LEMMA UnitStillFits ==
    ASSUME NEW rows, NEW after, NEW u, NEW D, NEW E, NEW loose, NEW lasting,
           loose \subseteq lasting,
           UnitFits(rows, u, D, loose, lasting), D \subseteq E,
           DOMAIN after = DOMAIN rows,
           \A d \in DOMAIN rows : after[d].table = rows[d].table,
           \A d \in DOMAIN rows : rows[d].table \in lasting /\ rows[d].status # "absent"
                                      => after[d].status # "absent"
    PROVE  UnitFits(after, u, E, loose, lasting)
  BY DEF UnitFits, ObjectFits

\* With more rows contended, the rest of a request fits all the more.
LEMMA HotterFits ==
    ASSUME NEW rows, NEW hot, NEW hotter, NEW r, NEW loose, NEW lasting,
           RequestFits(rows, hot, r, loose, lasting), hot \subseteq hotter
    PROVE  RequestFits(rows, hotter, r, loose, lasting)
  BY DEF RequestFits, DirtyFits

\* A step that gives one worker another request.
LEMMA OneRequestHeld ==
    ASSUME NEW loose, NEW lasting, Held(loose, lasting), NEW p \in Workers, NEW r,
           db' = db, req' = [req EXCEPT ![p] = r], contended \subseteq contended',
           RequestFits(db, contended', r, loose, lasting),
           \A q \in Workers \ {p} : Apart(db, contended', r, req[q], loose),
           \A d \in DOMAIN db : db[d].status = "absent" /\ db[d].table \in lasting =>
               d \notin contended'
    PROVE  Held(loose, lasting)'
  <1>1. \A q \in Workers : req'[q] = IF q = p THEN r ELSE req[q] BY DEF Held
  <1>2. DOMAIN req' = Workers BY DEF Held
  <1>3. \A q \in Workers : RequestFits(db, contended', req'[q], loose, lasting)
    BY <1>1, HotterFits DEF Held
  <1>4. \A q, s \in Workers : q # s => Apart(db, contended', req'[q], req'[s], loose)
    BY <1>1 DEF Held, Apart
  <1> QED BY <1>2, <1>3, <1>4 DEF Held

\* Nothing new is contended.
LEMMA SharedRows ==
    ASSUME NEW p \in Workers, NEW D, Readable(D)
    PROVE  /\ D \subseteq DOMAIN db
           /\ \A d \in Shared(p, D) : Present(d)
           /\ \A q \in Workers \ {p}, d \in D : d \in DOMAIN req[q].base => d \in Shared(p, D)
  BY DEF Readable, Shared, Free

\* The id a handler takes for a new row.
LEMMA NewRow ==
    ASSUME NEW t, Free(t) # {}
    PROVE  /\ New(t) \in Free(t) /\ New(t) \in DOMAIN db
           /\ db[New(t)].table = t /\ db[New(t)].status = "absent"
  <1>1. New(t) \in Free(t) BY DEF New
  <1> QED BY <1>1 DEF Free, IdsOf, Present

\* A handler with one transaction.
LEMMA OneSavable ==
    ASSUME NEW D, NEW loose, NEW lasting, NEW u, UnitFits(db, u, D, loose, lasting)
    PROVE  /\ Savable(<<u>>, D, loose, lasting)
           /\ Len(<<u>>) = 1 /\ <<u>>[1] = u
  <1>1. <<u>> \in Seq({u}) /\ Len(<<u>>) = 1 /\ <<u>>[1] = u OBVIOUS
  <1> DEFINE txs == <<u>>
  <1>2. \A i \in 1 .. Len(txs) : UnitFits(db, txs[i], D, loose, lasting) BY <1>1
  <1>3. \E S : txs \in Seq(S) BY <1>1
  <1> QED BY <1>1, <1>2, <1>3 DEF Savable

LEMMA Appended ==
    ASSUME NEW S, NEW s \in Seq(S), NEW u \in S
    PROVE  /\ Append(s, u) \in Seq(S) /\ Len(Append(s, u)) = Len(s) + 1
           /\ \A i \in 1 .. Len(s) : Append(s, u)[i] = s[i]
           /\ Append(s, u)[Len(s) + 1] = u
  BY AppendProperties

\* A handler with two transactions, the second appended.
LEMMA TwoUnits ==
    ASSUME NEW v, NEW u
    PROVE  /\ \E S : Append(<<v>>, u) \in Seq(S)
           /\ Len(Append(<<v>>, u)) = 2
           /\ \A i \in 1 .. 2 : Append(<<v>>, u)[i] = IF i = 1 THEN v ELSE u
  <1>1. PICK S : v \in S /\ u \in S
    <2>1. v \in {v, u} /\ u \in {v, u} OBVIOUS
    <2> QED BY <2>1
  <1>2. PICK s \in Seq(S) : s = <<v>> /\ Len(s) = 1 /\ s[1] = v
    <2>1. <<v>> \in Seq(S) /\ Len(<<v>>) = 1 /\ <<v>>[1] = v BY <1>1
    <2> QED BY <2>1
  <1>3. /\ Append(s, u) \in Seq(S) /\ Len(Append(s, u)) = Len(s) + 1
        /\ \A i \in 1 .. Len(s) : Append(s, u)[i] = s[i]
        /\ Append(s, u)[Len(s) + 1] = u
    BY <1>1, Appended
  <1>4. \A i \in 1 .. 2 : Append(s, u)[i] = IF i = 1 THEN v ELSE u
    <2>1. \A i \in 1 .. 2 : i = 1 \/ i = 2 OBVIOUS
    <2> QED BY <1>2, <1>3, <2>1
  <1> QED BY <1>2, <1>3, <1>4

\* One with none: it reads, to go on later.
LEMMA NoneSavable ==
    ASSUME NEW D, NEW loose, NEW lasting
    PROVE  Savable(<<>>, D, loose, lasting) /\ Len(<<>>) = 0
  <1>1. <<>> \in Seq({}) /\ Len(<<>>) = 0 OBVIOUS
  <1> DEFINE txs == <<>>
  <1>2. \A i \in 1 .. Len(txs) : UnitFits(db, txs[i], D, loose, lasting) BY <1>1
  <1>3. \E S : txs \in Seq(S) BY <1>1
  <1> QED BY <1>1, <1>2, <1>3 DEF Savable

LEMMA BeginHeld ==
    ASSUME NEW loose, NEW lasting, Held(loose, lasting), NEW p \in Workers,
           NEW D, Readable(D), NEW txs, Savable(txs, D, loose, lasting),
           NEW then, then \notin {"reload", "write"}, Begin(p, D, txs, then)
    PROVE  Held(loose, lasting)'
  <1> DEFINE b == [d \in D |-> db[d]]
             r == At(b, txs, then)
  <1>1. contended' = contended \cup Shared(p, D) /\ db' = db /\ req' = [req EXCEPT ![p] = r]
    BY DEF Begin
  <1>2. PICK S : txs \in Seq(S) BY DEF Savable
  <1>3. /\ RequestFits(db, contended', r, loose, lasting)
        /\ DOMAIN r.base \subseteq D
    <2>1. DOMAIN b = D /\ \A d \in D : b[d] = db[d] OBVIOUS
    <2> HIDE DEF b
    <2>2. D \subseteq DOMAIN db BY SharedRows
    <2>3. \A i \in 1 .. Len(txs) : UnitFits(db, txs[i], D, loose, lasting) BY DEF Savable
    <2>4. \A d \in DOMAIN b \ contended' : AsRead(db, d, loose, lasting) => b[d] = db[d] BY <2>1
    <2> QED BY <1>2, <2>1, <2>2, <2>3, <2>4, AtFits
  <1> HIDE DEF r
  <1>4. \A q \in Workers \ {p} : Apart(db, contended', r, req[q], loose)
    BY <1>1, <1>3, SharedRows DEF Apart
  <1>5. \A d \in DOMAIN db : db[d].status = "absent" /\ db[d].table \in lasting =>
            d \notin contended'
    BY <1>1, SharedRows DEF Held, Present
  <1> QED BY <1>1, <1>3, <1>4, <1>5, OneRequestHeld

LEMMA GoOnHeld ==
    ASSUME NEW loose, NEW lasting, Held(loose, lasting), NEW p \in Workers,
           NEW D, Readable(D), NEW txs, Savable(txs, D \cup DOMAIN req[p].base, loose, lasting),
           NEW pc, NEW then, then \notin {"reload", "write"}, GoOn(p, pc, D, txs, then)
    PROVE  Held(loose, lasting)'
  <1> DEFINE b == And([d \in D |-> db[d]], req[p].base)
             r == At(b, txs, then)
  <1>1. contended' = contended \cup Shared(p, D) /\ db' = db /\ req' = [req EXCEPT ![p] = r]
    BY DEF GoOn
  <1>2. PICK S : txs \in Seq(S) BY DEF Savable
  <1>3. /\ DOMAIN b = D \cup DOMAIN req[p].base
        /\ \A d \in DOMAIN b : b[d] = IF d \in D THEN db[d] ELSE req[p].base[d]
    BY DEF And
  <1> HIDE DEF b
  <1>4. RequestFits(db, contended, req[p], loose, lasting) BY DEF Held
  <1>5. /\ RequestFits(db, contended', r, loose, lasting)
        /\ DOMAIN r.base \subseteq DOMAIN b
    <2>1. DOMAIN b \subseteq DOMAIN db BY <1>3, <1>4, SharedRows DEF RequestFits
    <2>2. \A d \in DOMAIN b \ contended' : AsRead(db, d, loose, lasting) => b[d] = db[d]
      BY <1>1, <1>3, <1>4 DEF RequestFits
    <2>3. \A i \in 1 .. Len(txs) : UnitFits(db, txs[i], DOMAIN b, loose, lasting)
      BY <1>3 DEF Savable
    <2> QED BY <1>2, <2>1, <2>2, <2>3, AtFits
  <1> HIDE DEF r
  <1>6. \A q \in Workers \ {p} : Apart(db, contended', r, req[q], loose)
    <2> SUFFICES ASSUME NEW q \in Workers \ {p},
                        NEW d \in DOMAIN r.base \cap DOMAIN req[q].base
                 PROVE  d \in contended' \/ (db[d].table \in loose /\ db[d].status # "absent")
      BY DEF Apart
    <2>1. CASE d \in D BY <1>1, <2>1, SharedRows
    <2>2. CASE d \in DOMAIN req[p].base
      <3>1. Apart(db, contended, req[p], req[q], loose) BY DEF Held
      <3> QED BY <1>1, <2>2, <3>1 DEF Apart
    <2> QED BY <1>3, <1>5, <2>1, <2>2
  <1>7. \A d \in DOMAIN db : db[d].status = "absent" /\ db[d].table \in lasting =>
            d \notin contended'
    BY <1>1, SharedRows DEF Held, Present
  <1> QED BY <1>1, <1>5, <1>6, <1>7, OneRequestHeld
-----------------------------------------------------------------------------
(* The statements.                                                         *)

LEMMA ReloadHeld ==
    ASSUME NEW loose, NEW lasting, Held(loose, lasting), NEW p \in Workers, Reload(p)
    PROVE  Held(loose, lasting)'
  <1> DEFINE u == Unit(p)
             dirty == [d \in DOMAIN u |-> ToWrite(u[d], db[d])]
             r == [req[p] EXCEPT !.pc = "write", !.dirty = dirty]
  <1>1. RequestFits(db, contended, req[p], loose, lasting) BY DEF Held
  <1>2. req' = [req EXCEPT ![p] = r] BY DEF Reload, Held
  <1>3. /\ DOMAIN r = DOMAIN req[p] /\ r.pc = "write" /\ r.dirty = dirty
        /\ r.base = req[p].base /\ r.todo = req[p].todo /\ r.then = req[p].then
    BY <1>1 DEF RequestFits
  <1>4. Head(r.todo) = u BY <1>3 DEF Unit
  <1>5. DirtyFits(db, contended, r, loose)
    <2>1. \A o, row : ToWrite(o, row) \subseteq DOMAIN o BY DEF ToWrite, Dirty
    <2> HIDE DEF r, u
    <2> QED BY <1>3, <1>4, <2>1 DEF DirtyFits
  <1>6. req[p].todo # <<>> BY <1>1 DEF Reload, RequestFits
  <1> HIDE DEF r
  <1>7. RequestFits(db, contended, r, loose, lasting)
    BY <1>1, <1>3, <1>5, <1>6 DEF RequestFits
  <1>8. \A q \in Workers \ {p} : Apart(db, contended, r, req[q], loose)
    BY <1>3 DEF Held, Apart
  <1>9. db' = db /\ contended' = contended BY DEF Reload
  <1>10. \A d \in DOMAIN db : db[d].status = "absent" /\ db[d].table \in lasting =>
             d \notin contended'
    BY <1>9 DEF Held
  <1> QED BY <1>2, <1>7, <1>8, <1>9, <1>10, OneRequestHeld

LEMMA NextUnit ==
    ASSUME NEW rows, NEW hot, NEW r, NEW loose, NEW lasting,
           RequestFits(rows, hot, r, loose, lasting), r.pc \in {"reload", "write"}
    PROVE  /\ UnitFits(rows, Head(r.todo), DOMAIN r.base, loose, lasting)
           /\ \E S : Tail(r.todo) \in Seq(S)
           /\ Len(Tail(r.todo)) = Len(r.todo) - 1 /\ Len(r.todo) \in Nat \ {0}
           /\ \A i \in 1 .. Len(Tail(r.todo)) : Tail(r.todo)[i] = r.todo[i + 1]
           /\ Head(r.todo) = r.todo[1]
  <1>1. PICK S : r.todo \in Seq(S) BY DEF RequestFits
  <1>2. r.todo # <<>> BY DEF RequestFits
  <1>3. Tail(r.todo) \in Seq(S) /\ Len(Tail(r.todo)) = Len(r.todo) - 1
        /\ \A i \in 1 .. Len(Tail(r.todo)) : Tail(r.todo)[i] = r.todo[i + 1]
    BY <1>1, <1>2, HeadTailProperties
  <1>4. Len(r.todo) \in Nat \ {0} BY <1>1, <1>2, EmptySeq
  <1>5. Head(r.todo) = r.todo[1] BY <1>1, <1>2
  <1>6. UnitFits(rows, r.todo[1], DOMAIN r.base, loose, lasting) BY <1>4 DEF RequestFits
  <1> QED BY <1>3, <1>4, <1>5, <1>6

\* What a save() leaves of the row and of the object.
LEMMA Mixed ==
    ASSUME NEW row, NEW o, NEW dirty, dirty \subseteq DOMAIN o
    PROVE  LET after == Merge(row, o, dirty)
           IN  /\ DOMAIN after = DOMAIN row
               /\ \A f \in DOMAIN row :
                      after[f] = row[f] \/ (f \in DOMAIN o /\ after[f] = o[f])
  BY DEF Merge

\* The row that save() has just read has all columns of the object.
LEMMA Unmixed ==
    ASSUME NEW row, NEW o, row.status # "absent"
    PROVE  Merge(row, o, ToWrite(o, row)) = Updated(row, o)
  BY DEF Merge, ToWrite, Dirty, Updated

LEMMA WriteSaves ==
    ASSUME NEW loose, NEW lasting, Held(loose, lasting), NEW p \in Workers, Write(p)
    PROVE  LET u == Unit(p)
           IN  /\ UnitFits(db, u, DOMAIN req[p].base, loose, lasting)
               /\ DOMAIN u \subseteq DOMAIN db /\ DOMAIN db' = DOMAIN db
               /\ \A d \in DOMAIN db \ DOMAIN u : db'[d] = db[d]
               /\ \A d \in DOMAIN u : db[d].status = "absent" => db'[d] = u[d]
               /\ \A d \in DOMAIN u : db[d].status # "absent" =>
                      /\ DOMAIN db'[d] = DOMAIN db[d]
                      /\ \A f \in DOMAIN db[d] : db'[d][f] = db[d][f]
                                  \/ (f \in DOMAIN u[d] /\ db'[d][f] = u[d][f])
               /\ \A d \in DOMAIN u \ contended : db[d].table \notin loose =>
                      db'[d] = Updated(db[d], u[d])
  <1> DEFINE u == Unit(p)
             saved == [d \in DOMAIN u |-> Saved(p, d)]
  <1>1. RequestFits(db, contended, req[p], loose, lasting) BY DEF Held
  <1>2. req[p].pc = "write" /\ db' = And(saved, db) BY DEF Write
  <1>3. UnitFits(db, u, DOMAIN req[p].base, loose, lasting) BY <1>1, <1>2, NextUnit DEF Unit
  <1>4. DirtyFits(db, contended, req[p], loose) BY <1>1, <1>2 DEF RequestFits
  <1>5. DOMAIN u \subseteq DOMAIN db BY <1>3 DEF UnitFits
  <1>6. /\ DOMAIN db' = DOMAIN db
        /\ \A d \in DOMAIN db : db'[d] = IF d \in DOMAIN u THEN Saved(p, d) ELSE db[d]
    BY <1>2, <1>5 DEF And
  <1>7. \A d \in DOMAIN u : req[p].dirty[d] \subseteq DOMAIN u[d] BY <1>4 DEF DirtyFits, Unit
  <1>8. \A d \in DOMAIN u : db[d].status = "absent" => db'[d] = u[d]
    BY <1>5, <1>6 DEF Saved, Present
  <1>9. \A d \in DOMAIN u : db[d].status # "absent" => db'[d] = Merge(db[d], u[d], req[p].dirty[d])
    BY <1>5, <1>6 DEF Saved, Present
  <1>10. ASSUME NEW d \in DOMAIN u \ contended, db[d].table \notin loose
         PROVE  db'[d] = Updated(db[d], u[d])
    <2>1. req[p].dirty[d] = ToWrite(u[d], db[d]) BY <1>4, <1>10 DEF DirtyFits, Unit
    <2>2. CASE db[d].status = "absent" BY <1>8, <2>2 DEF Updated
    <2>3. CASE db[d].status # "absent" BY <1>9, <2>1, <2>3, Unmixed
    <2> QED BY <2>2, <2>3
  <1>11. ASSUME NEW d \in DOMAIN u, db[d].status # "absent"
         PROVE  /\ DOMAIN db'[d] = DOMAIN db[d]
                /\ \A f \in DOMAIN db[d] : db'[d][f] = db[d][f]
                            \/ (f \in DOMAIN u[d] /\ db'[d][f] = u[d][f])
    <2>1. db'[d] = Merge(db[d], u[d], req[p].dirty[d]) BY <1>9, <1>11
    <2> QED BY <1>7, <2>1, Mixed
  <1> HIDE DEF u
  <1> QED BY <1>3, <1>5, <1>6, <1>8, <1>10, <1>11 DEF u

\* Rows keep their table, and those that last stay.
LEMMA WriteKeeps ==
    ASSUME NEW loose, NEW lasting, Held(loose, lasting), NEW p \in Workers, Write(p)
    PROVE  /\ \A d \in DOMAIN db : Rowed(db'[d]) /\ db'[d].table = db[d].table
           /\ \A d \in DOMAIN db : db[d].table \in lasting /\ db[d].status # "absent"
                                      => db'[d].status # "absent"
           /\ \A d \in DOMAIN Unit(p) : db[d].table \in lasting => db'[d].status # "absent"
  <1> DEFINE u == Unit(p)
  <1>1. ASSUME NEW d \in DOMAIN db
        PROVE  /\ Rowed(db'[d]) /\ db'[d].table = db[d].table
               /\ db[d].table \in lasting /\ db[d].status # "absent" => db'[d].status # "absent"
               /\ d \in DOMAIN u /\ db[d].table \in lasting => db'[d].status # "absent"
    <2>1. Rowed(db[d]) BY DEF Held
    <2>2. CASE d \notin DOMAIN u BY <2>1, <2>2, WriteSaves
    <2>3. CASE d \in DOMAIN u
      <3>1. ObjectFits(db, d, u[d], lasting) BY <2>3, WriteSaves DEF UnitFits
      <3>2. CASE db[d].status = "absent"
        <4>1. db'[d] = u[d] BY <2>3, <3>2, WriteSaves
        <4> QED BY <3>1, <3>2, <4>1 DEF ObjectFits, Rowed
      <3>3. CASE db[d].status # "absent"
        <4>1. /\ DOMAIN db'[d] = DOMAIN db[d]
              /\ \A f \in DOMAIN db[d] : db'[d][f] = db[d][f]
                                  \/ (f \in DOMAIN u[d] /\ db'[d][f] = u[d][f])
          BY <2>3, <3>3, WriteSaves
        <4> HIDE DEF u
        <4> QED BY <2>1, <3>1, <3>3, <4>1 DEF ObjectFits, Rowed
      <3> QED BY <3>2, <3>3
    <2> QED BY <2>2, <2>3
  <1>2. DOMAIN u \subseteq DOMAIN db BY WriteSaves
  <1> QED BY <1>1, <1>2

\* The other requests have in hand what they had, and it is as they read it.
LEMMA WriteSpares ==
    ASSUME NEW loose, NEW lasting, Held(loose, lasting), NEW p \in Workers, Write(p),
           NEW q \in Workers \ {p}
    PROVE  /\ req'[q] = req[q]
           /\ \A d \in DOMAIN req[q].base \ contended : db[d].table \notin loose => db'[d] = db[d]
           /\ \A i \in 1 .. Len(req[q].todo) : \A d \in DOMAIN req[q].todo[i] \ contended :
                  db[d].table \notin loose => db'[d] = db[d]
  <1>1. req'[q] = req[q] BY DEF Write, Held
  <1>2. ASSUME NEW d \in DOMAIN req[q].base \ contended, db[d].table \notin loose
        PROVE  db'[d] = db[d]
    <2>1. d \in DOMAIN db BY DEF Held, RequestFits
    <2>2. d \notin DOMAIN req[p].base BY <1>2 DEF Held, Apart
    <2>3. d \notin DOMAIN Unit(p) BY <1>2, <2>2, WriteSaves DEF UnitFits
    <2> QED BY <2>1, <2>3, WriteSaves
  <1>3. \A i \in 1 .. Len(req[q].todo) : UnitFits(db, req[q].todo[i], DOMAIN req[q].base, loose, lasting)
    BY DEF Held, RequestFits
  <1> QED BY <1>1, <1>2, <1>3 DEF UnitFits

\* Nor is a new row of theirs written by another.
LEMMA WriteSparesNew ==
    ASSUME NEW loose, NEW lasting, Held(loose, lasting), NEW p \in Workers, Write(p),
           NEW q \in Workers \ {p}
    PROVE  /\ \A d \in DOMAIN req[q].base : db[d].table \in lasting /\ db[d].status = "absent" =>
                  db'[d] = db[d]
           /\ \A i \in 1 .. Len(req[q].todo) : \A d \in DOMAIN req[q].todo[i] :
                  db[d].table \in lasting /\ db[d].status = "absent" => db'[d] = db[d]
  <1>1. ASSUME NEW d \in DOMAIN req[q].base, db[d].table \in lasting, db[d].status = "absent"
        PROVE  db'[d] = db[d]
    <2>1. d \in DOMAIN db /\ d \notin contended BY <1>1 DEF Held, RequestFits
    <2>2. d \notin DOMAIN req[p].base BY <1>1, <2>1 DEF Held, Apart
    <2>3. d \notin DOMAIN Unit(p) BY <1>1, <2>2, WriteSaves DEF UnitFits
    <2> QED BY <2>1, <2>3, WriteSaves
  <1>2. \A i \in 1 .. Len(req[q].todo) : UnitFits(db, req[q].todo[i], DOMAIN req[q].base, loose, lasting)
    BY DEF Held, RequestFits
  <1> QED BY <1>1, <1>2 DEF UnitFits

LEMMA WriteHeld ==
    ASSUME NEW loose, NEW lasting, loose \subseteq lasting, Held(loose, lasting),
           NEW p \in Workers, Write(p)
    PROVE  Held(loose, lasting)'
  <1> DEFINE u     == Unit(p)
             saved == [d \in DOMAIN u |-> Saved(p, d)]
             b     == And(saved, req[p].base)
             txs   == Tail(req[p].todo)
             r     == At(b, txs, req[p].then)
  <1>1. RequestFits(db, contended, req[p], loose, lasting) BY DEF Held
  <1>2. /\ req[p].pc = "write" /\ req' = [req EXCEPT ![p] = r] /\ contended' = contended
    BY DEF Write
  <1>3. /\ UnitFits(db, u, DOMAIN req[p].base, loose, lasting)
        /\ DOMAIN u \subseteq DOMAIN db /\ DOMAIN db' = DOMAIN db
        /\ \A d \in DOMAIN db \ DOMAIN u : db'[d] = db[d]
    BY WriteSaves
  <1>4. /\ \A d \in DOMAIN db : Rowed(db'[d]) /\ db'[d].table = db[d].table
        /\ \A d \in DOMAIN db : db[d].table \in lasting /\ db[d].status # "absent"
                                   => db'[d].status # "absent"
        /\ \A d \in DOMAIN u : db[d].table \in lasting => db'[d].status # "absent"
    BY WriteKeeps
  <1>5. /\ DOMAIN b = DOMAIN u \cup DOMAIN req[p].base
        /\ \A d \in DOMAIN b : b[d] = IF d \in DOMAIN u THEN Saved(p, d) ELSE req[p].base[d]
    BY DEF And
  <1>6. \A d \in DOMAIN u : Saved(p, d) = db'[d]
    BY <1>3 DEF Write, And
  <1> HIDE DEF b
  <1>7. /\ RequestFits(db', contended, r, loose, lasting)
        /\ DOMAIN r.base \subseteq DOMAIN b
    <2>1. PICK S : txs \in Seq(S) BY <1>1, <1>2, NextUnit
    <2>2. \A i \in 1 .. Len(txs) : UnitFits(db', txs[i], DOMAIN b, loose, lasting)
      <3> SUFFICES ASSUME NEW i \in 1 .. Len(txs)
                   PROVE  UnitFits(db', txs[i], DOMAIN b, loose, lasting)
        OBVIOUS
      <3>1. txs[i] = req[p].todo[i + 1] /\ i + 1 \in 1 .. Len(req[p].todo)
        BY <1>1, <1>2, NextUnit
      <3>2. UnitFits(db, txs[i], DOMAIN req[p].base, loose, lasting)
        BY <1>1, <3>1 DEF RequestFits
      <3>3. DOMAIN req[p].base \subseteq DOMAIN b BY <1>5
      <3> HIDE DEF txs
      <3> QED BY <1>3, <1>4, <3>2, <3>3, UnitStillFits
    <2>3. DOMAIN b \subseteq DOMAIN db' BY <1>1, <1>3, <1>5 DEF RequestFits
    <2>4. ASSUME NEW d \in DOMAIN b \ contended, AsRead(db', d, loose, lasting)
          PROVE  b[d] = db'[d]
      <3>1. CASE d \in DOMAIN u BY <1>5, <1>6, <3>1
      <3>2. CASE d \notin DOMAIN u
        <4>1. d \in DOMAIN req[p].base /\ d \in DOMAIN db BY <1>3, <1>5, <2>3, <3>2
        <4>2. AsRead(db, d, loose, lasting) BY <1>3, <1>4, <2>4, <3>2, <4>1 DEF AsRead
        <4>3. req[p].base[d] = db[d] BY <1>1, <2>4, <4>1, <4>2 DEF RequestFits
        <4> QED BY <1>3, <1>5, <3>2, <4>1, <4>3
      <3> QED BY <3>1, <3>2
    <2> DEFINE then == req[p].then
    <2>5. then \notin {"reload", "write"} BY <1>1 DEF RequestFits
    <2>6. \A d \in DOMAIN b \ contended : AsRead(db', d, loose, lasting) => b[d] = db'[d] BY <2>4
    <2> HIDE DEF txs, then
    <2>7. /\ RequestFits(db', contended, At(b, txs, then), loose, lasting)
          /\ DOMAIN At(b, txs, then).base \subseteq DOMAIN b
      BY <2>1, <2>2, <2>3, <2>5, <2>6, AtFits
    <2> QED BY <2>7 DEF then
  <1> HIDE DEF r
  <1>8. \A q \in Workers \ {p} : RequestFits(db', contended, req[q], loose, lasting)
    <2> SUFFICES ASSUME NEW q \in Workers \ {p}
                 PROVE  RequestFits(db', contended, req[q], loose, lasting)
      OBVIOUS
    <2>1. RequestFits(db, contended, req[q], loose, lasting) BY DEF Held
    <2>2. \A i \in 1 .. Len(req[q].todo) : UnitFits(db', req[q].todo[i], DOMAIN req[q].base, loose, lasting)
      BY <1>3, <1>4, <2>1, UnitStillFits DEF RequestFits
    <2>3. \A d \in DOMAIN req[q].base \ contended :
              AsRead(db', d, loose, lasting) => req[q].base[d] = db'[d]
      <3> SUFFICES ASSUME NEW d \in DOMAIN req[q].base \ contended, AsRead(db', d, loose, lasting)
                   PROVE  req[q].base[d] = db'[d]
        OBVIOUS
      <3>1. d \in DOMAIN db BY <2>1 DEF RequestFits
      <3>2. db'[d] = db[d] BY <1>4, <3>1, WriteSpares DEF AsRead
      <3> QED BY <2>1, <3>2 DEF RequestFits, AsRead
    <2>4. ASSUME req[q].pc = "write" PROVE DirtyFits(db', contended, req[q], loose)
      <3> DEFINE v == Head(req[q].todo)
      <3>1. DirtyFits(db, contended, req[q], loose) BY <2>1, <2>4 DEF RequestFits
      <3>2. v = req[q].todo[1] /\ Len(req[q].todo) \in Nat \ {0} BY <2>1, <2>4, NextUnit
      <3>3. UnitFits(db, v, DOMAIN req[q].base, loose, lasting) BY <2>1, <2>4, NextUnit
      <3>4. \A d \in DOMAIN v \ contended : db[d].table \notin loose => db'[d] = db[d]
        BY <3>2, WriteSpares
      <3>5. \A d \in DOMAIN v : d \in DOMAIN db BY <3>3 DEF UnitFits
      <3> QED BY <1>4, <3>1, <3>4, <3>5 DEF DirtyFits
    <2> QED BY <1>3, <2>1, <2>2, <2>3, <2>4 DEF RequestFits
  <1>9. ASSUME NEW q \in Workers \ {p}
        PROVE  Apart(db', contended, r, req[q], loose) /\ Apart(db', contended, req[q], r, loose)
    <2> SUFFICES ASSUME NEW d \in DOMAIN r.base \cap DOMAIN req[q].base, d \notin contended
                 PROVE  db'[d].table \in loose /\ db'[d].status # "absent"
      BY DEF Apart
    <2>1. CASE d \in DOMAIN req[p].base
      <3>1. db[d].table \in loose /\ db[d].status # "absent" BY <2>1 DEF Held, Apart
      <3>2. d \in DOMAIN db BY <1>1, <2>1 DEF RequestFits
      <3> QED BY <1>4, <3>1, <3>2
    <2>2. CASE d \notin DOMAIN req[p].base
      <3>1. d \in DOMAIN u BY <1>5, <1>7, <2>2
      <3>2. d \in DOMAIN db /\ db[d].table \in loose /\ db[d].status # "absent"
        BY <1>3, <2>2, <3>1 DEF UnitFits
      <3> QED BY <1>4, <3>2
    <2> QED BY <2>1, <2>2
  <1>10. ASSUME NEW q \in Workers \ {p}, NEW s \in Workers \ {p}, q # s
         PROVE  Apart(db', contended, req[q], req[s], loose)
    <2>1. Apart(db, contended, req[q], req[s], loose) BY <1>10 DEF Held
    <2>2. DOMAIN req[q].base \subseteq DOMAIN db BY DEF Held, RequestFits
    <2> QED BY <1>4, <2>1, <2>2 DEF Apart
  <1>11. \A d \in DOMAIN db' : db'[d].status = "absent" /\ db'[d].table \in lasting =>
             d \notin contended
    BY <1>3, <1>4 DEF Held
  <1>12. \A q \in Workers : req'[q] = IF q = p THEN r ELSE req[q] BY <1>2 DEF Held
  <1>13. DOMAIN req' = Workers BY <1>2 DEF Held
  <1>14. \A q \in Workers : RequestFits(db', contended', req'[q], loose, lasting)
    BY <1>2, <1>7, <1>8, <1>12
  <1>15. \A q, s \in Workers : q # s => Apart(db', contended', req'[q], req'[s], loose)
    BY <1>2, <1>9, <1>10, <1>12
  <1> QED BY <1>2, <1>3, <1>4, <1>11, <1>13, <1>14, <1>15 DEF Held

\* A row of a table that does not last is changed while only one request has it.
LEMMA RowHeld ==
    ASSUME NEW loose, NEW lasting, loose \subseteq lasting, Held(loose, lasting),
           NEW j \in DOMAIN db, db[j].table \notin lasting, NEW row, Rowed(row),
           row.table = db[j].table, db' = [db EXCEPT ![j] = row], contended' = contended,
           DOMAIN req' = Workers,
           \A q \in Workers :
               \/ req'[q] = req[q] /\ j \notin DOMAIN req[q].base
               \/ /\ RequestFits(db', contended, req'[q], loose, lasting)
                  /\ \A s \in Workers \ {q} : req'[s] = req[s] /\ j \notin DOMAIN req[s].base
                  /\ \A s \in Workers \ {q} : /\ Apart(db', contended, req'[q], req[s], loose)
                                              /\ Apart(db', contended, req[s], req'[q], loose)
    PROVE  Held(loose, lasting)'
  <1>1. /\ DOMAIN db' = DOMAIN db /\ db'[j] = row
        /\ \A d \in DOMAIN db \ {j} : db'[d] = db[d]
    OBVIOUS
  <1>2. /\ \A d \in DOMAIN db : Rowed(db'[d]) /\ db'[d].table = db[d].table
        /\ \A d \in DOMAIN db : db[d].table \in lasting => db'[d] = db[d]
    BY <1>1 DEF Held
  <1>3. ASSUME NEW q \in Workers, j \notin DOMAIN req[q].base
        PROVE  RequestFits(db', contended, req[q], loose, lasting)
    <2>1. RequestFits(db, contended, req[q], loose, lasting) BY DEF Held
    <2>2. \A i \in 1 .. Len(req[q].todo) : UnitFits(db', req[q].todo[i], DOMAIN req[q].base, loose, lasting)
      BY <1>1, <1>2, <2>1, UnitStillFits DEF RequestFits
    <2>3. \A d \in DOMAIN req[q].base : db'[d] = db[d] BY <1>1, <1>3, <2>1 DEF RequestFits
    <2>4. ASSUME req[q].pc = "write" PROVE DirtyFits(db', contended, req[q], loose)
      <3> DEFINE v == Head(req[q].todo)
      <3>1. DirtyFits(db, contended, req[q], loose) BY <2>1, <2>4 DEF RequestFits
      <3>2. UnitFits(db, v, DOMAIN req[q].base, loose, lasting) BY <2>1, <2>4, NextUnit
      <3>3. \A d \in DOMAIN v : d \in DOMAIN db /\ (db[d].table \notin loose => db'[d] = db[d])
        BY <2>3, <3>2 DEF UnitFits
      <3> QED BY <1>2, <3>1, <3>3 DEF DirtyFits
    <2>5. \A d \in DOMAIN req[q].base \ contended :
              AsRead(db', d, loose, lasting) => req[q].base[d] = db'[d]
      BY <2>1, <2>3 DEF RequestFits, AsRead
    <2> QED BY <1>1, <2>1, <2>2, <2>4, <2>5 DEF RequestFits
  <1>4. \A q \in Workers : RequestFits(db', contended, req'[q], loose, lasting) BY <1>3
  <1>5. ASSUME NEW q \in Workers, NEW s \in Workers, q # s
        PROVE  Apart(db', contended, req'[q], req'[s], loose)
    <2>1. CASE req'[q] = req[q] /\ req'[s] = req[s]
      <3>1. Apart(db, contended, req[q], req[s], loose) BY <1>5 DEF Held
      <3>2. DOMAIN req[q].base \subseteq DOMAIN db BY DEF Held, RequestFits
      <3> QED BY <1>2, <2>1, <3>1, <3>2 DEF Apart
    <2>2. CASE req'[q] # req[q] BY <1>5, <2>2
    <2>3. CASE req'[s] # req[s] BY <1>5, <2>3
    <2> QED BY <2>1, <2>2, <2>3
  <1>6. \A d \in DOMAIN db' : db'[d].status = "absent" /\ db'[d].table \in lasting =>
            d \notin contended
    BY <1>1, <1>2 DEF Held
  <1> QED BY <1>1, <1>2, <1>4, <1>5, <1>6 DEF Held

LEMMA LeaveHeld ==
    ASSUME NEW loose, NEW lasting, Held(loose, lasting), NEW p \in Workers, Leave(p)
    PROVE  Held(loose, lasting)'
  <1>1. RequestFits(db, contended, Idle, loose, lasting) BY IdleFits
  <1>2. \A q \in Workers \ {p} : Apart(db, contended, Idle, req[q], loose) BY IdleFits
  <1>3. req' = [req EXCEPT ![p] = Idle] /\ db' = db /\ contended' = contended BY DEF Leave
  <1>4. \A d \in DOMAIN db : db[d].status = "absent" /\ db[d].table \in lasting =>
            d \notin contended'
    BY <1>3 DEF Held
  <1> QED BY <1>1, <1>2, <1>3, <1>4, OneRequestHeld

LEMMA StatementsHeld ==
    ASSUME NEW loose, NEW lasting, loose \subseteq lasting, Held(loose, lasting),
           NEW p \in Workers, Statements(p)
    PROVE  Held(loose, lasting)'
  BY ReloadHeld, WriteHeld, LeaveHeld DEF Statements, Refused, Lost

LEMMA StillHeld ==
    ASSUME NEW loose, NEW lasting, Held(loose, lasting), UNCHANGED <<db, req, contended>>
    PROVE  Held(loose, lasting)'
  BY DEF Held

LEMMA StartHeld ==
    ASSUME NEW loose, NEW lasting, Start
    PROVE  Held(loose, lasting)
  <1>1. \A p \in Workers : req[p] = Idle BY DEF Start
  <1>2. \A d \in DOMAIN db : Rowed(db[d]) BY RowsAssumption DEF Start
  <1> QED BY <1>1, <1>2, IdleFits DEF Start, Held
-----------------------------------------------------------------------------
(* A backend of any handlers that read rows that are there, or new ones,   *)
(* and save what they have in hand.                                        *)

AnyHandler(p, loose, lasting) ==
    \E D, txs, then :
        /\ Readable(D) /\ then \notin {"reload", "write"}
        /\ \/ Savable(txs, D, loose, lasting) /\ Begin(p, D, txs, then)
           \/ \E pc : /\ Savable(txs, D \cup DOMAIN req[p].base, loose, lasting)
                      /\ GoOn(p, pc, D, txs, then)
           \/ Leave(p)

AnyNext(loose, lasting) ==
    \/ \E p \in Workers : AnyHandler(p, loose, lasting) \/ Statements(p)
    \/ Tick
    \/ Quiet

AnySpec(loose, lasting) == Start /\ [][AnyNext(loose, lasting)]_vars

\* A COMMIT leaves in a row what its handler computed from the row it had read.
SavesAsComputed(loose, lasting) ==
    \A p \in Workers : Write(p) =>
        \A d \in DOMAIN Unit(p) \ contended : AsRead(db, d, loose, lasting) =>
            /\ d \in DOMAIN req[p].base
            /\ db'[d] = Updated(req[p].base[d], Unit(p)[d])

\* Whatever the handlers, requests and rows stay as a request expects them: what it
\* read of a row that nobody else had in hand is what is stored.
THEOREM RequestsHeld ==
    ASSUME NEW CONSTANT loose, NEW CONSTANT lasting, loose \subseteq lasting
    PROVE  AnySpec(loose, lasting) => []Held(loose, lasting)
  <1>1. Start => Held(loose, lasting) BY StartHeld DEF Start
  <1>2. Held(loose, lasting) /\ [AnyNext(loose, lasting)]_vars => Held(loose, lasting)'
    <2> SUFFICES ASSUME Held(loose, lasting), [AnyNext(loose, lasting)]_vars
                 PROVE  Held(loose, lasting)'
      OBVIOUS
    <2>1. ASSUME NEW p \in Workers, AnyHandler(p, loose, lasting) PROVE Held(loose, lasting)'
      BY <2>1, BeginHeld, GoOnHeld, LeaveHeld DEF AnyHandler
    <2>2. ASSUME NEW p \in Workers, Statements(p) PROVE Held(loose, lasting)'
      BY <2>2, StatementsHeld
    <2>3. CASE UNCHANGED vars BY <2>3, StillHeld DEF vars
    <2>4. CASE Tick BY <2>4, StillHeld DEF Tick
    <2> QED BY <2>1, <2>2, <2>3, <2>4 DEF AnyNext, Quiet
  <1> QED BY <1>1, <1>2, PTL DEF AnySpec

\* save() on an uncontended row: no update is lost, though nothing is locked and the
\* row is read a second time before it is written.
THEOREM NoUpdateLost ==
    ASSUME NEW CONSTANT loose, NEW CONSTANT lasting, loose \subseteq lasting
    PROVE  AnySpec(loose, lasting) => [][SavesAsComputed(loose, lasting)]_vars
  <1>1. Held(loose, lasting) => SavesAsComputed(loose, lasting)
    <2> SUFFICES ASSUME Held(loose, lasting), NEW p \in Workers, Write(p),
                        NEW d \in DOMAIN Unit(p) \ contended, AsRead(db, d, loose, lasting)
                 PROVE  d \in DOMAIN req[p].base /\ db'[d] = Updated(req[p].base[d], Unit(p)[d])
      BY DEF SavesAsComputed
    <2>1. db'[d] = Updated(db[d], Unit(p)[d]) /\ d \in DOMAIN req[p].base
      BY WriteSaves DEF UnitFits, AsRead
    <2>2. req[p].base[d] = db[d] BY <2>1 DEF Held, RequestFits
    <2> QED BY <2>1, <2>2
  <1>2. AnySpec(loose, lasting) => []Held(loose, lasting) BY RequestsHeld
  <1> QED BY <1>1, <1>2, PTL DEF AnySpec
=============================================================================
