--------------------------- MODULE DeliveryProofs ---------------------------
(***************************************************************************)
(* Proofs about Webhooks, Jobs and Archive together, the specification     *)
(* that MCDelivery checks on small instances, for every set of workers,    *)
(* tasks, answers and vendors and every database to start from:            *)
(*                                                                         *)
(*   FatesExplained    a delivery's fate follows from its last answer      *)
(*   JobsAskedOnce     one job for one purpose, and three tries for it     *)
(*   ReceiptsTell      an archived document tells which vendors failed     *)
(***************************************************************************)
EXTENDS MCDelivery, RequestsProofs, FiniteSetTheorems

Loose   == {}
Lasting == {"subscription", "delivery", "settings", "document"}

\* Only these rows are ever in the hands of two requests.
Shareable == {"subscription", "settings"}

RowsOK(rows) ==
    /\ \A d \in Stored(rows, "delivery") :
           Explained(rows[d]) /\ rows[d].subscription \in Stored(rows, "subscription")
    /\ \A j \in Stored(rows, "job") : Counted(rows[j])
    /\ OfTheirOwn(rows)
    /\ \A d \in Stored(rows, "document") : Tells(rows[d])

\* A document on its way, by the vendors of the settings that were read: those
\* before its vendor were tried and failed.
Underway(row, c) ==
    LET n == Len(row.tried)
    IN  /\ ValidForTier(c) /\ row.tried \in Seq(Registered)
        /\ {"status", "tried", "vendor", "failoverFrom", "policy"} \subseteq DOMAIN row
        /\ row.status = "pending"
        /\ \/ n = 0 /\ row.vendor = c.primary /\ row.failoverFrom = None
           \/ n = 1 /\ c.secondary # None /\ row.vendor = c.secondary
                    /\ row.failoverFrom = row.tried[1]
           \/ n = 2 /\ c.secondary # None /\ c.tertiary # None /\ row.vendor = c.tertiary
                    /\ row.failoverFrom = row.tried[2]

\* A job is only ever saved as a new one.
Asked(row) ==
    /\ Counted(row) /\ row.status = "waiting"
    /\ \E task \in Tasks, round \in (0 .. MaxCalls) \cup {None} : row.key = <<task, round>>

\* What the transactions to be committed say.
UnitOK(rows, u) ==
    \A d \in DOMAIN u :
        /\ rows[d].table = "delivery" =>
            /\ rows[d].status # "absent" /\ Rowed(u[d]) /\ Explained(u[d])
            /\ u[d].subscription = rows[d].subscription
        /\ rows[d].table = "job" =>
            /\ rows[d].status = "absent" /\ Asked(u[d])
            /\ \A x \in DOMAIN u : rows[x].table = "job" => x = d
        /\ rows[d].table = "document" => Rowed(u[d]) /\ Tells(u[d])

\* A request about one document and the settings it read.
Calling(rows, b, object) ==
    \A d, s \in DOMAIN b :
        /\ rows[d].table = rows[s].table => d = s
        /\ rows[d].table = "document" /\ rows[s].table = "settings" => Underway(object[d], b[s])

PendingOK(rows, r) ==
    /\ r.pc = "idle" => DOMAIN r.base = {}
    /\ r.then \in {"idle", "send", "run", "call"}
    /\ r.then \in {"send", "run"} => r.todo = <<>>
    /\ r.todo # <<>> => Len(r.todo) = 1 /\ UnitOK(rows, r.todo[1])
    /\ r.pc = "send" => \A d \in DOMAIN r.base :
           d \in Stored(rows, "delivery") /\ rows[d].status = "due"
    /\ r.pc = "run" => \A j \in DOMAIN r.base :
           j \in Stored(rows, "job") /\ rows[j].status = "active"
    /\ r.pc = "call" =>
        /\ Calling(rows, r.base, r.base)
        /\ \A d \in DOMAIN r.base : rows[d].table = "document" => d \in Stored(rows, "document")
    /\ r.then = "call" /\ r.todo # <<>> =>
        /\ \A d \in DOMAIN r.base : d \in DOMAIN r.todo[1] <=> rows[d].table = "document"
        /\ Calling(rows, r.base, r.todo[1])

DeliveryInv ==
    /\ Held(Loose, Lasting)
    /\ RowsOK(db)
    /\ \A p \in Workers : PendingOK(db, req[p])
    /\ \A d \in contended : d \in DOMAIN db /\ db[d].table \in Shareable
    /\ calls \in Nat /\ calls <= MaxCalls
-----------------------------------------------------------------------------
(* What a request waits with stays as it should be.                        *)

LEMMA SameRows == \A t : Rows(t) = Stored(db, t)
  BY DEF Rows, IdsOf, Present, Stored

Kept(rows, after, D) ==
    \A d \in D :
        /\ d \in DOMAIN rows /\ d \in DOMAIN after /\ after[d].table = rows[d].table
        /\ rows[d].table \notin Shareable => after[d] = rows[d]

LEMMA PendingKept ==
    ASSUME NEW rows, NEW after, NEW r, Kept(rows, after, DOMAIN r.base), PendingOK(rows, r),
           r.todo # <<>> => DOMAIN r.todo[1] \subseteq DOMAIN r.base
    PROVE  PendingOK(after, r)
  <1>1. \A d \in DOMAIN r.base :
            /\ d \in DOMAIN rows /\ d \in DOMAIN after /\ after[d].table = rows[d].table
            /\ rows[d].table \in {"delivery", "job", "document"} => after[d] = rows[d]
    BY DEF Kept, Shareable
  <1>2. ASSUME r.todo # <<>> PROVE UnitOK(after, r.todo[1])
    <2>1. UnitOK(rows, r.todo[1]) BY <1>2 DEF PendingOK
    <2>2. \A d \in DOMAIN r.todo[1] :
            /\ after[d].table = rows[d].table
            /\ rows[d].table \in {"delivery", "job", "document"} => after[d] = rows[d]
      BY <1>1, <1>2
    <2> QED BY <2>1, <2>2 DEF UnitOK
  <1>3. \A o : Calling(rows, r.base, o) => Calling(after, r.base, o) BY <1>1 DEF Calling
  <1>4. r.pc = "send" => \A d \in DOMAIN r.base :
            d \in Stored(after, "delivery") /\ after[d].status = "due"
    BY <1>1 DEF PendingOK, Stored
  <1>5. r.pc = "run" => \A j \in DOMAIN r.base :
            j \in Stored(after, "job") /\ after[j].status = "active"
    BY <1>1 DEF PendingOK, Stored
  <1>6. r.pc = "call" => \A d \in DOMAIN r.base : after[d].table = "document" =>
            d \in Stored(after, "document")
    BY <1>1 DEF PendingOK, Stored
  <1> QED BY <1>1, <1>2, <1>3, <1>4, <1>5, <1>6 DEF PendingOK

LEMMA IdlePending ==
    ASSUME NEW rows PROVE PendingOK(rows, Idle)
  <1>1. Idle.todo = <<>> /\ Idle.then = "idle" /\ Idle.pc = "idle" /\ DOMAIN Idle.base = {}
    BY DEF Idle, Nothing
  <1> HIDE DEF Idle
  <1> QED BY <1>1 DEF PendingOK

\* The request of a handler that has one transaction to save.
LEMMA SavingPending ==
    ASSUME NEW rows, NEW b, NEW txs, NEW S, txs \in Seq(S), Len(txs) = 1, UnitOK(rows, txs[1]),
           NEW then, \/ then = "idle"
                     \/ /\ then = "call"
                        /\ \A d \in DOMAIN b : d \in DOMAIN txs[1] <=> rows[d].table = "document"
                        /\ Calling(rows, b, txs[1])
    PROVE  PendingOK(rows, At(b, txs, then))
  <1> DEFINE r == At(b, txs, then)
  <1>1. txs # <<>>
    <2>1. Len(<<>>) = 0 OBVIOUS
    <2> QED BY <2>1
  <1>2. r.pc = "reload" /\ r.base = b /\ r.todo = txs /\ r.then = then
    BY <1>1 DEF At
  <1> HIDE DEF r
  <1>3. PendingOK(rows, r) BY <1>1, <1>2 DEF PendingOK
  <1> QED BY <1>3 DEF r

\* One that has none.
LEMMA WaitingPending ==
    ASSUME NEW rows, NEW b,
           NEW then,
           \/ then = "idle"
           \/ /\ then = "send"
              /\ \A d \in DOMAIN b : d \in Stored(rows, "delivery") /\ rows[d].status = "due"
           \/ /\ then = "run"
              /\ \A j \in DOMAIN b : j \in Stored(rows, "job") /\ rows[j].status = "active"
           \/ /\ then = "call" /\ Calling(rows, b, b)
              /\ \A d \in DOMAIN b : rows[d].table = "document" => d \in Stored(rows, "document")
    PROVE  PendingOK(rows, At(b, <<>>, then))
  <1>1. CASE then = "idle" BY <1>1, IdlePending DEF At
  <1>2. CASE then # "idle"
    <2> DEFINE r == At(b, <<>>, then)
    <2>1. r.pc = then /\ r.base = b /\ r.todo = <<>> /\ r.then = then BY <1>2 DEF At
    <2> HIDE DEF r
    <2>2. PendingOK(rows, r) BY <1>2, <2>1 DEF PendingOK
    <2> QED BY <2>2 DEF r
  <1> QED BY <1>1, <1>2

\* The rows of one request that no other can have.
LEMMA Own ==
    ASSUME DeliveryInv, NEW q \in Workers, NEW d \in DOMAIN req[q].base,
           db[d].table \notin Shareable
    PROVE  /\ d \in DOMAIN db /\ d \notin contended
           /\ db[d].table \in Lasting \/ db[d].status # "absent" => req[q].base[d] = db[d]
           /\ \A s \in Workers \ {q} : d \notin DOMAIN req[s].base
  <1>1. d \notin contended BY DEF DeliveryInv
  <1>2. RequestFits(db, contended, req[q], Loose, Lasting) BY DEF DeliveryInv, Held
  <1>3. \A s \in Workers \ {q} : Apart(db, contended, req[q], req[s], Loose)
    BY DEF DeliveryInv, Held
  <1> QED BY <1>1, <1>2, <1>3 DEF RequestFits, AsRead, Apart, Loose

LEMMA UnitInHand ==
    ASSUME DeliveryInv, NEW q \in Workers
    PROVE  req[q].todo # <<>> => DOMAIN req[q].todo[1] \subseteq DOMAIN req[q].base
  <1> SUFFICES ASSUME req[q].todo # <<>>
               PROVE  DOMAIN req[q].todo[1] \subseteq DOMAIN req[q].base
    OBVIOUS
  <1>1. RequestFits(db, contended, req[q], Loose, Lasting) /\ PendingOK(db, req[q])
    BY DEF DeliveryInv, Held
  <1>2. 1 \in 1 .. Len(req[q].todo) BY <1>1 DEF PendingOK
  <1> QED BY <1>1, <1>2 DEF RequestFits, UnitFits, Loose

\* A step that gives one worker another request, and changes no row.
LEMMA OneRequestOK ==
    ASSUME DeliveryInv, NEW p \in Workers, NEW r, Held(Loose, Lasting)',
           db' = db, req' = [req EXCEPT ![p] = r], PendingOK(db, r),
           NEW D \in SUBSET DOMAIN db, contended' = contended \cup D,
           \A d \in D : db[d].table \in Shareable,
           calls' \in Nat, calls' <= MaxCalls
    PROVE  DeliveryInv'
  <1>1. \A q \in Workers : PendingOK(db, req'[q]) BY DEF DeliveryInv, Held
  <1>2. \A d \in contended' : d \in DOMAIN db /\ db[d].table \in Shareable BY DEF DeliveryInv
  <1> QED BY <1>1, <1>2 DEF DeliveryInv

LEMMA OwnRequestOK ==
    ASSUME DeliveryInv, NEW p \in Workers, NEW r, Held(Loose, Lasting)',
           db' = db, req' = [req EXCEPT ![p] = r], PendingOK(db, r),
           contended' = contended, calls' = calls
    PROVE  DeliveryInv'
  <1>1. PICK D \in SUBSET DOMAIN db : D = {} OBVIOUS
  <1>2. contended' = contended \cup D /\ \A d \in D : db[d].table \in Shareable BY <1>1
  <1>3. calls' \in Nat /\ calls' <= MaxCalls BY DEF DeliveryInv
  <1> QED BY <1>2, <1>3, OneRequestOK

LEMMA BeginOK ==
    ASSUME DeliveryInv, NEW p \in Workers, NEW D, Readable(D),
           NEW txs, Savable(txs, D, Loose, Lasting), NEW then, then \notin {"reload", "write"},
           Begin(p, D, txs, then), \A d \in D : db[d].table \in Shareable \/ ~Present(d),
           PendingOK(db, At([d \in D |-> db[d]], txs, then))
    PROVE  DeliveryInv'
  <1>1. Held(Loose, Lasting)' BY BeginHeld DEF DeliveryInv
  <1> DEFINE r == At([d \in D |-> db[d]], txs, then)
             S == Shared(p, D)
  <1>2. /\ contended' = contended \cup S /\ db' = db /\ req' = [req EXCEPT ![p] = r]
        /\ calls < MaxCalls /\ calls' = calls + 1
    BY DEF Begin
  <1>3. S \in SUBSET DOMAIN db /\ \A d \in S : db[d].table \in Shareable
    BY SharedRows DEF Shared
  <1>4. calls' \in Nat /\ calls' <= MaxCalls BY <1>2, RequestsAssumption DEF DeliveryInv
  <1> HIDE DEF r, S
  <1> QED BY <1>1, <1>2, <1>3, <1>4, OneRequestOK DEF r

LEMMA GoOnOK ==
    ASSUME DeliveryInv, NEW p \in Workers, NEW D, Readable(D),
           NEW txs, Savable(txs, D \cup DOMAIN req[p].base, Loose, Lasting),
           NEW pc, NEW then, then \notin {"reload", "write"}, GoOn(p, pc, D, txs, then),
           \A d \in D : db[d].table \in Shareable \/ Settled(d),
           PendingOK(db, At(And([d \in D |-> db[d]], req[p].base), txs, then))
    PROVE  DeliveryInv'
  <1>1. Held(Loose, Lasting)' BY GoOnHeld DEF DeliveryInv
  <1> DEFINE r == At(And([d \in D |-> db[d]], req[p].base), txs, then)
             S == Shared(p, D)
  <1>2. contended' = contended \cup S /\ db' = db /\ req' = [req EXCEPT ![p] = r] /\ calls' = calls
    BY DEF GoOn
  <1>3. S \in SUBSET DOMAIN db /\ \A d \in S : db[d].table \in Shareable
    BY SharedRows DEF Shared, Settled
  <1>4. calls' \in Nat /\ calls' <= MaxCalls BY <1>2 DEF DeliveryInv
  <1> HIDE DEF r, S
  <1> QED BY <1>1, <1>2, <1>3, <1>4, OneRequestOK DEF r

LEMMA LeaveOK ==
    ASSUME DeliveryInv, NEW p \in Workers, Leave(p)
    PROVE  DeliveryInv'
  <1>1. Held(Loose, Lasting)' BY LeaveHeld DEF DeliveryInv
  <1>2. db' = db /\ req' = [req EXCEPT ![p] = Idle] /\ contended' = contended /\ calls' = calls
    BY DEF Leave
  <1>3. PendingOK(db, Idle) BY IdlePending
  <1> QED BY <1>1, <1>2, <1>3, OwnRequestOK

LEMMA ReloadOK ==
    ASSUME DeliveryInv, NEW p \in Workers, Reload(p)
    PROVE  DeliveryInv'
  <1> DEFINE r == [req[p] EXCEPT !.pc = "write",
                       !.dirty = [d \in DOMAIN Unit(p) |-> ToWrite(Unit(p)[d], db[d])]]
  <1>1. Held(Loose, Lasting)' BY ReloadHeld DEF DeliveryInv
  <1>2. req' = [req EXCEPT ![p] = r] /\ db' = db /\ contended' = contended /\ calls' = calls
    BY DEF Reload, DeliveryInv, Held
  <1>3. RequestFits(db, contended, req[p], Loose, Lasting) BY DEF DeliveryInv, Held
  <1>4. r.todo = req[p].todo /\ r.then = req[p].then /\ r.base = req[p].base /\ r.pc = "write"
    BY <1>3 DEF RequestFits
  <1> HIDE DEF r
  <1>5. PendingOK(db, req[p]) BY DEF DeliveryInv
  <1>6. PendingOK(db, r) BY <1>4, <1>5 DEF PendingOK
  <1> QED BY <1>1, <1>2, <1>6, OwnRequestOK
-----------------------------------------------------------------------------
(* What a COMMIT leaves.                                                   *)

\* Of the rows that no two requests share, it leaves what the handler computed.
LEMMA Saves ==
    ASSUME DeliveryInv, NEW p \in Workers, Write(p)
    PROVE  LET u == Unit(p)
           IN  /\ DOMAIN db' = DOMAIN db
               /\ DOMAIN u \subseteq DOMAIN req[p].base /\ DOMAIN u \subseteq DOMAIN db
               /\ \A d \in DOMAIN db : db'[d].table = db[d].table
               /\ \A d \in DOMAIN db \ DOMAIN u : db'[d] = db[d]
               /\ \A d \in DOMAIN db : db[d].table \in Lasting /\ db[d].status # "absent"
                                          => db'[d].status # "absent"
               /\ \A d \in DOMAIN u : db[d].table \in Lasting => db'[d].status # "absent"
               /\ \A d \in DOMAIN u : db[d].table \notin Shareable =>
                      db'[d] = Updated(db[d], u[d])
               /\ UnitOK(db, u) /\ Len(req[p].todo) = 1 /\ u = req[p].todo[1]
  <1>1. Held(Loose, Lasting) BY DEF DeliveryInv
  <1>2. RequestFits(db, contended, req[p], Loose, Lasting) /\ PendingOK(db, req[p])
    BY DEF DeliveryInv, Held
  <1>3. req[p].todo # <<>> BY <1>2 DEF Write, RequestFits
  <1>4. Len(req[p].todo) = 1 /\ UnitOK(db, req[p].todo[1]) BY <1>2, <1>3 DEF PendingOK
  <1>5. Unit(p) = req[p].todo[1] BY <1>2, NextUnit DEF Unit, Write
  <1>6. DOMAIN req[p].todo[1] \subseteq DOMAIN req[p].base BY <1>3, UnitInHand
  <1>7. \A d \in DOMAIN Unit(p) : db[d].table \notin Shareable => d \notin contended
    BY DEF DeliveryInv
  <1>8. \A d \in DOMAIN Unit(p) : db[d].table \notin Shareable =>
            db'[d] = Updated(db[d], Unit(p)[d])
    BY <1>1, <1>7, WriteSaves DEF Loose
  <1>9. Loose \subseteq Lasting BY DEF Loose, Lasting
  <1>10. /\ DOMAIN db' = DOMAIN db /\ DOMAIN Unit(p) \subseteq DOMAIN db
         /\ \A d \in DOMAIN db \ DOMAIN Unit(p) : db'[d] = db[d]
    BY <1>1, WriteSaves
  <1>11. /\ \A d \in DOMAIN db : db'[d].table = db[d].table
         /\ \A d \in DOMAIN db : db[d].table \in Lasting /\ db[d].status # "absent"
                                          => db'[d].status # "absent"
         /\ \A d \in DOMAIN Unit(p) : db[d].table \in Lasting => db'[d].status # "absent"
    BY <1>1, <1>9, WriteKeeps
  <1> QED BY <1>4, <1>5, <1>6, <1>8, <1>10, <1>11

LEMMA WriteRows ==
    ASSUME DeliveryInv, NEW p \in Workers, Write(p)
    PROVE  RowsOK(db')
  <1> DEFINE u == Unit(p)
  <1>1. /\ DOMAIN db' = DOMAIN db /\ DOMAIN u \subseteq DOMAIN db
        /\ \A d \in DOMAIN db : db'[d].table = db[d].table
        /\ \A d \in DOMAIN db \ DOMAIN u : db'[d] = db[d]
        /\ \A d \in DOMAIN db : db[d].table \in Lasting /\ db[d].status # "absent"
                                   => db'[d].status # "absent"
        /\ \A d \in DOMAIN u : db[d].table \notin Shareable => db'[d] = Updated(db[d], u[d])
        /\ UnitOK(db, u)
    BY Saves
  <1>2. RowsOK(db) /\ \A d \in DOMAIN db : Rowed(db[d]) BY DEF DeliveryInv, Held
  <1>3. ~Taken(p) BY DEF Write
  <1> HIDE DEF u
  <1>4. \A s \in Stored(db, "subscription") : s \in Stored(db', "subscription")
    BY <1>1 DEF Stored, Lasting
  <1>5. ASSUME NEW d \in Stored(db', "delivery")
        PROVE  Explained(db'[d]) /\ db'[d].subscription \in Stored(db', "subscription")
    <2>1. d \in DOMAIN db /\ db[d].table = "delivery" BY <1>1 DEF Stored
    <2>2. CASE d \notin DOMAIN u
      <3>1. db'[d] = db[d] /\ d \in Stored(db, "delivery") BY <1>1, <2>1, <2>2 DEF Stored
      <3> QED BY <1>2, <1>4, <3>1 DEF RowsOK
    <2>3. CASE d \in DOMAIN u
      <3>1. /\ db[d].status # "absent" /\ Rowed(u[d]) /\ Explained(u[d])
            /\ u[d].subscription = db[d].subscription
        BY <1>1, <2>1, <2>3 DEF UnitOK
      <3>2. d \in Stored(db, "delivery") BY <2>1, <3>1 DEF Stored
      <3>3. Explained(db[d]) /\ db[d].subscription \in Stored(db, "subscription")
        BY <1>2, <3>2 DEF RowsOK
      <3>4. db'[d] = [f \in DOMAIN db[d] |-> IF f \in DOMAIN u[d] THEN u[d][f] ELSE db[d][f]]
        BY <1>1, <2>1, <2>3, <3>1 DEF Updated, Shareable
      <3>5. {"table", "status", "subscription", "attempts", "outcome"} \subseteq DOMAIN db[d]
            /\ {"table", "status", "subscription", "attempts", "outcome"} \subseteq DOMAIN u[d]
        BY <1>2, <2>1, <3>1, <3>3 DEF Explained, Rowed
      <3>6. /\ DOMAIN db'[d] = DOMAIN db[d] /\ db'[d].status = u[d].status
            /\ db'[d].attempts = u[d].attempts /\ db'[d].outcome = u[d].outcome
            /\ db'[d].subscription = db[d].subscription
        BY <3>1, <3>4, <3>5
      <3>7. Explained(db'[d]) BY <3>1, <3>3, <3>6 DEF Explained
      <3> QED BY <1>4, <3>3, <3>6, <3>7
    <2> QED BY <2>2, <2>3
  <1>6. ASSUME NEW j \in Stored(db', "job")
        PROVE  /\ j \notin DOMAIN u => j \in Stored(db, "job") /\ db'[j] = db[j]
               /\ j \in DOMAIN u => db[j].table = "job" /\ Asked(u[j]) /\ db'[j] = u[j]
               /\ Counted(db'[j])
    <2>1. j \in DOMAIN db /\ db[j].table = "job" BY <1>1 DEF Stored
    <2>2. CASE j \notin DOMAIN u
      <3>1. db'[j] = db[j] /\ j \in Stored(db, "job") BY <1>1, <2>1, <2>2 DEF Stored
      <3> QED BY <1>2, <2>2, <3>1 DEF RowsOK
    <2>3. CASE j \in DOMAIN u
      <3>1. db[j].status = "absent" /\ Asked(u[j]) BY <1>1, <2>1, <2>3 DEF UnitOK
      <3>2. db'[j] = u[j] BY <1>1, <2>1, <2>3, <3>1 DEF Updated, Shareable
      <3> QED BY <2>1, <2>3, <3>1, <3>2 DEF Asked
    <2> QED BY <2>2, <2>3
  <1>7. ASSUME NEW i \in DOMAIN u, NEW j \in Stored(db, "job"), j \notin DOMAIN u,
               db[i].table = "job", Asked(u[i])
        PROVE  u[i].key # db[j].key
    <2>1. j \in Rows(db[i].table) BY <1>7, SameRows
    <2>2. j \notin Deleted(p) BY <1>7 DEF Deleted, u
    <2>3. "key" \in DOMAIN u[i] /\ u[i].key # None
      BY <1>7, JobsAssumption DEF Asked, Counted
    <2>4. "key" \in DOMAIN db[j] BY <1>2 DEF RowsOK, Counted
    <2>5. "key" \in UniqueColumns BY DEF UniqueColumns
    <2> QED BY <1>3, <1>7, <2>1, <2>2, <2>3, <2>4, <2>5 DEF Taken, u
  <1>8. ASSUME NEW i \in Stored(db', "job"), NEW j \in Stored(db', "job"), i # j
        PROVE  db'[i].key # db'[j].key
    <2>1. CASE i \in DOMAIN u /\ j \in DOMAIN u
      <3>1. db[i].table = "job" /\ db[j].table = "job" BY <1>6, <2>1
      <3> QED BY <1>1, <1>8, <2>1, <3>1 DEF UnitOK
    <2>2. CASE i \in DOMAIN u /\ j \notin DOMAIN u BY <1>6, <1>7, <2>2
    <2>3. CASE i \notin DOMAIN u /\ j \in DOMAIN u
      <3>1. db'[j].key # db'[i].key BY <1>6, <1>7, <2>3
      <3> QED BY <3>1
    <2>4. CASE i \notin DOMAIN u /\ j \notin DOMAIN u
      <3>1. db'[i] = db[i] /\ db'[j] = db[j] /\ i \in Stored(db, "job") /\ j \in Stored(db, "job")
        BY <1>6, <2>4
      <3> QED BY <1>2, <1>8, <3>1 DEF RowsOK, OfTheirOwn
    <2> QED BY <2>1, <2>2, <2>3, <2>4
  <1>9. ASSUME NEW d \in Stored(db', "document") PROVE Tells(db'[d])
    <2>1. d \in DOMAIN db /\ db[d].table = "document" BY <1>1 DEF Stored
    <2>2. CASE d \notin DOMAIN u
      <3>1. db'[d] = db[d] /\ d \in Stored(db, "document") BY <1>1, <2>1, <2>2 DEF Stored
      <3> QED BY <1>2, <3>1 DEF RowsOK
    <2>3. CASE d \in DOMAIN u
      <3>1. Rowed(u[d]) /\ Tells(u[d]) /\ db'[d] = Updated(db[d], u[d])
        BY <1>1, <2>1, <2>3 DEF UnitOK, Shareable
      <3>2. CASE db[d].status = "absent" BY <3>1, <3>2 DEF Updated
      <3>3. CASE db[d].status # "absent"
        <4>1. d \in Stored(db, "document") BY <2>1, <3>3 DEF Stored
        <4>2. Tells(db[d]) /\ Rowed(db[d]) BY <1>2, <2>1, <4>1 DEF RowsOK
        <4>3. db'[d] = [f \in DOMAIN db[d] |-> IF f \in DOMAIN u[d] THEN u[d][f] ELSE db[d][f]]
          BY <3>1, <3>3 DEF Updated
        <4>4. /\ {"table", "status", "tried", "vendor", "failoverFrom", "policy"} \subseteq DOMAIN db[d]
              /\ {"table", "status", "tried", "vendor", "failoverFrom", "policy"} \subseteq DOMAIN u[d]
          BY <3>1, <4>2 DEF Tells, Rowed
        <4>5. /\ DOMAIN db'[d] = DOMAIN db[d] /\ db'[d].status = u[d].status
              /\ db'[d].tried = u[d].tried /\ db'[d].vendor = u[d].vendor
              /\ db'[d].failoverFrom = u[d].failoverFrom /\ db'[d].policy = u[d].policy
          BY <4>3, <4>4
        <4> QED BY <3>1, <4>4, <4>5 DEF Tells
      <3> QED BY <3>2, <3>3
    <2> QED BY <2>2, <2>3
  <1> QED BY <1>5, <1>6, <1>8, <1>9 DEF RowsOK, OfTheirOwn

\* The document that a call is about, as the COMMIT leaves it.
LEMMA StillUnderway ==
    ASSUME NEW row, NEW o, NEW c, Underway(o, c),
           Rowed(row), row.status # "absent" => Tells(row)
    PROVE  Underway(Updated(row, o), c)
  <1>1. {"status", "tried", "vendor", "failoverFrom", "policy"} \subseteq DOMAIN o
    BY DEF Underway
  <1>2. CASE row.status = "absent" BY <1>2 DEF Updated
  <1>3. CASE row.status # "absent"
    <2> DEFINE w == Updated(row, o)
    <2>1. {"status", "tried", "vendor", "failoverFrom", "policy"} \subseteq DOMAIN row
      BY <1>3 DEF Tells, Rowed
    <2>2. w = [f \in DOMAIN row |-> IF f \in DOMAIN o THEN o[f] ELSE row[f]] BY <1>3 DEF Updated
    <2>3. /\ DOMAIN w = DOMAIN row /\ w.tried = o.tried /\ w.vendor = o.vendor
          /\ w.failoverFrom = o.failoverFrom /\ w.status = o.status
      BY <1>1, <2>1, <2>2
    <2> HIDE DEF w
    <2>4. Underway(w, c) BY <2>1, <2>3 DEF Underway
    <2> QED BY <2>4 DEF w
  <1> QED BY <1>2, <1>3

LEMMA WriteOK ==
    ASSUME DeliveryInv, NEW p \in Workers, Write(p)
    PROVE  DeliveryInv'
  <1> DEFINE u    == Unit(p)
             b    == And([d \in DOMAIN u |-> Saved(p, d)], req[p].base)
             txs  == Tail(req[p].todo)
             then == req[p].then
  <1>1. Held(Loose, Lasting) /\ Loose \subseteq Lasting BY DEF DeliveryInv, Loose, Lasting
  <1>2. Held(Loose, Lasting)' BY <1>1, WriteHeld
  <1>3. RowsOK(db') BY WriteRows
  <1>4. /\ DOMAIN db' = DOMAIN db
        /\ DOMAIN u \subseteq DOMAIN req[p].base /\ DOMAIN u \subseteq DOMAIN db
        /\ \A d \in DOMAIN db : db'[d].table = db[d].table
        /\ \A d \in DOMAIN db \ DOMAIN u : db'[d] = db[d]
        /\ \A d \in DOMAIN db : db[d].table \in Lasting /\ db[d].status # "absent"
                                   => db'[d].status # "absent"
        /\ \A d \in DOMAIN u : db[d].table \in Lasting => db'[d].status # "absent"
        /\ \A d \in DOMAIN u : db[d].table \notin Shareable => db'[d] = Updated(db[d], u[d])
        /\ UnitOK(db, u) /\ Len(req[p].todo) = 1 /\ u = req[p].todo[1]
    BY Saves
  <1>5. contended' = contended /\ calls' = calls BY DEF Write
  <1>6. ASSUME NEW q \in Workers \ {p} PROVE PendingOK(db', req'[q])
    <2>1. req'[q] = req[q] BY <1>1, WriteSpares
    <2>2. RequestFits(db, contended, req[q], Loose, Lasting) BY <1>1 DEF Held
    <2>3. ASSUME NEW d \in DOMAIN req[q].base
          PROVE  /\ d \in DOMAIN db /\ d \in DOMAIN db' /\ db'[d].table = db[d].table
                 /\ db[d].table \notin Shareable => db'[d] = db[d]
      <3>1. d \in DOMAIN db BY <2>2 DEF RequestFits
      <3>2. db[d].table \notin Shareable => d \notin DOMAIN req[p].base BY Own
      <3> QED BY <1>4, <3>1, <3>2
    <2>4. Kept(db, db', DOMAIN req[q].base) BY <2>3 DEF Kept
    <2>5. PendingOK(db, req[q]) BY DEF DeliveryInv
    <2>6. PendingOK(db', req[q]) BY <2>4, <2>5, UnitInHand, PendingKept
    <2> QED BY <2>1, <2>6
  <1>7. PendingOK(db', req'[p])
    <2>1. req'[p] = At(b, txs, then) BY <1>1 DEF Write, Held
    <2>2. RequestFits(db, contended, req[p], Loose, Lasting) /\ PendingOK(db, req[p])
      BY <1>1 DEF Held, DeliveryInv
    <2>3. req[p].pc = "write" /\ req[p].todo # <<>> BY <2>2 DEF Write, RequestFits
    <2>4. txs = <<>>
      <3>1. (\E S : txs \in Seq(S)) /\ Len(txs) = Len(req[p].todo) - 1 BY <2>2, <2>3, NextUnit
      <3>2. PICK S : txs \in Seq(S) BY <3>1
      <3>3. Len(txs) = 0 BY <1>4, <3>1
      <3> HIDE DEF txs
      <3> QED BY <3>2, <3>3, EmptySeq
    <2>5. then \in {"idle", "call"} BY <2>2, <2>3 DEF PendingOK
    <2>6. /\ DOMAIN b = DOMAIN req[p].base
          /\ \A d \in DOMAIN b \ DOMAIN u : b[d] = req[p].base[d]
          /\ \A d \in DOMAIN u : b[d] = db'[d]
      BY <1>4 DEF And, Write
    <2> HIDE DEF b, txs, u
    <2>7. ASSUME then = "call"
          PROVE  /\ Calling(db', b, b)
                 /\ \A d \in DOMAIN b : db'[d].table = "document" => d \in Stored(db', "document")
      <3>1. /\ \A d \in DOMAIN b : d \in DOMAIN u <=> db[d].table = "document"
            /\ Calling(db, req[p].base, u)
        BY <1>4, <2>2, <2>3, <2>6, <2>7 DEF PendingOK
      <3>2. DOMAIN b \subseteq DOMAIN db BY <2>2, <2>6 DEF RequestFits
      <3>3. \A d \in DOMAIN b : db'[d].table = "document" => d \in Stored(db', "document")
        BY <1>4, <3>1, <3>2 DEF Stored, Lasting
      <3>4. ASSUME NEW d \in DOMAIN b, NEW s \in DOMAIN b,
                   db'[d].table = "document", db'[s].table = "settings"
            PROVE  Underway(b[d], b[s])
        <4>1. db[d].table = "document" /\ db[s].table = "settings" BY <1>4, <3>2, <3>4
        <4>2. d \in DOMAIN u /\ s \notin DOMAIN u BY <3>1, <4>1
        <4>3. Underway(u[d], b[s]) BY <2>6, <3>1, <4>1, <4>2 DEF Calling
        <4>4. db[d].status # "absent" => Tells(db[d])
          BY <3>2, <4>1 DEF DeliveryInv, RowsOK, Stored
        <4>6. Rowed(db[d]) BY <1>1, <3>2 DEF Held
        <4>5. b[d] = Updated(db[d], u[d]) BY <1>4, <2>6, <4>1, <4>2 DEF Shareable
        <4> QED BY <4>3, <4>4, <4>5, <4>6, StillUnderway
      <3>5. \A d, s \in DOMAIN b : db'[d].table = db'[s].table => d = s
        BY <1>4, <2>6, <3>1, <3>2 DEF Calling
      <3> QED BY <3>3, <3>4, <3>5 DEF Calling
    <2> HIDE DEF then
    <2> QED BY <2>1, <2>4, <2>5, <2>7, WaitingPending
  <1>8. \A q \in Workers : PendingOK(db', req'[q]) BY <1>6, <1>7
  <1> QED BY <1>2, <1>3, <1>4, <1>5, <1>8 DEF DeliveryInv

LEMMA StatementsOK ==
    ASSUME DeliveryInv, NEW p \in Workers, Statements(p)
    PROVE  DeliveryInv'
  BY ReloadOK, WriteOK, LeaveOK DEF Statements, Refused, Lost
-----------------------------------------------------------------------------
(* Handlers of one transaction.                                            *)

LEMMA Freed ==
    ASSUME NEW t, NEW d \in Free(t)
    PROVE  /\ d \in DOMAIN db /\ db[d].table = t /\ db[d].status = "absent" /\ ~Present(d)
           /\ \A q \in Workers : d \notin DOMAIN req[q].base
  BY DEF Free, IdsOf, Present

LEMMA Read ==
    ASSUME NEW t, NEW d \in Rows(t)
    PROVE  d \in DOMAIN db /\ db[d].table = t /\ db[d].status # "absent" /\ Present(d)
  BY DEF Rows, IdsOf, Present

LEMMA ReadRows ==
    ASSUME NEW D, \A d \in D : \E t : d \in Rows(t) \/ d \in Free(t)
    PROVE  Readable(D)
  BY DEF Readable, Rows, Free, IdsOf, Present

LEMMA OnlyFits ==
    ASSUME NEW d, NEW o, NEW D, d \in D, d \in DOMAIN db, Rowed(o), o.table = db[d].table,
           o.status # "absent"
    PROVE  /\ UnitFits(db, Only(d, o), D, Loose, Lasting)
           /\ DOMAIN Only(d, o) = {d} /\ Only(d, o)[d] = o
  BY DEF UnitFits, Only, ObjectFits, Rowed

\* One that saves one row, of those it has read.
LEMMA HandleOK ==
    ASSUME DeliveryInv, NEW p \in Workers, NEW t, NEW d, NEW o,
           \/ d \in Rows(t) /\ t \in Shareable
           \/ d \in Free(t),
           Rowed(o), o.table = t, o.status # "absent",
           UnitOK(db, Only(d, o)), Handle(p, {d}, <<Only(d, o)>>)
    PROVE  DeliveryInv'
  <1> DEFINE D == {d}
             u == Only(d, o)
             txs == <<u>>
  <1>1. d \in DOMAIN db /\ db[d].table = t /\ (t \in Shareable \/ ~Present(d)) BY Freed, Read
  <1>2. Readable(D) BY ReadRows
  <1>3. UnitFits(db, u, D, Loose, Lasting) BY <1>1, OnlyFits
  <1>4. Begin(p, D, txs, "idle") BY DEF Handle
  <1> HIDE DEF u
  <1>5. Savable(txs, D, Loose, Lasting) /\ Len(txs) = 1 /\ txs[1] = u BY <1>3, OneSavable
  <1>6. \A x \in D : db[x].table \in Shareable \/ ~Present(x) BY <1>1
  <1> HIDE DEF txs, D
  <1>7. PICK S : txs \in Seq(S) BY <1>5 DEF Savable
  <1>8. UnitOK(db, txs[1]) BY <1>5 DEF u
  <1>9. PendingOK(db, At([x \in D |-> db[x]], txs, "idle")) BY <1>5, <1>7, <1>8, SavingPending
  <1> QED BY <1>2, <1>4, <1>5, <1>6, <1>9, BeginOK

\* Of subscriptions and settings the invariant says nothing but that they are there.
LEMMA ShareableOK ==
    ASSUME NEW d, NEW o, db[d].table \in Shareable
    PROVE  UnitOK(db, Only(d, o))
  BY DEF UnitOK, Only, Shareable

LEMMA WebhookStepOK ==
    ASSUME DeliveryInv, NEW p \in Workers, WebhookStep(p)
    PROVE  DeliveryInv'
  <1>1. ASSUME NEW s \in Rows("subscription"), NEW o, DOMAIN o = DOMAIN db[s],
               o.table = db[s].table, o.status # "absent", Handle(p, {s}, <<Only(s, o)>>)
        PROVE  DeliveryInv'
    <2>1. db[s].table = "subscription" /\ Rowed(db[s]) BY Read DEF DeliveryInv, Held
    <2>2. Rowed(o) BY <1>1, <2>1 DEF Rowed
    <2>3. "subscription" \in Shareable BY DEF Shareable
    <2> QED BY <1>1, <2>1, <2>2, <2>3, ShareableOK, HandleOK
  <1>2. \A s \in Rows("subscription") : "status" \in DOMAIN db[s]
    BY Read DEF DeliveryInv, Held, Rowed
  <1>3. CASE CreateSubscription(p)
    <2> DEFINE s == New("subscription")
    <2>1. s \in Free("subscription") BY <1>3, NewRow DEF CreateSubscription
    <2>2. Handle(p, {s}, <<Only(s, Subscription)>>) BY <1>3 DEF CreateSubscription
    <2>3. Rowed(Subscription) /\ Subscription.table = "subscription"
          /\ Subscription.status # "absent"
      BY DEF Subscription, Rowed
    <2> HIDE DEF s
    <2>4. db[s].table \in Shareable BY <2>1, Freed DEF Shareable
    <2> QED BY <2>1, <2>2, <2>3, <2>4, ShareableOK, HandleOK
  <1>4. CASE PauseSubscription(p)
    <2> DEFINE o(s) == [db[s] EXCEPT !.status = "paused"]
    <2>1. PICK s \in Rows("subscription") : Handle(p, {s}, <<Only(s, o(s))>>)
      BY <1>4 DEF PauseSubscription
    <2>2. DOMAIN o(s) = DOMAIN db[s] /\ o(s).table = db[s].table /\ o(s).status # "absent"
      BY <1>2
    <2> HIDE DEF o
    <2> QED BY <1>1, <2>1, <2>2
  <1>5. CASE ResumeSubscription(p)
    <2> DEFINE o(s) == [db[s] EXCEPT !.status = "active", !.disabledAt = None]
    <2>1. PICK s \in Rows("subscription") : Handle(p, {s}, <<Only(s, o(s))>>)
      BY <1>5 DEF ResumeSubscription
    <2>2. DOMAIN o(s) = DOMAIN db[s] /\ o(s).table = db[s].table /\ o(s).status # "absent"
      BY <1>2
    <2> HIDE DEF o
    <2> QED BY <1>1, <2>1, <2>2
  <1>6. CASE DisableSubscription(p)
    <2> DEFINE o(s) == [db[s] EXCEPT !.status = "disabled", !.disabledAt = now]
    <2>1. PICK s \in Rows("subscription") : Handle(p, {s}, <<Only(s, o(s))>>)
      BY <1>6 DEF DisableSubscription, Disabled
    <2>2. DOMAIN o(s) = DOMAIN db[s] /\ o(s).table = db[s].table /\ o(s).status # "absent"
      BY <1>2
    <2> HIDE DEF o
    <2> QED BY <1>1, <2>1, <2>2
  <1> QED BY <1>3, <1>4, <1>5, <1>6 DEF WebhookStep

LEMMA ChangeSettingsOK ==
    ASSUME DeliveryInv, NEW p \in Workers, ChangeSettings(p)
    PROVE  DeliveryInv'
  <1> DEFINE o(s, x, y, z) == [db[s] EXCEPT !.primary = x, !.secondary = y, !.tertiary = z]
  <1>1. PICK s \in Rows("settings") : \E x, y, z : Handle(p, {s}, <<Only(s, o(s, x, y, z))>>)
    BY DEF ChangeSettings
  <1>2. PICK x, y, z : Handle(p, {s}, <<Only(s, o(s, x, y, z))>>) BY <1>1
  <1> DEFINE w == o(s, x, y, z)
  <1>3. /\ s \in DOMAIN db /\ db[s].table = "settings" /\ db[s].status # "absent" /\ Rowed(db[s])
    BY Read DEF DeliveryInv, Held
  <1>4. Rowed(w) /\ w.table = "settings" /\ w.status # "absent" BY <1>3 DEF Rowed
  <1>5. Handle(p, {s}, <<Only(s, w)>>) BY <1>2
  <1> HIDE DEF w
  <1>6. "settings" \in Shareable BY DEF Shareable
  <1> QED BY <1>3, <1>4, <1>5, <1>6, ShareableOK, HandleOK

LEMMA EnqueueOK ==
    ASSUME DeliveryInv, NEW p \in Workers, Enqueue(p)
    PROVE  DeliveryInv'
  <1> DEFINE j == New("job")
             round(task) == IF Dated(task) THEN calls ELSE None
             o(task) == Job(task, round(task))
  <1>1. PICK task \in Tasks : Handle(p, {j}, <<Only(j, o(task))>>) BY DEF Enqueue
  <1>2. j \in Free("job") BY NewRow DEF Enqueue
  <1>3. db[j].table = "job" /\ db[j].status = "absent" BY <1>2, Freed
  <1> HIDE DEF j
  <1>4. round(task) \in (0 .. MaxCalls) \cup {None}
    BY RequestsAssumption DEF DeliveryInv
  <1>5. /\ DOMAIN o(task) = {"table", "status", "key", "task", "attemptsMade", "stalls"}
        /\ o(task).table = "job" /\ o(task).status = "waiting" /\ o(task).key = <<task, round(task)>>
        /\ o(task).task = task /\ o(task).attemptsMade = 0 /\ o(task).stalls = 0
    BY DEF Job
  <1>6. ~Dated(task) => round(task) = None OBVIOUS
  <1> HIDE DEF round, o
  <1>7. Asked(o(task))
    <2>1. 0 < Attempts /\ 0 \in Nat BY DEF Attempts
    <2>2. Counted(o(task)) BY <1>5, <1>6, <2>1 DEF Counted
    <2> QED BY <1>4, <1>5, <2>2 DEF Asked
  <1>8. Rowed(o(task)) BY <1>5 DEF Rowed
  <1>9. UnitOK(db, Only(j, o(task))) BY <1>3, <1>7 DEF UnitOK, Only
  <1> QED BY <1>1, <1>2, <1>5, <1>8, <1>9, HandleOK

LEMMA DeliverOK ==
    ASSUME DeliveryInv, NEW p \in Workers, Deliver(p)
    PROVE  DeliveryInv'
  <1>1. PICK d \in Rows("delivery") :
            db[d].status = "due" /\ Settled(d) /\ GoOn(p, "idle", {d}, <<>>, "send")
    BY DEF Deliver
  <1> DEFINE D == {d}
             b == And([x \in D |-> db[x]], req[p].base)
  <1>2. d \in DOMAIN db /\ db[d].table = "delivery" /\ d \in Stored(db, "delivery")
    BY Read, SameRows
  <1>3. Readable(D) BY <1>1, ReadRows
  <1>4. DOMAIN req[p].base = {} BY <1>1 DEF GoOn, DeliveryInv, PendingOK
  <1>5. \A x \in DOMAIN b : x = d
    <2>1. DOMAIN b = D \cup DOMAIN req[p].base BY DEF And
    <2> QED BY <1>4, <2>1
  <1>6. \A x \in D : db[x].table \in Shareable \/ Settled(x) BY <1>1
  <1>7. GoOn(p, "idle", D, <<>>, "send") BY <1>1
  <1>8. Savable(<<>>, D \cup DOMAIN req[p].base, Loose, Lasting) BY NoneSavable
  <1>9. PendingOK(db, At(b, <<>>, "send"))
    <2>1. \A x \in DOMAIN b : x \in Stored(db, "delivery") /\ db[x].status = "due"
      BY <1>1, <1>2, <1>5
    <2> HIDE DEF b
    <2> QED BY <2>1, WaitingPending
  <1> HIDE DEF D
  <1> QED BY <1>3, <1>6, <1>7, <1>8, <1>9, GoOnOK

\* What became of a delivery after an attempt, whatever was answered.
LEMMA FateIs ==
    ASSUME NEW n \in 1 .. MaxAttempts, NEW outcome, NEW retryAfter \in Int \cup {None}
    PROVE  LET fate == Fate(DecideRetry(n, outcome, retryAfter))
           IN  /\ fate \in {"delivered", "stopped", "dlq", "due"}
               /\ fate = "delivered" <=> outcome = "success_2xx"
               /\ fate = "stopped" => outcome \in {"gone_410", "not_found_404"}
               /\ fate = "dlq" => n = MaxAttempts
               /\ fate = "due" => n < MaxAttempts
  <1> DEFINE next == DecideRetry(n, outcome, retryAfter)
  <1>1. CASE outcome = "success_2xx"
    <2>1. next.action = "retry" /\ next.delay = 0 BY <1>1 DEF DecideRetry
    <2> QED BY <1>1, <2>1 DEF Fate
  <1>2. CASE outcome \in {"gone_410", "not_found_404"}
    <2>1. next.action = "disable_subscription" BY <1>2 DEF DecideRetry
    <2> QED BY <1>2, <2>1 DEF Fate
  <1>3. CASE outcome \notin {"success_2xx", "gone_410", "not_found_404"} /\ n >= MaxAttempts
    <2>1. next.action = "dlq" BY <1>3 DEF DecideRetry
    <2> QED BY <1>3, <2>1 DEF Fate, MaxAttempts
  <1>4. CASE outcome \notin {"success_2xx", "gone_410", "not_found_404"} /\ ~(n >= MaxAttempts)
    <2>1. n < MaxAttempts BY <1>4 DEF MaxAttempts
    <2>2. next.action = "retry" /\ next.delay # 0
      <3>1. CASE outcome = "rate_limited_429" /\ retryAfter # None
        <4>1. next = [action |-> "retry", delay |-> Clamped(retryAfter)]
          BY <1>4, <3>1 DEF DecideRetry
        <4>2. Clamped(retryAfter) # 0 BY <3>1 DEF Clamped
        <4> QED BY <4>1, <4>2
      <3>2. CASE ~(outcome = "rate_limited_429" /\ retryAfter # None)
        <4>1. next = [action |-> "retry", delay |-> BaseDelays[n + 1]]
          BY <1>4, <3>2 DEF DecideRetry
        <4>2. n + 1 \in 2 .. 6 BY <2>1 DEF MaxAttempts
        <4>3. \A k \in 2 .. 6 : BaseDelays[k] # 0 BY DEF BaseDelays
        <4> QED BY <4>1, <4>2, <4>3
      <3> QED BY <3>1, <3>2
    <2> HIDE DEF next
    <2>3. Fate(next) = "due" BY <2>2 DEF Fate
    <2> QED BY <1>4, <2>1, <2>3 DEF next
  <1> QED BY <1>1, <1>2, <1>3, <1>4

LEMMA RecordOK ==
    ASSUME DeliveryInv, NEW p \in Workers, Record(p)
    PROVE  DeliveryInv'
  <1> DEFINE row(d) == req[p].base[d]
             next(d, answer) ==
                 DecideRetry(row(d).attempts + 1, Outcome(answer), answer.retryAfter)
             told(d, answer) ==
                 [row(d) EXCEPT !.attempts = @ + 1, !.outcome = Outcome(answer),
                                !.status = Fate(next(d, answer))]
             unit(d, s, answer) ==
                 IF Fate(next(d, answer)) = "stopped"
                 THEN And(Only(d, told(d, answer)), Only(s, Disabled(db[s])))
                 ELSE Only(d, told(d, answer))
  <1>1. PICK d \in DOMAIN req[p].base, answer \in Answers :
            GoOn(p, "send", {row(d).subscription},
                 <<unit(d, row(d).subscription, answer)>>, "idle")
    BY DEF Record
  <1>2. req[p].pc = "send" BY DEF Record
  <1>3. d \in Stored(db, "delivery") /\ db[d].status = "due"
    BY <1>2 DEF DeliveryInv, PendingOK
  <1>4. d \in DOMAIN db /\ db[d].table = "delivery" /\ db[d].status # "absent" BY <1>3 DEF Stored
  <1>5. row(d) = db[d] BY <1>4, Own DEF Shareable
  <1> DEFINE s == db[d].subscription
             o == told(d, answer)
             u == unit(d, s, answer)
             D == {s}
             b == And([x \in D |-> db[x]], req[p].base)
             txs == <<u>>
             fate == Fate(next(d, answer))
  <1>6. Explained(db[d]) /\ s \in Stored(db, "subscription") /\ Rowed(db[d])
    BY <1>3, <1>4 DEF DeliveryInv, RowsOK, Held
  <1>7. /\ s \in DOMAIN db /\ db[s].table = "subscription" /\ db[s].status # "absent"
        /\ Rowed(db[s])
    BY <1>6 DEF Stored, DeliveryInv, Held
  <1>8. GoOn(p, "send", D, txs, "idle") BY <1>1, <1>5
  <1>9. db[d].attempts + 1 \in 1 .. MaxAttempts /\ db[d].attempts \in Int
    BY <1>3, <1>6 DEF Explained, MaxAttempts
  <1>10. /\ fate \in {"delivered", "stopped", "dlq", "due"}
         /\ fate = "delivered" <=> Outcome(answer) = "success_2xx"
         /\ fate = "stopped" => Outcome(answer) \in {"gone_410", "not_found_404"}
         /\ fate = "dlq" => db[d].attempts + 1 = MaxAttempts
         /\ fate = "due" => db[d].attempts + 1 < MaxAttempts
    <2>1. answer.retryAfter \in Int \cup {None} BY AnswersAssumption
    <2> DEFINE n == db[d].attempts + 1
    <2>2. fate = Fate(DecideRetry(n, Outcome(answer), answer.retryAfter)) BY <1>5
    <2> HIDE DEF n, fate
    <2>3. n \in 1 .. MaxAttempts BY <1>9 DEF n
    <2> DEFINE outcome == Outcome(answer)
               after   == answer.retryAfter
    <2> HIDE DEF outcome, after
    <2>4. after \in Int \cup {None} /\ fate = Fate(DecideRetry(n, outcome, after))
      BY <2>1, <2>2 DEF outcome, after
    <2>5. /\ fate \in {"delivered", "stopped", "dlq", "due"}
          /\ fate = "delivered" <=> outcome = "success_2xx"
          /\ fate = "stopped" => outcome \in {"gone_410", "not_found_404"}
          /\ fate = "dlq" => n = MaxAttempts
          /\ fate = "due" => n < MaxAttempts
      BY <2>3, <2>4, FateIs
    <2> QED BY <2>5 DEF n, outcome
  <1>11. o = [db[d] EXCEPT !.attempts = db[d].attempts + 1, !.outcome = Outcome(answer),
                           !.status = fate]
    BY <1>5
  <1> HIDE DEF fate
  <1>12. /\ {"table", "status", "subscription", "attempts", "outcome"} \subseteq DOMAIN db[d]
         /\ DOMAIN o = DOMAIN db[d] /\ o.attempts = db[d].attempts + 1
         /\ o.outcome = Outcome(answer) /\ o.status = fate
         /\ o.subscription = s /\ o.table = "delivery"
    BY <1>4, <1>6, <1>11 DEF Explained, Rowed
  <1>13. \/ fate # "stopped" /\ u = Only(d, o)
         \/ fate = "stopped" /\ u = And(Only(d, o), Only(s, Disabled(db[s])))
    BY <1>5 DEF fate
  <1> DEFINE off == Disabled(db[s])
  <1>14. DOMAIN off = DOMAIN db[s] /\ off.table = "subscription" /\ off.status # "absent"
    BY <1>7 DEF Disabled, Rowed
  <1> HIDE DEF o, u, off
  <1>15. Explained(o)
    <2>1. o.attempts \in 0 .. MaxAttempts BY <1>9, <1>12 DEF MaxAttempts
    <2> QED BY <1>10, <1>12, <2>1 DEF Explained
  <1>16. Rowed(o) /\ Rowed(off) BY <1>7, <1>12, <1>14 DEF Rowed
  <1>17. /\ d \in DOMAIN u /\ u[d] = o
         /\ \A x \in DOMAIN u : x = d \/ (x = s /\ u[x] = off)
    BY <1>13 DEF And, Only, off
  <1>18. UnitFits(db, u, D \cup DOMAIN req[p].base, Loose, Lasting)
    BY <1>4, <1>7, <1>10, <1>12, <1>14, <1>16, <1>17 DEF UnitFits, ObjectFits
  <1>19. UnitOK(db, u) BY <1>4, <1>7, <1>12, <1>15, <1>16, <1>17 DEF UnitOK
  <1>20. Savable(txs, D \cup DOMAIN req[p].base, Loose, Lasting) /\ Len(txs) = 1 /\ txs[1] = u
    BY <1>18, OneSavable
  <1>21. Readable(D) BY <1>7 DEF Readable, Present
  <1>22. \A x \in D : db[x].table \in Shareable \/ Settled(x) BY <1>7 DEF Shareable
  <1> HIDE DEF txs, D, b, s
  <1>23. PICK S : txs \in Seq(S) BY <1>20 DEF Savable
  <1>24. PendingOK(db, At(b, txs, "idle")) BY <1>19, <1>20, <1>23, SavingPending
  <1> QED BY <1>8, <1>20, <1>21, <1>22, <1>24, GoOnOK DEF b

LEMMA DocumentUnit ==
    ASSUME NEW d, NEW o, db[d].table = "document", Rowed(o), Tells(o)
    PROVE  UnitOK(db, Only(d, o))
  BY DEF UnitOK, Only

\* A call of submit begins with the first vendor of the settings.
LEMMA FirstVendor ==
    ASSUME NEW c, ValidForTier(c)
    PROVE  /\ Underway(Document(c), c) /\ Tells(Document(c)) /\ Rowed(Document(c))
           /\ Document(c).table = "document" /\ Document(c).status = "pending"
  <1> DEFINE o == Document(c)
  <1>1. /\ DOMAIN o = {"table", "status", "tried", "vendor", "failoverFrom", "policy"}
        /\ o.table = "document" /\ o.status = "pending" /\ o.tried = <<>>
        /\ o.vendor = c.primary /\ o.failoverFrom = None
    BY DEF Document
  <1>2. <<>> \in Seq(Registered) /\ Len(<<>>) = 0 OBVIOUS
  <1> HIDE DEF o
  <1>3. Underway(o, c) BY <1>1, <1>2 DEF Underway
  <1>4. Tells(o) /\ Rowed(o) BY <1>1 DEF Tells, Rowed
  <1> QED BY <1>1, <1>3, <1>4 DEF o

\* What a call may do with its document, after one more vendor was tried.
LEMMA TriedOnce ==
    ASSUME NEW row, NEW c, Underway(row, c), Rowed(row), NEW after, after = NextVendor(c, row.vendor)
    PROVE  /\ Tells(Tagged(row, c, row.vendor))
           /\ Tells([Tried(row) EXCEPT !.status = "failed"])
           /\ after # None /\ Transient(row.vendor) =>
                LET o == [Tried(row) EXCEPT !.failoverFrom = row.vendor, !.vendor = after]
                IN  Underway(o, c) /\ Tells(o)
  <1> DEFINE n     == Len(row.tried)
             tried == Append(row.tried, row.vendor)
             more  == [Tried(row) EXCEPT !.failoverFrom = row.vendor, !.vendor = after]
             done  == Tagged(row, c, row.vendor)
             ended == [Tried(row) EXCEPT !.status = "failed"]
  <1>1. /\ ValidForTier(c) /\ row.tried \in Seq(Registered)
        /\ {"status", "tried", "vendor", "failoverFrom", "policy"} \subseteq DOMAIN row
        /\ row.status = "pending"
    BY DEF Underway
  <1>2. \/ n = 0 /\ row.vendor = c.primary /\ row.failoverFrom = None
        \/ n = 1 /\ c.secondary # None /\ row.vendor = c.secondary
                 /\ row.failoverFrom = row.tried[1]
        \/ n = 2 /\ c.secondary # None /\ c.tertiary # None /\ row.vendor = c.tertiary
                 /\ row.failoverFrom = row.tried[2]
    BY DEF Underway
  <1>3. /\ c.primary \in Registered
        /\ c.secondary # None => c.secondary \in Registered /\ c.secondary # c.primary
        /\ c.tertiary # None => c.tertiary \in Registered /\ c.tertiary # c.primary
        /\ c.secondary # None => c.secondary # c.tertiary
    BY <1>1 DEF ValidForTier
  <1>4. row.vendor \in Registered BY <1>2, <1>3
  <1>5. /\ tried \in Seq(Registered) /\ Len(tried) = n + 1
        /\ \A i \in 1 .. n : tried[i] = row.tried[i]
        /\ tried[n + 1] = row.vendor
    BY <1>1, <1>4, Appended
  <1>6. DOMAIN done = DOMAIN row /\ done.tried = tried /\ done.vendor = row.vendor
        /\ done.failoverFrom = row.failoverFrom /\ done.policy = Policy(c)
    BY <1>1 DEF Tagged
  <1>7. DOMAIN ended = DOMAIN row /\ ended.status = "failed" BY <1>1 DEF Tried
  <1>8. DOMAIN more = DOMAIN row /\ more.tried = tried /\ more.vendor = after
        /\ more.failoverFrom = row.vendor /\ more.status = row.status
    BY <1>1 DEF Tried
  <1>9. n \in 0 .. 2 BY <1>2
  <1> HIDE DEF n, tried, more, done, ended
  <1>10. Tells(done)
    <2>1. done.tried[n + 1] = done.vendor BY <1>5, <1>6
    <2>2. done.failoverFrom = IF n + 1 = 1 THEN None ELSE done.tried[n]
      BY <1>2, <1>5, <1>6, <1>9
    <2>3. n + 1 <= IF done.policy = "single" THEN 1 ELSE IF done.policy = "dual" THEN 2 ELSE 3
      BY <1>2, <1>6, <1>9 DEF Policy
    <2>4. Len(done.tried) = n + 1 /\ (n + 1) - 1 = n BY <1>5, <1>6, <1>9
    <2> QED BY <1>1, <1>6, <2>1, <2>2, <2>3, <2>4 DEF Tells
  <1>11. Tells(ended) BY <1>1, <1>7 DEF Tells
  <1>12. ASSUME after # None, Transient(row.vendor)
         PROVE  Underway(more, c) /\ Tells(more)
    <2>1. \/ n = 0 /\ after = c.secondary /\ c.secondary # None
          \/ n = 1 /\ after = c.tertiary /\ c.secondary # None /\ c.tertiary # None
      BY <1>2, <1>3, <1>12 DEF NextVendor
    <2>2. Len(more.tried) = n + 1 /\ more.failoverFrom = more.tried[n + 1] BY <1>5, <1>8
    <2>3. Underway(more, c) BY <1>1, <1>5, <1>8, <2>1, <2>2 DEF Underway
    <2> QED BY <1>1, <1>8, <1>12, <2>3 DEF Tells
  <1> QED BY <1>10, <1>11, <1>12 DEF done, ended, more

LEMMA FirstSubmitOK ==
    ASSUME DeliveryInv, NEW p \in Workers, Free("document") # {},
           NEW s \in Rows("settings"), ValidForTier(db[s]),
           Begin(p, {New("document"), s}, <<Only(New("document"), Document(db[s]))>>, "call")
    PROVE  DeliveryInv'
  <1> DEFINE d == New("document")
             o == Document(db[s])
             D == {d, s}
             u == Only(d, o)
             txs == <<u>>
             b == [x \in D |-> db[x]]
  <1>1. d \in Free("document") BY NewRow
  <1>2. Begin(p, D, txs, "call") OBVIOUS
  <1> HIDE DEF d
  <1>3. d \in DOMAIN db /\ db[d].table = "document" /\ ~Present(d) BY <1>1, Freed
  <1>4. s \in DOMAIN db /\ db[s].table = "settings" BY Read
  <1>5. Readable(D) BY <1>1, ReadRows
  <1>6. /\ Underway(o, db[s]) /\ Tells(o) /\ Rowed(o) /\ o.table = "document"
        /\ o.status = "pending"
    BY FirstVendor
  <1> HIDE DEF o
  <1>7. UnitFits(db, u, D, Loose, Lasting) /\ DOMAIN u = {d} /\ u[d] = o
    <2>1. d \in D OBVIOUS
    <2> HIDE DEF D
    <2> QED BY <1>3, <1>6, <2>1, OnlyFits
  <1>8. UnitOK(db, u) BY <1>3, <1>6, DocumentUnit
  <1>9. \A x \in D : db[x].table \in Shareable \/ ~Present(x) BY <1>3, <1>4 DEF Shareable
  <1>10. DOMAIN b = {d, s} /\ b[s] = db[s] OBVIOUS
  <1>11. Calling(db, b, u)
    <2> HIDE DEF b, u
    <2> QED BY <1>3, <1>4, <1>6, <1>7, <1>10 DEF Calling
  <1>12. \A x \in DOMAIN b : x \in DOMAIN u <=> db[x].table = "document"
    <2> HIDE DEF b, u
    <2> QED BY <1>3, <1>4, <1>7, <1>10
  <1> HIDE DEF u
  <1>13. Savable(txs, D, Loose, Lasting) /\ Len(txs) = 1 /\ txs[1] = u BY <1>7, OneSavable
  <1> HIDE DEF txs
  <1>14. PICK S : txs \in Seq(S) BY <1>13 DEF Savable
  <1> HIDE DEF b
  <1>15. PendingOK(db, At(b, txs, "call")) BY <1>8, <1>11, <1>12, <1>13, <1>14, SavingPending
  <1> HIDE DEF D
  <1> QED BY <1>2, <1>5, <1>9, <1>13, <1>15, BeginOK DEF b

\* A call goes on with its document, to another vendor or to its end.
LEMMA NextSubmitOK ==
    ASSUME DeliveryInv, NEW p \in Workers, req[p].pc = "call",
           NEW d \in DOMAIN req[p].base, NEW s \in DOMAIN req[p].base,
           db[d].table = "document", db[s].table = "settings",
           NEW o, Rowed(o), o.table = "document", o.status # "absent", Tells(o),
           NEW then, then = "idle" \/ (then = "call" /\ Underway(o, req[p].base[s])),
           GoOn(p, "call", {}, <<Only(d, o)>>, then)
    PROVE  DeliveryInv'
  <1> DEFINE u == Only(d, o)
             txs == <<u>>
  <1>1. PICK D \in SUBSET DOMAIN db : D = {} OBVIOUS
  <1> DEFINE b == And([x \in D |-> db[x]], req[p].base)
  <1>2. GoOn(p, "call", D, txs, then) BY <1>1
  <1>3. PendingOK(db, req[p]) BY DEF DeliveryInv
  <1>4. Calling(db, req[p].base, req[p].base) BY <1>3 DEF PendingOK
  <1>5. d \in DOMAIN db BY DEF DeliveryInv, Held, RequestFits
  <1>6. DOMAIN b = DOMAIN req[p].base /\ b[s] = req[p].base[s] BY <1>1 DEF And
  <1>7. UnitFits(db, u, D \cup DOMAIN req[p].base, Loose, Lasting) /\ DOMAIN u = {d} /\ u[d] = o
    BY <1>5, OnlyFits
  <1>8. UnitOK(db, u) BY DocumentUnit
  <1> HIDE DEF u, b
  <1>9. \A x \in DOMAIN b : x \in DOMAIN u <=> db[x].table = "document"
    BY <1>4, <1>6, <1>7 DEF Calling
  <1>10. then = "call" => Calling(db, b, u) BY <1>4, <1>6, <1>7 DEF Calling
  <1>11. Savable(txs, D \cup DOMAIN req[p].base, Loose, Lasting) /\ Len(txs) = 1 /\ txs[1] = u
    BY <1>7, OneSavable
  <1> HIDE DEF txs
  <1>12. PICK S : txs \in Seq(S) BY <1>11 DEF Savable
  <1>13. PendingOK(db, At(b, txs, then)) BY <1>8, <1>9, <1>10, <1>11, <1>12, SavingPending
  <1>14. Readable(D) /\ \A x \in D : db[x].table \in Shareable \/ Settled(x)
    BY <1>1 DEF Readable
  <1>15. then \notin {"reload", "write"} OBVIOUS
  <1> QED BY <1>2, <1>11, <1>13, <1>14, <1>15, GoOnOK DEF b

LEMMA SubmitOK ==
    ASSUME DeliveryInv, NEW p \in Workers, Submit(p)
    PROVE  DeliveryInv'
  <1>1. CASE /\ Free("document") # {}
             /\ \E s \in Rows("settings") :
                    /\ ValidForTier(db[s])
                    /\ Begin(p, {New("document"), s},
                             <<Only(New("document"), Document(db[s]))>>, "call")
    BY <1>1, FirstSubmitOK
  <1> DEFINE done(row, c)  == Tagged(row, c, row.vendor)
             ended(row)    == [Tried(row) EXCEPT !.status = "failed"]
             more(row, c)  == [Tried(row) EXCEPT !.failoverFrom = row.vendor,
                                                 !.vendor = NextVendor(c, row.vendor)]
             Ends(d, c)    == GoOn(p, "call", {}, <<Only(d, ended(req[p].base[d]))>>, "idle")
             Goes(d, c)    == GoOn(p, "call", {}, <<Only(d, more(req[p].base[d], c))>>, "call")
             Archives(d, c) == GoOn(p, "call", {}, <<Only(d, done(req[p].base[d], c))>>, "idle")
  <1>2. CASE /\ req[p].pc = "call"
             /\ \E d, s \in DOMAIN req[p].base :
                /\ db[d].table = "document" /\ db[s].table = "settings"
                /\ \/ Archives(d, req[p].base[s])
                   \/ Ends(d, req[p].base[s])
                   \/ /\ ~Sends(req[p].base[d].vendor)
                      /\ NextVendor(req[p].base[s], req[p].base[d].vendor) # None
                      /\ Goes(d, req[p].base[s])
    <2>1. PICK d, s \in DOMAIN req[p].base :
            /\ db[d].table = "document" /\ db[s].table = "settings"
            /\ \/ Archives(d, req[p].base[s])
               \/ Ends(d, req[p].base[s])
               \/ /\ ~Sends(req[p].base[d].vendor)
                  /\ NextVendor(req[p].base[s], req[p].base[d].vendor) # None
                  /\ Goes(d, req[p].base[s])
      BY <1>2
    <2> DEFINE row == req[p].base[d]
               c   == req[p].base[s]
    <2>2. d \in DOMAIN db /\ row = db[d] BY <2>1, Own DEF Shareable, Lasting
    <2>3. PendingOK(db, req[p]) BY DEF DeliveryInv
    <2>4. Underway(row, c) BY <1>2, <2>1, <2>3 DEF PendingOK, Calling
    <2>6. /\ {"table", "status", "tried", "vendor", "failoverFrom", "policy"} \subseteq DOMAIN row
          /\ row.table = "document" /\ Rowed(row)
      BY <2>1, <2>2, <2>4 DEF DeliveryInv, Held, Rowed, Underway
    <2> HIDE DEF row, c
    <2>7. /\ DOMAIN done(row, c) = DOMAIN row /\ done(row, c).table = "document"
          /\ done(row, c).status = "archived"
      BY <2>6 DEF Tagged
    <2>8. /\ DOMAIN ended(row) = DOMAIN row /\ ended(row).table = "document"
          /\ ended(row).status = "failed"
      BY <2>6 DEF Tried
    <2>9. /\ DOMAIN more(row, c) = DOMAIN row /\ more(row, c).table = "document"
          /\ more(row, c).status = "pending"
      BY <2>4, <2>6 DEF Tried, Underway
    <2>10. Tells(done(row, c)) /\ Tells(ended(row)) BY <2>4, <2>6, TriedOnce
    <2>11. NextVendor(c, row.vendor) # None /\ ~Sends(row.vendor) =>
               Underway(more(row, c), c) /\ Tells(more(row, c))
      BY <2>4, <2>6, TriedOnce DEF Transient
    <2> HIDE DEF done, ended, more
    <2>12. Rowed(done(row, c)) /\ Rowed(ended(row)) /\ Rowed(more(row, c))
      BY <2>6, <2>7, <2>8, <2>9 DEF Rowed
    <2>13. CASE Archives(d, c)
      BY <1>2, <2>1, <2>7, <2>10, <2>12, <2>13, NextSubmitOK DEF row
    <2>14. CASE Ends(d, c)
      BY <1>2, <2>1, <2>8, <2>10, <2>12, <2>14, NextSubmitOK DEF row
    <2>15. CASE ~Sends(row.vendor) /\ NextVendor(c, row.vendor) # None /\ Goes(d, c)
      BY <1>2, <2>1, <2>9, <2>11, <2>12, <2>15, NextSubmitOK DEF row, c
    <2> QED BY <2>1, <2>13, <2>14, <2>15 DEF row, c
  <1> QED BY <1>1, <1>2 DEF Submit
-----------------------------------------------------------------------------
(* Jobs. Redis changes them in one step.                                   *)

\* The rows of a job that one step changes, and what the others wait with.
LEMMA JobRows ==
    ASSUME DeliveryInv, NEW j \in Stored(db, "job"), NEW row, row.table = "job",
           row.status = "absent" \/ (Counted(row) /\ row.key = db[j].key),
           db' = [db EXCEPT ![j] = row]
    PROVE  /\ RowsOK(db') /\ DOMAIN db' = DOMAIN db /\ db'[j] = row /\ j \in DOMAIN db
           /\ \A d \in DOMAIN db : db'[d].table = db[d].table
           /\ \A d \in DOMAIN db \ {j} : db'[d] = db[d]
           /\ \A q \in Workers : j \notin DOMAIN req[q].base => PendingOK(db', req[q])
  <1>1. j \in DOMAIN db /\ db[j].table = "job" BY DEF Stored
  <1>2. /\ DOMAIN db' = DOMAIN db /\ db'[j] = row
        /\ \A d \in DOMAIN db \ {j} : db'[d] = db[d]
    BY <1>1
  <1>3. \A d \in DOMAIN db : db'[d].table = db[d].table BY <1>1, <1>2
  <1>4. RowsOK(db) BY DEF DeliveryInv
  <1>5. \A t : t # "job" => Stored(db', t) = Stored(db, t) BY <1>1, <1>2, <1>3 DEF Stored
  <1>6. \A i \in Stored(db', "job") :
            /\ i \in Stored(db, "job") /\ (i # j => db'[i] = db[i])
            /\ Counted(db'[i]) /\ db'[i].key = db[i].key
    <2> SUFFICES ASSUME NEW i \in Stored(db', "job")
                 PROVE  /\ i \in Stored(db, "job") /\ (i # j => db'[i] = db[i])
                        /\ Counted(db'[i]) /\ db'[i].key = db[i].key
      OBVIOUS
    <2>1. CASE i = j BY <1>2, <2>1 DEF Stored
    <2>2. CASE i # j
      <3>1. i \in Stored(db, "job") /\ db'[i] = db[i] BY <1>2, <2>2 DEF Stored
      <3> QED BY <1>4, <2>2, <3>1 DEF RowsOK
    <2> QED BY <2>1, <2>2
  <1>7. OfTheirOwn(db') BY <1>4, <1>6 DEF RowsOK, OfTheirOwn
  <1>8. \A d \in Stored(db, "delivery") \cup Stored(db, "document") : db'[d] = db[d]
    BY <1>1, <1>2 DEF Stored
  <1>9. RowsOK(db') BY <1>4, <1>5, <1>6, <1>7, <1>8 DEF RowsOK
  <1>10. ASSUME NEW q \in Workers, j \notin DOMAIN req[q].base PROVE PendingOK(db', req[q])
    <2>1. DOMAIN req[q].base \subseteq DOMAIN db BY DEF DeliveryInv, Held, RequestFits
    <2>2. Kept(db, db', DOMAIN req[q].base) BY <1>2, <1>3, <1>10, <2>1 DEF Kept
    <2>3. PendingOK(db, req[q]) BY DEF DeliveryInv
    <2> QED BY <2>2, <2>3, UnitInHand, PendingKept
  <1> QED BY <1>1, <1>2, <1>3, <1>9, <1>10

\* A worker changes a job and has another request then.
LEMMA WorkedJobOK ==
    ASSUME DeliveryInv, NEW p \in Workers, NEW j \in Stored(db, "job"), NEW row, Rowed(row),
           row.table = "job", row.status = "absent" \/ (Counted(row) /\ row.key = db[j].key),
           NEW r, db' = [db EXCEPT ![j] = row], req' = [req EXCEPT ![p] = r],
           contended' = contended, calls' = calls,
           \A q \in Workers \ {p} : j \notin DOMAIN req[q].base,
           DOMAIN r.base \subseteq {j}, RequestFits(db', contended, r, Loose, Lasting),
           PendingOK(db', r)
    PROVE  DeliveryInv'
  <1>1. /\ RowsOK(db') /\ DOMAIN db' = DOMAIN db /\ j \in DOMAIN db
        /\ \A d \in DOMAIN db : db'[d].table = db[d].table
        /\ \A q \in Workers : j \notin DOMAIN req[q].base => PendingOK(db', req[q])
    BY JobRows
  <1>2. db[j].table = "job" BY DEF Stored
  <1>3. Held(Loose, Lasting) /\ Loose \subseteq Lasting BY DEF DeliveryInv, Loose, Lasting
  <1>4. DOMAIN req' = Workers /\ \A q \in Workers : req'[q] = IF q = p THEN r ELSE req[q]
    BY <1>3 DEF Held
  <1>5. \A s \in Workers \ {p} : /\ Apart(db', contended, r, req[s], Loose)
                                 /\ Apart(db', contended, req[s], r, Loose)
    BY DEF Apart
  <1>6. Held(Loose, Lasting)'
    <2>1. db[j].table \notin Lasting /\ row.table = db[j].table BY <1>2 DEF Lasting
    <2>2. \A q \in Workers :
            \/ req'[q] = req[q] /\ j \notin DOMAIN req[q].base
            \/ /\ RequestFits(db', contended, req'[q], Loose, Lasting)
               /\ \A s \in Workers \ {q} : req'[s] = req[s] /\ j \notin DOMAIN req[s].base
               /\ \A s \in Workers \ {q} : /\ Apart(db', contended, req'[q], req[s], Loose)
                                           /\ Apart(db', contended, req[s], req'[q], Loose)
      BY <1>4, <1>5
    <2> QED BY <1>1, <1>3, <1>4, <2>1, <2>2, RowHeld, ZenonT(60)
  <1>7. \A q \in Workers : PendingOK(db', req'[q]) BY <1>1, <1>4
  <1>8. \A d \in contended' : d \in DOMAIN db' /\ db'[d].table \in Shareable
    BY <1>1 DEF DeliveryInv
  <1>9. calls' \in Nat /\ calls' <= MaxCalls BY DEF DeliveryInv
  <1> QED BY <1>1, <1>6, <1>7, <1>8, <1>9 DEF DeliveryInv

\* A job changes that no request has in hand.
LEMMA SettledJobOK ==
    ASSUME DeliveryInv, NEW j \in Stored(db, "job"), Settled(j), NEW row, Rowed(row),
           row.table = "job", row.status = "absent" \/ (Counted(row) /\ row.key = db[j].key),
           db' = [db EXCEPT ![j] = row], UNCHANGED <<req, contended, calls>>
    PROVE  DeliveryInv'
  <1>1. /\ RowsOK(db') /\ DOMAIN db' = DOMAIN db /\ j \in DOMAIN db
        /\ \A d \in DOMAIN db : db'[d].table = db[d].table
        /\ \A q \in Workers : j \notin DOMAIN req[q].base => PendingOK(db', req[q])
    BY JobRows
  <1>2. db[j].table = "job" BY DEF Stored
  <1>3. Held(Loose, Lasting) /\ Loose \subseteq Lasting BY DEF DeliveryInv, Loose, Lasting
  <1>4. Held(Loose, Lasting)'
    <2>1. db[j].table \notin Lasting /\ row.table = db[j].table BY <1>2 DEF Lasting
    <2>2. DOMAIN req' = Workers BY <1>3 DEF Held
    <2>3. \A q \in Workers : req'[q] = req[q] /\ j \notin DOMAIN req[q].base BY DEF Settled
    <2> QED BY <1>1, <1>3, <2>1, <2>2, <2>3, RowHeld
  <1>5. \A q \in Workers : PendingOK(db', req'[q]) BY <1>1 DEF Settled
  <1>6. \A d \in contended' : d \in DOMAIN db' /\ db'[d].table \in Shareable
    BY <1>1 DEF DeliveryInv
  <1>7. calls' \in Nat /\ calls' <= MaxCalls BY DEF DeliveryInv
  <1> QED BY <1>1, <1>4, <1>5, <1>6, <1>7 DEF DeliveryInv

\* A job that is there has its columns.
LEMMA StoredJob ==
    ASSUME DeliveryInv, NEW j \in Stored(db, "job")
    PROVE  /\ j \in DOMAIN db /\ db[j].table = "job" /\ db[j].status # "absent" /\ Counted(db[j])
           /\ {"table", "status", "key", "task", "attemptsMade", "stalls"} \subseteq DOMAIN db[j]
           /\ db[j].attemptsMade \in Nat /\ db[j].stalls \in Nat
  BY DEF Stored, DeliveryInv, RowsOK, Held, Rowed, Counted

LEMMA TakeOK ==
    ASSUME DeliveryInv, NEW p \in Workers, Take(p)
    PROVE  DeliveryInv'
  <1> DEFINE taken(j) == [db[j] EXCEPT !.status = "active"]
  <1>1. PICK j \in Rows("job") :
            /\ db[j].status = "waiting" /\ Settled(j)
            /\ db' = [db EXCEPT ![j] = taken(j)]
            /\ req' = [req EXCEPT ![p] = At(Only(j, taken(j)), <<>>, "run")]
    BY DEF Take
  <1> DEFINE row == taken(j)
             b   == Only(j, row)
             r   == At(b, <<>>, "run")
  <1>2. j \in Stored(db, "job") BY SameRows
  <1>3. contended' = contended /\ calls' = calls BY DEF Take
  <1>4. /\ DOMAIN row = DOMAIN db[j] /\ row.status = "active" /\ row.table = "job"
        /\ row.key = db[j].key /\ row.task = db[j].task /\ row.stalls = db[j].stalls
        /\ row.attemptsMade = db[j].attemptsMade
    BY <1>2, StoredJob
  <1>5. db' = [db EXCEPT ![j] = row] /\ req' = [req EXCEPT ![p] = r] BY <1>1
  <1> HIDE DEF row
  <1>6. Rowed(row) /\ Counted(row) BY <1>1, <1>2, <1>4, StoredJob DEF Rowed, Counted
  <1>7. DOMAIN b = {j} /\ b[j] = row BY DEF Only
  <1> HIDE DEF b
  <1>8. j \in DOMAIN db /\ DOMAIN db' = DOMAIN db /\ db'[j] = row BY <1>2, <1>5, StoredJob
  <1>9. RequestFits(db', contended, r, Loose, Lasting) /\ DOMAIN r.base \subseteq {j}
    <2>1. <<>> \in Seq({}) /\ Len(<<>>) = 0 OBVIOUS
    <2> DEFINE txs == <<>>
    <2>2. \A i \in 1 .. Len(txs) : UnitFits(db', txs[i], DOMAIN b, Loose, Lasting) BY <2>1
    <2>3. \A d \in DOMAIN b \ contended : AsRead(db', d, Loose, Lasting) => b[d] = db'[d]
      BY <1>7, <1>8
    <2>4. DOMAIN b \subseteq DOMAIN db' BY <1>7, <1>8
    <2> HIDE DEF txs
    <2>5. txs \in Seq({}) BY <2>1 DEF txs
    <2> DEFINE then == "run"
               w    == At(b, txs, then)
    <2>6. then \notin {"reload", "write"} OBVIOUS
    <2> HIDE DEF then
    <2>7. RequestFits(db', contended, w, Loose, Lasting) /\ DOMAIN w.base \subseteq DOMAIN b
      BY <2>2, <2>3, <2>4, <2>5, <2>6, AtFits
    <2> QED BY <1>7, <2>7 DEF then, txs
  <1>10. \A x \in DOMAIN b : x \in Stored(db', "job") /\ db'[x].status = "active"
    BY <1>4, <1>7, <1>8 DEF Stored
  <1>11. PendingOK(db', r) BY <1>10, WaitingPending
  <1>12. \A q \in Workers \ {p} : j \notin DOMAIN req[q].base BY <1>1 DEF Settled
  <1> HIDE DEF r
  <1> QED BY <1>2, <1>3, <1>4, <1>5, <1>6, <1>9, <1>11, <1>12, WorkedJobOK

LEMMA ProcessOK ==
    ASSUME DeliveryInv, NEW p \in Workers, Process(p)
    PROVE  DeliveryInv'
  <1>0. PICK j \in DOMAIN req[p].base :
            \E succeeded \in Processed(req[p].base[j].task) :
                db' = [db EXCEPT ![j] = Afterwards(req[p].base[j], succeeded)]
    BY DEF Process
  <1>1. PICK succeeded \in Processed(req[p].base[j].task) :
            db' = [db EXCEPT ![j] = Afterwards(req[p].base[j], succeeded)]
    BY <1>0
  <1>2. j \in Stored(db, "job") /\ db[j].status = "active"
    BY DEF DeliveryInv, PendingOK, Process
  <1>3. req' = [req EXCEPT ![p] = Idle] /\ contended' = contended /\ calls' = calls
    BY DEF Process
  <1>4. /\ {"table", "status", "key", "task", "attemptsMade", "stalls"} \subseteq DOMAIN db[j]
        /\ db[j].table = "job" /\ db[j].attemptsMade \in Nat /\ db[j].stalls \in Nat
        /\ Counted(db[j])
    BY <1>2, StoredJob
  <1>5. /\ req[p].base[j] = db[j]
        /\ \A q \in Workers \ {p} : j \notin DOMAIN req[q].base
    BY <1>2, <1>4, Own DEF Shareable, Stored
  <1> DEFINE row == Afterwards(db[j], succeeded)
  <1>6. db[j].attemptsMade < Attempts BY <1>2, <1>4 DEF Counted
  <1>7. /\ DOMAIN row = DOMAIN db[j] /\ row.table = "job" /\ row.key = db[j].key
        /\ row.task = db[j].task /\ row.stalls = db[j].stalls
        /\ \/ row.status = "completed" /\ row.attemptsMade = db[j].attemptsMade
           \/ /\ row.attemptsMade = db[j].attemptsMade + 1
              /\ \/ row.attemptsMade < Attempts /\ row.status = "waiting"
                 \/ ~(row.attemptsMade < Attempts) /\ row.status = "failed"
    BY <1>4 DEF Afterwards
  <1> HIDE DEF row
  <1>8. Rowed(row) /\ Counted(row)
    <2>1. row.attemptsMade \in Nat BY <1>4, <1>7
    <2>2. row.status \in {"waiting", "active"} => row.attemptsMade < Attempts BY <1>7
    <2>3. row.status = "failed" => row.attemptsMade = Attempts
      BY <1>4, <1>6, <1>7 DEF Attempts
    <2> QED BY <1>4, <1>7, <2>1, <2>2, <2>3 DEF Counted, Rowed
  <1>9. /\ RequestFits(db', contended, Idle, Loose, Lasting) /\ PendingOK(db', Idle)
        /\ DOMAIN Idle.base \subseteq {j}
    <2>1. DOMAIN Idle.base = {} BY DEF Idle, Nothing
    <2> QED BY <2>1, IdleFits, IdlePending
  <1>10. db' = [db EXCEPT ![j] = row] BY <1>1, <1>5 DEF row
  <1> HIDE DEF Idle
  <1> QED BY <1>2, <1>3, <1>5, <1>7, <1>8, <1>9, <1>10, WorkedJobOK

LEMMA StalledOK ==
    ASSUME DeliveryInv, NEW j \in DOMAIN db, Stalled(j)
    PROVE  DeliveryInv'
  <1> DEFINE row == [db[j] EXCEPT !.stalls = @ + 1,
                         !.status = IF db[j].stalls < StallsLimit THEN "waiting" ELSE "failed"]
  <1>1. db[j].status = "active" /\ j \in Stored(db, "job") BY DEF Stalled, Stored
  <1>2. /\ {"table", "status", "key", "task", "attemptsMade", "stalls"} \subseteq DOMAIN db[j]
        /\ db[j].table = "job" /\ db[j].attemptsMade \in Nat /\ db[j].stalls \in Nat
        /\ Counted(db[j])
    BY <1>1, StoredJob
  <1>3. db' = [db EXCEPT ![j] = row] BY DEF Stalled
  <1>4. /\ DOMAIN row = DOMAIN db[j] /\ row.table = "job" /\ row.key = db[j].key
        /\ row.task = db[j].task /\ row.stalls = db[j].stalls + 1
        /\ row.attemptsMade = db[j].attemptsMade
        /\ row.status = IF db[j].stalls < StallsLimit THEN "waiting" ELSE "failed"
    BY <1>2
  <1> HIDE DEF row
  <1>5. Rowed(row) /\ Counted(row)
    <2>1. row.stalls \in Nat BY <1>2, <1>4
    <2>2. row.attemptsMade < Attempts BY <1>1, <1>2, <1>4 DEF Counted
    <2>3. row.status = "failed" => row.stalls > StallsLimit BY <1>2, <1>4 DEF StallsLimit
    <2> QED BY <1>2, <1>4, <2>1, <2>2, <2>3 DEF Counted, Rowed
  <1>6. Settled(j) /\ UNCHANGED <<req, contended, calls>> BY DEF Stalled
  <1> QED BY <1>1, <1>3, <1>4, <1>5, <1>6, SettledJobOK

LEMMA ForgetOK ==
    ASSUME DeliveryInv, NEW j \in DOMAIN db, Forget(j)
    PROVE  DeliveryInv'
  <1>1. j \in Stored(db, "job") BY DEF Forget, Ended, Stored
  <1> DEFINE row == Absent("job")
  <1>2. Rowed(row) /\ row.table = "job" /\ row.status = "absent" BY DEF Absent, Rowed
  <1>3. db' = [db EXCEPT ![j] = row] /\ Settled(j) /\ UNCHANGED <<req, contended, calls>>
    BY DEF Forget
  <1> HIDE DEF row
  <1> QED BY <1>1, <1>2, <1>3, SettledJobOK
-----------------------------------------------------------------------------
(* The theorems.                                                           *)

LEMMA StartOK ==
    ASSUME Start
    PROVE  DeliveryInv
  <1>1. db \in Scenes /\ contended = {} /\ calls = 0 /\ \A p \in Workers : req[p] = Idle
    BY DEF Start
  <1>2. Held(Loose, Lasting) BY StartHeld
  <1>3. RowsOK(db)
    BY <1>1, DeliveriesAssumption, JobsAssumption, DocumentsAssumption DEF RowsOK
  <1>4. \A p \in Workers : PendingOK(db, req[p]) BY <1>1, IdlePending
  <1>5. calls \in Nat /\ calls <= MaxCalls BY <1>1, RequestsAssumption
  <1> QED BY <1>1, <1>2, <1>3, <1>4, <1>5 DEF DeliveryInv

LEMMA NextOK ==
    ASSUME DeliveryInv, [Next]_vars
    PROVE  DeliveryInv'
  <1>1. CASE UNCHANGED vars
    <2>1. UNCHANGED <<db, req, contended, calls>> BY <1>1 DEF vars
    <2>2. Held(Loose, Lasting)' BY <2>1, StillHeld DEF DeliveryInv
    <2> QED BY <2>1, <2>2 DEF DeliveryInv
  <1>2. ASSUME NEW p \in Workers, WebhookStep(p) \/ Enqueue(p) \/ Submit(p) \/ ChangeSettings(p)
        PROVE  DeliveryInv'
    BY <1>2, WebhookStepOK, EnqueueOK, SubmitOK, ChangeSettingsOK
  <1>3. ASSUME NEW p \in Workers, Worked(p) \/ Statements(p)
        PROVE  DeliveryInv'
    BY <1>3, DeliverOK, RecordOK, TakeOK, ProcessOK, StatementsOK DEF Worked
  <1>4. ASSUME NEW j \in DOMAIN db, Stalled(j) \/ Forget(j) PROVE DeliveryInv'
    BY <1>4, StalledOK, ForgetOK
  <1> QED BY <1>1, <1>2, <1>3, <1>4 DEF Next, Quiet

\* The invariant of what leaves the backend: every delivery, job and document is as
\* it should be, and so is whatever a request has read or is about to save of it.
THEOREM DeliveryHeld == Spec => []DeliveryInv
  <1>1. Start => DeliveryInv BY StartOK DEF Start
  <1>2. DeliveryInv /\ [Next]_vars => DeliveryInv' BY NextOK
  <1> QED BY <1>1, <1>2, PTL DEF Spec

\* decideRetry tells success by a retry with no delay: whatever endpoints answer, a
\* delivery is done exactly when its endpoint accepted, and given up after six tries.
THEOREM FatesExplained == Spec => []FateExplained
  <1>1. DeliveryInv => FateExplained
    <2> SUFFICES ASSUME DeliveryInv, NEW d \in Rows("delivery")
                 PROVE  /\ db[d].status = "delivered" <=> db[d].outcome = "success_2xx"
                        /\ db[d].status = "dlq" => db[d].attempts = MaxAttempts
                        /\ db[d].status = "stopped" => db[d].outcome \in {"gone_410", "not_found_404"}
                        /\ db[d].attempts <= MaxAttempts
      BY DEF FateExplained
    <2>1. Explained(db[d]) BY SameRows DEF DeliveryInv, RowsOK
    <2> QED BY <2>1 DEF Explained, MaxAttempts
  <1> QED BY <1>1, DeliveryHeld, PTL

\* Two requests that ask for one purpose at once are given one job, and a job fails
\* after three attempts or two stalls only, whatever its workers and Redis do.
THEOREM JobsAskedOnce == Spec => []AskedOnce
  <1>1. DeliveryInv => AskedOnce
    <2> SUFFICES ASSUME DeliveryInv PROVE AskedOnce OBVIOUS
    <2>1. ASSUME NEW task \in Tasks, ~Dated(task)
          PROVE  Cardinality({j \in Rows("job") : db[j].task = task}) <= 1
      <3> DEFINE S == {j \in Rows("job") : db[j].task = task}
      <3>1. \A i, j \in S : i = j
        <4> SUFFICES ASSUME NEW i \in S, NEW j \in S PROVE i = j OBVIOUS
        <4>1. i \in Stored(db, "job") /\ j \in Stored(db, "job") BY SameRows
        <4>2. db[i].key = <<task, None>> /\ db[j].key = <<task, None>>
          BY <2>1, <4>1 DEF DeliveryInv, RowsOK, Counted
        <4> QED BY <4>1, <4>2 DEF DeliveryInv, RowsOK, OfTheirOwn
      <3> HIDE DEF S
      <3>2. CASE S = {} BY <3>2, FS_EmptySet DEF S
      <3>3. CASE S # {}
        <4>1. PICK j : S = {j} BY <3>1, <3>3
        <4> QED BY <4>1, FS_Singleton DEF S
      <3> QED BY <3>2, <3>3
    <2>2. ASSUME NEW j \in Rows("job"), db[j].status = "failed"
          PROVE  db[j].attemptsMade = Attempts \/ db[j].stalls > StallsLimit
      BY <2>2, SameRows DEF DeliveryInv, RowsOK, Counted
    <2> QED BY <2>1, <2>2 DEF AskedOnce
  <1> QED BY <1>1, DeliveryHeld, PTL

\* The receipt of ConservazioneOrchestrator.submit names the vendors that were tried
\* in their order, although the tenant's settings are saved while the call goes on.
THEOREM ReceiptsTell == Spec => []ReceiptTellsFailover
  <1>1. DeliveryInv => ReceiptTellsFailover
    BY SameRows DEF DeliveryInv, RowsOK, ReceiptTellsFailover
  <1> QED BY <1>1, DeliveryHeld, PTL
=============================================================================
