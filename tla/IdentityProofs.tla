--------------------------- MODULE IdentityProofs ---------------------------
(***************************************************************************)
(* Proofs about Identity and Copilot together, the specification MCIdentity *)
(* checks on a small instance, for every set of workers, of users, tenants *)
(* and roles, every lock-out policy and every database to start from:      *)
(*                                                                         *)
(*   SpentStaySpent    a spent refresh token never works again             *)
(*   LocksAsCounted    an account is locked from its last miss to a login  *)
(*   AccessIsAgreed    nobody acts in a tenant without having consented    *)
(*   CapNeverPassed    the assistant's day ends about where its cap is     *)
(***************************************************************************)
EXTENDS MCIdentity, RequestsProofs, FiniteSetTheorems

Loose   == {"token"}
Lasting == {"user", "token", "membership"}

(***************************************************************************)
(* What a transaction to be committed says, beside the rows as they are    *)
(* now. What a user's row will say it says of the hash at least: null, one *)
(* of the token it brings, or the one there is. A token it brings is for   *)
(* the user's own tenant or for one he agreed to; any other it spends.     *)
(***************************************************************************)
UserOK(rows, hot, u, d) ==
    LET o == u[d]
        t == o.hash
    IN  /\ "hash" \in DOMAIN o
        /\ rows[d].status = "absent" => Shaped(o)
        /\ rows[d].status # "absent" /\ "tenant" \in DOMAIN o => o.tenant = rows[d].tenant
        /\ d \notin hot =>
            /\ "failed" \in DOMAIN o => "lockedUntil" \in DOMAIN o /\ Locks(o)
            /\ "lockedUntil" \in DOMAIN o => "failed" \in DOMAIN o
            /\ \/ t = None
               \/ t \in DOMAIN u /\ rows[t].table = "token" /\ rows[t].status = "absent"
               \/ rows[d].status # "absent" /\ t = rows[d].hash /\ DOMAIN u = {d}

TokenOK(rows, hot, u, d) ==
    LET o == u[d]
    IN  /\ Shaped(o)
        /\ o.user \in DOMAIN u /\ o.user \in Stored(rows, "user")
        /\ rows[d].status # "absent" => o.user = rows[d].user /\ o.tenant = rows[d].tenant
        /\ rows[d].status = "absent" =>
            /\ o.status = "given"
            /\ o.tenant = rows[o.user].tenant \/ Agreed(rows, hot, o.tenant, o.user)

MembershipOK(rows, hot, time, d, o) ==
    /\ Shaped(o)
    /\ o.user \in Stored(rows, "user") /\ o.key = <<o.tenant, o.user>>
    /\ rows[d].status # "absent" =>
        /\ o.user = rows[d].user /\ o.tenant = rows[d].tenant
        /\ d \notin hot /\ rows[d].consentedAt # None => o.consentedAt # None
    /\ d \notin hot => Joins(o, time)

UnitOK(rows, hot, time, u) ==
    \A d \in DOMAIN u :
        /\ rows[d].table = "user" => UserOK(rows, hot, u, d)
        /\ rows[d].table = "token" => TokenOK(rows, hot, u, d)
        /\ rows[d].table = "membership" => MembershipOK(rows, hot, time, d, u[d])

\* Only the first transaction of a request is about users.
Elsewhere(rows, u) == \A d \in DOMAIN u : rows[d].table \notin Lasting

\* A switch of tenant has read the membership, and has a token's id for itself.
MintOK(rows, hot, b) ==
    \A d \in DOMAIN b :
        /\ rows[d].table = "token" => rows[d].status = "absent"
        /\ rows[d].table = "membership" =>
            /\ d \in Stored(rows, "membership")
            /\ b[d].tenant = rows[d].tenant /\ b[d].user = rows[d].user
            /\ rows[d].consentedAt # None \/ d \in hot

PendingOK(rows, hot, time, r) ==
    /\ \A i \in 1 .. Len(r.todo) :
        IF i = 1 THEN UnitOK(rows, hot, time, r.todo[i]) ELSE Elsewhere(rows, r.todo[i])
    /\ r.then = "mint" => r.pc = "mint" /\ r.todo = <<>>
    /\ r.pc = "mint" => MintOK(rows, hot, r.base)

IdentityInv ==
    /\ Held(Loose, Lasting)
    /\ RowsOK(db, contended, now)
    /\ \A p \in Workers : PendingOK(db, contended, now, req[p])
    /\ now \in Nat /\ None \notin DOMAIN db
-----------------------------------------------------------------------------
(* What a transaction leaves of the rows.                                  *)

\* Rows keep what tells whose they are, and a consent that was given.
Grown(rows, after, hot) ==
    /\ DOMAIN after = DOMAIN rows
    /\ \A d \in DOMAIN rows : after[d].table = rows[d].table
    /\ \A t \in Lasting : Stored(rows, t) \subseteq Stored(after, t)
    /\ \A u \in Stored(rows, "user") : after[u].tenant = rows[u].tenant
    /\ \A t \in Stored(rows, "token") :
           after[t].user = rows[t].user /\ after[t].tenant = rows[t].tenant
    /\ \A m \in Stored(rows, "membership") :
           /\ after[m].key = rows[m].key
           /\ after[m].tenant = rows[m].tenant /\ after[m].user = rows[m].user
           /\ m \notin hot /\ rows[m].consentedAt # None => after[m].consentedAt # None

LEMMA AgreedGrows ==
    ASSUME NEW rows, NEW after, NEW hot, NEW hotter, Grown(rows, after, hot), hot \subseteq hotter,
           NEW tenant, NEW u, Agreed(rows, hot, tenant, u)
    PROVE  Agreed(after, hotter, tenant, u)
  <1>1. PICK m \in Stored(rows, "membership") :
            rows[m].key = <<tenant, u>> /\ (rows[m].consentedAt # None \/ m \in hot)
    BY DEF Agreed
  <1>2. m \in Stored(after, "membership") BY DEF Grown, Lasting
  <1> QED BY <1>1, <1>2 DEF Grown, Agreed

LEMMA SameRows == \A t : Rows(t) = Stored(db, t)
  BY DEF Rows, IdsOf, Present, Stored

LEMMA StillGrown ==
    ASSUME NEW rows, NEW hot PROVE Grown(rows, rows, hot)
  BY DEF Grown

\* The transaction that is written is about users, or about none.
LEMMA Written ==
    ASSUME IdentityInv, NEW p \in Workers, req[p].pc \in {"reload", "write"}
    PROVE  UnitOK(db, contended, now, Unit(p))
  <1>1. RequestFits(db, contended, req[p], Loose, Lasting) BY DEF IdentityInv, Held
  <1>2. PendingOK(db, contended, now, req[p]) BY DEF IdentityInv
  <1>3. Unit(p) = req[p].todo[1] /\ Len(req[p].todo) \in Nat \ {0} BY <1>1, NextUnit DEF Unit
  <1> QED BY <1>2, <1>3 DEF PendingOK

LEMMA WriteGrows ==
    ASSUME IdentityInv, NEW p \in Workers, Write(p)
    PROVE  Grown(db, db', contended)
  <1> DEFINE u == Unit(p)
  <1>1. UnitOK(db, contended, now, u) BY Written DEF Write
  <1>2. /\ DOMAIN u \subseteq DOMAIN db /\ DOMAIN db' = DOMAIN db
        /\ \A d \in DOMAIN db \ DOMAIN u : db'[d] = db[d]
        /\ \A d \in DOMAIN u : db[d].status # "absent" =>
               /\ DOMAIN db'[d] = DOMAIN db[d]
               /\ \A f \in DOMAIN db[d] : db'[d][f] = db[d][f]
                           \/ (f \in DOMAIN u[d] /\ db'[d][f] = u[d][f])
        /\ \A d \in DOMAIN u \ contended : db[d].table \notin Loose =>
               db'[d] = Updated(db[d], u[d])
    BY WriteSaves DEF IdentityInv
  <1>3. /\ \A d \in DOMAIN db : db'[d].table = db[d].table
        /\ \A d \in DOMAIN db : db[d].table \in Lasting /\ db[d].status # "absent"
                                   => db'[d].status # "absent"
    BY WriteKeeps DEF IdentityInv
  <1>4. \A d \in DOMAIN db : Shaped(db[d]) BY DEF IdentityInv, RowsOK
  <1> HIDE DEF u
  <1>5. \A t \in Lasting : Stored(db, t) \subseteq Stored(db', t) BY <1>2, <1>3 DEF Stored
  <1>6. ASSUME NEW x \in Stored(db, "user") PROVE db'[x].tenant = db[x].tenant
    <2>1. x \in DOMAIN db /\ db[x].status # "absent" /\ db[x].table = "user" BY DEF Stored
    <2>2. "tenant" \in DOMAIN db[x] BY <1>4, <2>1 DEF Shaped, Rowed
    <2>3. x \in DOMAIN u => UserOK(db, contended, u, x) BY <1>1, <2>1 DEF UnitOK
    <2> QED BY <1>2, <2>1, <2>2, <2>3 DEF UserOK
  <1>7. ASSUME NEW t \in Stored(db, "token")
        PROVE  db'[t].user = db[t].user /\ db'[t].tenant = db[t].tenant
    <2>1. t \in DOMAIN db /\ db[t].status # "absent" /\ db[t].table = "token" BY DEF Stored
    <2>2. {"user", "tenant"} \subseteq DOMAIN db[t] BY <1>4, <2>1 DEF Shaped, Rowed
    <2>3. t \in DOMAIN u => TokenOK(db, contended, u, t) BY <1>1, <2>1 DEF UnitOK
    <2> QED BY <1>2, <2>1, <2>2, <2>3 DEF TokenOK
  <1>8. ASSUME NEW m \in Stored(db, "membership")
        PROVE  /\ db'[m].key = db[m].key
               /\ db'[m].tenant = db[m].tenant /\ db'[m].user = db[m].user
               /\ m \notin contended /\ db[m].consentedAt # None => db'[m].consentedAt # None
    <2>1. m \in DOMAIN db /\ db[m].status # "absent" /\ db[m].table = "membership" BY DEF Stored
    <2>2. {"key", "user", "tenant", "consentedAt"} \subseteq DOMAIN db[m] BY <1>4, <2>1 DEF Shaped, Rowed
    <2>3. db[m].key = <<db[m].tenant, db[m].user>> BY DEF IdentityInv, RowsOK
    <2>4. CASE m \notin DOMAIN u BY <1>2, <2>1, <2>4
    <2>5. CASE m \in DOMAIN u
      <3>1. MembershipOK(db, contended, now, m, u[m]) BY <1>1, <2>1, <2>5 DEF UnitOK
      <3>2. u[m].key = db[m].key /\ u[m].tenant = db[m].tenant /\ u[m].user = db[m].user
        BY <2>1, <2>3, <3>1 DEF MembershipOK
      <3>3. m \notin contended /\ db[m].consentedAt # None => u[m].consentedAt # None
        BY <2>1, <3>1 DEF MembershipOK
      <3> QED BY <1>2, <2>1, <2>2, <2>5, <3>2, <3>3
    <2> QED BY <2>4, <2>5
  <1> QED BY <1>2, <1>3, <1>5, <1>6, <1>7, <1>8 DEF Grown

\* The rows that a request saves and no other has had in hand are as it has them.
LEMMA Overwritten ==
    ASSUME IdentityInv, NEW p \in Workers, Write(p), NEW d \in DOMAIN Unit(p),
           d \notin contended, db[d].table \notin Loose
    PROVE  LET o == Unit(p)[d]
           IN  /\ db[d].status = "absent" => db'[d] = o
               /\ db[d].status # "absent" =>
                      db'[d] = [f \in DOMAIN db[d] |-> IF f \in DOMAIN o THEN o[f] ELSE db[d][f]]
  <1>1. db'[d] = Updated(db[d], Unit(p)[d]) BY WriteSaves DEF IdentityInv
  <1> QED BY <1>1 DEF Updated

LEMMA WriteShaped ==
    ASSUME IdentityInv, NEW p \in Workers, Write(p), NEW d \in DOMAIN db
    PROVE  Shaped(db'[d])
  <1> DEFINE u == Unit(p)
  <1>1. Shaped(db[d]) BY DEF IdentityInv, RowsOK
  <1>2. Rowed(db'[d]) /\ db'[d].table = db[d].table BY WriteKeeps DEF IdentityInv
  <1>3. CASE d \notin DOMAIN u
    <2>1. db'[d] = db[d] BY <1>3, WriteSaves DEF IdentityInv
    <2> QED BY <1>1, <2>1
  <1>4. CASE d \in DOMAIN u /\ db[d].status # "absent"
    <2>1. DOMAIN db'[d] = DOMAIN db[d] BY <1>4, WriteSaves DEF IdentityInv
    <2> QED BY <1>1, <1>2, <1>4, <2>1 DEF Shaped, Rowed
  <1>5. CASE d \in DOMAIN u /\ db[d].status = "absent"
    <2>1. db'[d] = u[d] BY <1>5, WriteSaves DEF IdentityInv
    <2>2. UnitOK(db, contended, now, u) BY Written DEF Write
    <2>3. db[d].table \in Lasting => Shaped(u[d])
      BY <1>5, <2>2 DEF UnitOK, UserOK, TokenOK, MembershipOK, Lasting
    <2>4. db[d].table \notin Lasting => Shaped(db'[d])
      BY <1>2 DEF Shaped, Rowed, Lasting
    <2> QED BY <2>1, <2>3, <2>4
  <1> QED BY <1>3, <1>4, <1>5

LEMMA WriteRows ==
    ASSUME IdentityInv, NEW p \in Workers, Write(p)
    PROVE  RowsOK(db', contended, now)
  <1> DEFINE u == Unit(p)
  <1>1. UnitOK(db, contended, now, u) BY Written DEF Write
  <1>2. Grown(db, db', contended) BY WriteGrows
  <1>3. /\ DOMAIN u \subseteq DOMAIN db /\ DOMAIN db' = DOMAIN db
        /\ \A d \in DOMAIN db \ DOMAIN u : db'[d] = db[d]
        /\ \A d \in DOMAIN u : db[d].status = "absent" => db'[d] = u[d]
        /\ \A d \in DOMAIN u : db[d].status # "absent" =>
               \A f \in DOMAIN db[d] : db'[d][f] = db[d][f]
                           \/ (f \in DOMAIN u[d] /\ db'[d][f] = u[d][f])
    BY WriteSaves DEF IdentityInv
  <1>4. RowsOK(db, contended, now) BY DEF IdentityInv
  <1>5. \A d \in DOMAIN db : db'[d].table = db[d].table BY <1>2 DEF Grown
  <1>6. \A d \in DOMAIN db' : Shaped(db'[d]) BY <1>3, WriteShaped
  <1> HIDE DEF u
  <1>7. ASSUME NEW x \in Stored(db', "user") \ contended PROVE Locks(db'[x])
    <2>1. x \in DOMAIN db /\ db[x].table = "user" BY <1>3, <1>5 DEF Stored
    <2>2. CASE x \notin DOMAIN u
      <3>1. db'[x] = db[x] /\ x \in Stored(db, "user") BY <1>3, <2>1, <2>2 DEF Stored
      <3> QED BY <1>4, <3>1 DEF RowsOK
    <2>3. CASE x \in DOMAIN u
      <3>1. UserOK(db, contended, u, x) BY <1>1, <2>1, <2>3 DEF UnitOK
      <3>2. CASE db[x].status = "absent"
        <4>1. db'[x] = u[x] BY <1>3, <2>3, <3>2
        <4>2. u[x].table = "user" /\ u[x].status # "absent" BY <4>1 DEF Stored
        <4>3. "failed" \in DOMAIN u[x] BY <3>1, <3>2, <4>2 DEF UserOK, Shaped, Rowed
        <4> QED BY <3>1, <4>1, <4>3 DEF UserOK
      <3>3. CASE db[x].status # "absent"
        <4>1. Locks(db[x]) /\ Shaped(db[x]) BY <1>4, <2>1, <3>3 DEF RowsOK, Stored
        <4>2. {"failed", "lockedUntil"} \subseteq DOMAIN db[x] BY <2>1, <3>3, <4>1 DEF Shaped, Rowed
        <4>3. db'[x] = [f \in DOMAIN db[x] |-> IF f \in DOMAIN u[x] THEN u[x][f] ELSE db[x][f]]
          BY <2>1, <2>3, <3>3, Overwritten DEF Loose, u
        <4>4. CASE "failed" \in DOMAIN u[x]
          <5>1. Locks(u[x]) /\ "lockedUntil" \in DOMAIN u[x] BY <3>1, <4>4 DEF UserOK
          <5> QED BY <4>2, <4>3, <4>4, <5>1 DEF Locks
        <4>5. CASE "failed" \notin DOMAIN u[x]
          <5>1. "lockedUntil" \notin DOMAIN u[x] BY <3>1, <4>5 DEF UserOK
          <5> QED BY <4>1, <4>2, <4>3, <4>5, <5>1 DEF Locks
        <4> QED BY <4>4, <4>5
      <3> QED BY <3>2, <3>3
    <2> QED BY <2>2, <2>3
  <1>8. ASSUME NEW m \in Stored(db', "membership")
        PROVE  /\ db'[m].user \in Stored(db', "user")
               /\ db'[m].key = <<db'[m].tenant, db'[m].user>>
               /\ m \notin contended => Joins(db'[m], now)
    <2>1. m \in DOMAIN db /\ db[m].table = "membership" BY <1>3, <1>5 DEF Stored
    <2>2. Stored(db, "user") \subseteq Stored(db', "user") BY <1>2 DEF Grown, Lasting
    <2>3. CASE m \notin DOMAIN u
      <3>1. db'[m] = db[m] /\ m \in Stored(db, "membership") BY <1>3, <2>1, <2>3 DEF Stored
      <3> QED BY <1>4, <2>2, <3>1 DEF RowsOK
    <2>4. CASE m \in DOMAIN u
      <3>1. MembershipOK(db, contended, now, m, u[m]) BY <1>1, <2>1, <2>4 DEF UnitOK
      <3>2. CASE db[m].status = "absent"
        <4>1. db'[m] = u[m] BY <1>3, <2>4, <3>2
        <4> QED BY <2>2, <3>1, <4>1 DEF MembershipOK
      <3>3. CASE db[m].status # "absent"
        <4>1. m \in Stored(db, "membership") BY <2>1, <3>3 DEF Stored
        <4>2. /\ db'[m].key = db[m].key /\ db'[m].tenant = db[m].tenant /\ db'[m].user = db[m].user
              /\ db[m].user \in Stored(db, "user") /\ db[m].key = <<db[m].tenant, db[m].user>>
          BY <1>2, <1>4, <4>1 DEF Grown, RowsOK
        <4>3. ASSUME m \notin contended PROVE Joins(db'[m], now)
          <5>1. db'[m] = [f \in DOMAIN db[m] |-> IF f \in DOMAIN u[m] THEN u[m][f] ELSE db[m][f]]
            BY <2>1, <2>4, <3>3, <4>3, Overwritten DEF Loose, u
          <5>2. Joins(u[m], now) /\ Shaped(u[m]) BY <3>1, <4>3 DEF MembershipOK
          <5>3. {"status", "invitedAt", "consentedAt"} \subseteq DOMAIN db[m]
            BY <1>4, <2>1, <3>3 DEF RowsOK, Shaped, Rowed
          <5>4. u[m].table = "membership" /\ u[m].status # "absent"
            <6>1. db'[m].table = "membership" /\ db'[m].status # "absent" BY DEF Stored
            <6>2. {"table", "status"} \subseteq DOMAIN u[m] BY <5>2 DEF Shaped, Rowed
            <6>3. {"table", "status"} \subseteq DOMAIN db[m] BY <1>4, <2>1 DEF RowsOK, Shaped, Rowed
            <6> QED BY <5>1, <6>1, <6>2, <6>3
          <5>5. {"status", "invitedAt", "consentedAt"} \subseteq DOMAIN u[m] BY <5>2, <5>4 DEF Shaped, Rowed
          <5> QED BY <5>1, <5>2, <5>3, <5>5 DEF Joins
        <4> QED BY <2>2, <4>2, <4>3
      <3> QED BY <3>2, <3>3
    <2> QED BY <2>3, <2>4
  <1>9. ASSUME NEW t \in Stored(db', "token")
        PROVE  /\ db'[t].user \in Stored(db', "user")
               /\ \/ db'[t].tenant = db'[db'[t].user].tenant
                  \/ Agreed(db', contended, db'[t].tenant, db'[t].user)
    <2>1. t \in DOMAIN db /\ db[t].table = "token" BY <1>3, <1>5 DEF Stored
    <2>2. Stored(db, "user") \subseteq Stored(db', "user") BY <1>2 DEF Grown, Lasting
    <2>3. \A x \in Stored(db, "user") : db'[x].tenant = db[x].tenant BY <1>2 DEF Grown
    <2>4. CASE t \in Stored(db, "token")
      <3>1. db'[t].user = db[t].user /\ db'[t].tenant = db[t].tenant BY <1>2, <2>4 DEF Grown
      <3>2. /\ db[t].user \in Stored(db, "user")
            /\ \/ db[t].tenant = db[db[t].user].tenant
               \/ Agreed(db, contended, db[t].tenant, db[t].user)
        BY <1>4, <2>4 DEF RowsOK
      <3> QED BY <1>2, <2>2, <2>3, <3>1, <3>2, AgreedGrows
    <2>5. CASE t \notin Stored(db, "token")
      <3>1. db[t].status = "absent" BY <2>1, <2>5 DEF Stored
      <3>2. t \in DOMAIN u BY <1>3, <2>1, <3>1 DEF Stored
      <3>3. db'[t] = u[t] /\ TokenOK(db, contended, u, t) BY <1>1, <1>3, <2>1, <3>1, <3>2 DEF UnitOK
      <3>4. /\ u[t].user \in Stored(db, "user")
            /\ \/ u[t].tenant = db[u[t].user].tenant
               \/ Agreed(db, contended, u[t].tenant, u[t].user)
        BY <3>1, <3>3 DEF TokenOK
      <3> QED BY <1>2, <2>2, <2>3, <3>3, <3>4, AgreedGrows
    <2> QED BY <2>4, <2>5
  <1>10. ASSUME NEW t \in Stored(db', "token"), db'[t].status = "spent", db'[t].user \notin contended
         PROVE  db'[db'[t].user].hash # t
    <2> DEFINE x == db'[t].user
    <2>1. t \in DOMAIN db /\ db[t].table = "token" BY <1>3, <1>5 DEF Stored
    <2>2. x \in Stored(db', "user") BY <1>9
    <2>3. x \in DOMAIN db /\ db[x].table = "user" BY <1>3, <1>5, <2>2 DEF Stored
    <2>4. None \notin DOMAIN db BY DEF IdentityInv
    <2>5. CASE x \in DOMAIN u
      <3>1. UserOK(db, contended, u, x) BY <1>1, <2>3, <2>5 DEF UnitOK
      <3>2. db'[x].hash = u[x].hash
        <4>1. CASE db[x].status = "absent" BY <1>3, <2>5, <4>1
        <4>2. CASE db[x].status # "absent"
          <5>1. "hash" \in DOMAIN db[x] BY <1>4, <2>3, <4>2 DEF RowsOK, Shaped, Rowed
          <5>2. db'[x] = [f \in DOMAIN db[x] |-> IF f \in DOMAIN u[x] THEN u[x][f] ELSE db[x][f]]
            BY <1>10, <2>3, <2>5, <4>2, Overwritten DEF Loose, u
          <5> QED BY <3>1, <5>1, <5>2 DEF UserOK
        <4> QED BY <4>1, <4>2
      <3>3. CASE u[x].hash = None BY <2>1, <2>4, <3>2, <3>3
      <3>4. CASE /\ u[x].hash \in DOMAIN u /\ db[u[x].hash].table = "token"
                 /\ db[u[x].hash].status = "absent"
        <4> DEFINE n == u[x].hash
        <4>1. TokenOK(db, contended, u, n) /\ db'[n] = u[n] BY <1>1, <1>3, <3>4 DEF UnitOK
        <4>2. db'[n].status = "given" BY <3>4, <4>1 DEF TokenOK
        <4> QED BY <1>10, <3>2, <4>2
      <3>5. CASE db[x].status # "absent" /\ u[x].hash = db[x].hash /\ DOMAIN u = {x}
        <4>1. t \notin DOMAIN u BY <2>1, <2>3, <3>5
        <4>2. db'[t] = db[t] /\ t \in Stored(db, "token") BY <1>3, <2>1, <4>1 DEF Stored
        <4>3. db[x].hash # t BY <1>4, <1>10, <4>2 DEF RowsOK
        <4> QED BY <3>2, <3>5, <4>3
      <3> QED BY <1>10, <3>1, <3>3, <3>4, <3>5 DEF UserOK
    <2>6. CASE x \notin DOMAIN u
      <3>1. db'[x] = db[x] BY <1>3, <2>3, <2>6
      <3>2. t \notin DOMAIN u
        <4> SUFFICES ASSUME t \in DOMAIN u PROVE FALSE OBVIOUS
        <4>1. TokenOK(db, contended, u, t) BY <1>1, <2>1 DEF UnitOK
        <4>2. CASE db[t].status = "absent" BY <1>3, <2>6, <4>1, <4>2 DEF TokenOK
        <4>3. CASE db[t].status # "absent"
          <5>1. db'[t].user = db[t].user BY <1>2, <2>1, <4>3 DEF Grown, Stored
          <5> QED BY <2>6, <4>1, <4>3, <5>1 DEF TokenOK
        <4> QED BY <4>2, <4>3
      <3>3. db'[t] = db[t] /\ t \in Stored(db, "token") BY <1>3, <2>1, <3>2 DEF Stored
      <3> QED BY <1>4, <1>10, <3>1, <3>3 DEF RowsOK
    <2> QED BY <2>5, <2>6
  <1> QED BY <1>6, <1>7, <1>8, <1>9, <1>10 DEF RowsOK
-----------------------------------------------------------------------------
(* What was as it should be remains so: with rows that have grown, with    *)
(* more of them contended, and with the time.                              *)

LEMMA RowsGrow ==
    ASSUME NEW rows, NEW hot, NEW hotter, hot \subseteq hotter,
           NEW time \in Nat, NEW later \in Nat, time <= later, RowsOK(rows, hot, time)
    PROVE  RowsOK(rows, hotter, later)
  <1>1. \A tenant, u : Agreed(rows, hot, tenant, u) => Agreed(rows, hotter, tenant, u)
    BY StillGrown, AgreedGrows
  <1>2. \A m : Joins(m, time) => Joins(m, later) BY DEF Joins
  <1> QED BY <1>1, <1>2 DEF RowsOK

\* The rows of a transaction, or of those read, that are kept for their request.
Kept(rows, after, hot, D) ==
    \A d \in D :
        /\ d \in DOMAIN rows
        /\ rows[d].table \in Lasting /\ rows[d].status = "absent" => after[d].status = "absent"
        /\ rows[d].table \notin Loose /\ d \notin hot => after[d] = rows[d]

LEMMA UnitGrows ==
    ASSUME NEW rows, NEW after, NEW hot, NEW hotter, hot \subseteq hotter,
           NEW time \in Nat, NEW later \in Nat, time <= later,
           Grown(rows, after, hot), NEW u, UnitOK(rows, hot, time, u),
           Kept(rows, after, hotter, DOMAIN u)
    PROVE  UnitOK(after, hotter, later, u)
  <1> SUFFICES ASSUME NEW d \in DOMAIN u
               PROVE  /\ after[d].table = "user" => UserOK(after, hotter, u, d)
                      /\ after[d].table = "token" => TokenOK(after, hotter, u, d)
                      /\ after[d].table = "membership" => MembershipOK(after, hotter, later, d, u[d])
    BY DEF UnitOK
  <1>1. \A t \in DOMAIN u :
            /\ t \in DOMAIN rows /\ after[t].table = rows[t].table
            /\ rows[t].table \in Lasting =>
                   (rows[t].status = "absent" <=> after[t].status = "absent")
    BY DEF Kept, Grown, Stored
  <1>2. rows[d].table \notin Loose /\ d \notin hotter => after[d] = rows[d] BY DEF Kept
  <1>3. ASSUME after[d].table = "user" PROVE UserOK(after, hotter, u, d)
    <2>1. UserOK(rows, hot, u, d) BY <1>1, <1>3 DEF UnitOK
    <2>2. rows[d].status # "absent" => after[d].tenant = rows[d].tenant
      BY <1>1, <1>3 DEF Grown, Stored
    <2>3. d \notin hotter => after[d] = rows[d] BY <1>1, <1>2, <1>3 DEF Loose
    <2>4. \A t \in DOMAIN u : rows[t].table = "token" /\ rows[t].status = "absent" =>
              after[t].table = "token" /\ after[t].status = "absent"
      BY <1>1 DEF Lasting
    <2>5. rows[d].status = "absent" <=> after[d].status = "absent" BY <1>1, <1>3 DEF Lasting
    <2>6. d \notin hotter => d \notin hot OBVIOUS
    <2> QED BY <2>1, <2>2, <2>3, <2>4, <2>5, <2>6 DEF UserOK
  <1>4. ASSUME after[d].table = "token" PROVE TokenOK(after, hotter, u, d)
    <2>1. TokenOK(rows, hot, u, d) BY <1>1, <1>4 DEF UnitOK
    <2>2. rows[d].status # "absent" => /\ after[d].user = rows[d].user
                                       /\ after[d].tenant = rows[d].tenant
      BY <1>1, <1>4 DEF Grown, Stored
    <2>3. \A x \in Stored(rows, "user") : x \in Stored(after, "user") /\ after[x].tenant = rows[x].tenant
      BY DEF Grown, Lasting
    <2>4. Agreed(rows, hot, u[d].tenant, u[d].user) => Agreed(after, hotter, u[d].tenant, u[d].user)
      BY AgreedGrows
    <2>5. rows[d].status = "absent" <=> after[d].status = "absent" BY <1>1, <1>4 DEF Lasting
    <2> QED BY <2>1, <2>2, <2>3, <2>4, <2>5 DEF TokenOK
  <1>5. ASSUME after[d].table = "membership" PROVE MembershipOK(after, hotter, later, d, u[d])
    <2>1. MembershipOK(rows, hot, time, d, u[d]) BY <1>1, <1>5 DEF UnitOK
    <2>2. rows[d].status # "absent" => /\ after[d].user = rows[d].user
                                       /\ after[d].tenant = rows[d].tenant
      BY <1>1, <1>5 DEF Grown, Stored
    <2>3. d \notin hotter => after[d] = rows[d] BY <1>1, <1>2, <1>5 DEF Loose
    <2>4. Stored(rows, "user") \subseteq Stored(after, "user") BY DEF Grown, Lasting
    <2>5. rows[d].status = "absent" <=> after[d].status = "absent" BY <1>1, <1>5 DEF Lasting
    <2>6. Joins(u[d], time) => Joins(u[d], later) BY DEF Joins
    <2>7. d \notin hotter => d \notin hot OBVIOUS
    <2> QED BY <2>1, <2>2, <2>3, <2>4, <2>5, <2>6, <2>7 DEF MembershipOK
  <1> QED BY <1>3, <1>4, <1>5

LEMMA MintGrows ==
    ASSUME NEW rows, NEW after, NEW hot, NEW hotter, hot \subseteq hotter,
           Grown(rows, after, hot), NEW b, MintOK(rows, hot, b),
           Kept(rows, after, hotter, DOMAIN b)
    PROVE  MintOK(after, hotter, b)
  <1> SUFFICES ASSUME NEW d \in DOMAIN b
               PROVE  /\ after[d].table = "token" => after[d].status = "absent"
                      /\ after[d].table = "membership" =>
                          /\ d \in Stored(after, "membership")
                          /\ b[d].tenant = after[d].tenant /\ b[d].user = after[d].user
                          /\ after[d].consentedAt # None \/ d \in hotter
    BY DEF MintOK
  <1>1. d \in DOMAIN rows /\ after[d].table = rows[d].table BY DEF Kept, Grown
  <1>2. rows[d].table = "token" => after[d].status = "absent" BY DEF MintOK, Kept, Lasting
  <1>3. ASSUME rows[d].table = "membership"
        PROVE  /\ d \in Stored(after, "membership")
               /\ b[d].tenant = after[d].tenant /\ b[d].user = after[d].user
               /\ after[d].consentedAt # None \/ d \in hotter
    <2>1. /\ d \in Stored(rows, "membership")
          /\ b[d].tenant = rows[d].tenant /\ b[d].user = rows[d].user
          /\ rows[d].consentedAt # None \/ d \in hot
      BY <1>3 DEF MintOK
    <2> QED BY <2>1 DEF Grown, Lasting
  <1> QED BY <1>1, <1>2, <1>3

LEMMA PendingGrows ==
    ASSUME NEW rows, NEW after, NEW hot, NEW hotter, hot \subseteq hotter,
           NEW time \in Nat, NEW later \in Nat, time <= later,
           Grown(rows, after, hot), NEW r, PendingOK(rows, hot, time, r),
           Kept(rows, after, hotter, DOMAIN r.base),
           \A i \in 1 .. Len(r.todo) : Kept(rows, after, hotter, DOMAIN r.todo[i])
    PROVE  PendingOK(after, hotter, later, r)
  <1>1. \A i \in 1 .. Len(r.todo) : UnitOK(rows, hot, time, r.todo[i]) =>
                                        UnitOK(after, hotter, later, r.todo[i])
    BY UnitGrows
  <1>2. \A i \in 1 .. Len(r.todo) : Elsewhere(rows, r.todo[i]) => Elsewhere(after, r.todo[i])
    BY DEF Kept, Grown, Elsewhere
  <1>3. MintOK(rows, hot, r.base) => MintOK(after, hotter, r.base) BY MintGrows
  <1> QED BY <1>1, <1>2, <1>3 DEF PendingOK
-----------------------------------------------------------------------------
(* The steps: statements, and those of a handler that starts or goes on.   *)

LEMMA PendingAt ==
    ASSUME NEW rows, NEW hot, NEW time, NEW b, NEW txs, NEW then,
           \A i \in 1 .. Len(txs) :
               IF i = 1 THEN UnitOK(rows, hot, time, txs[i]) ELSE Elsewhere(rows, txs[i]),
           then \notin {"reload", "write"},
           then = "mint" => txs = <<>> /\ MintOK(rows, hot, b)
    PROVE  PendingOK(rows, hot, time, At(b, txs, then))
  <1>1. CASE txs = <<>> /\ then = "idle"
    <2>1. At(b, txs, then) = Idle BY <1>1 DEF At
    <2>2. Idle.todo = <<>> /\ Idle.then = "idle" /\ Idle.pc = "idle" BY DEF Idle
    <2>3. Len(<<>>) = 0 OBVIOUS
    <2> HIDE DEF Idle
    <2> QED BY <2>1, <2>2, <2>3 DEF PendingOK
  <1>2. CASE ~(txs = <<>> /\ then = "idle")
    <2> DEFINE r == At(b, txs, then)
    <2>1. /\ r.pc = IF txs = <<>> THEN then ELSE "reload"
          /\ r.base = b /\ r.todo = txs /\ r.then = then
      BY <1>2 DEF At
    <2> HIDE DEF r
    <2>2. PendingOK(rows, hot, time, r) BY <2>1 DEF PendingOK
    <2> QED BY <2>2 DEF r
  <1> QED BY <1>1, <1>2

LEMMA ElsewhereOK ==
    ASSUME NEW rows, NEW hot, NEW time, NEW u, Elsewhere(rows, u)
    PROVE  UnitOK(rows, hot, time, u)
  BY DEF Elsewhere, UnitOK, Lasting

LEMMA IdlePending ==
    ASSUME NEW rows, NEW hot, NEW time PROVE PendingOK(rows, hot, time, Idle)
  <1>1. Idle.todo = <<>> /\ Idle.then = "idle" /\ Idle.pc = "idle" BY DEF Idle
  <1>2. Len(<<>>) = 0 OBVIOUS
  <1> HIDE DEF Idle
  <1> QED BY <1>1, <1>2 DEF PendingOK

LEMMA AllKept ==
    ASSUME IdentityInv, NEW p \in Workers, NEW hotter
    PROVE  /\ Kept(db, db, hotter, DOMAIN req[p].base)
           /\ \A i \in 1 .. Len(req[p].todo) : Kept(db, db, hotter, DOMAIN req[p].todo[i])
  <1>1. RequestFits(db, contended, req[p], Loose, Lasting) BY DEF IdentityInv, Held
  <1> QED BY <1>1 DEF RequestFits, UnitFits, Kept

\* A step that gives one worker another request, and changes no row.
LEMMA OneRequestOK ==
    ASSUME IdentityInv, NEW p \in Workers, NEW r, Held(Loose, Lasting)',
           db' = db, now' = now, req' = [req EXCEPT ![p] = r], contended \subseteq contended',
           PendingOK(db, contended', now, r)
    PROVE  IdentityInv'
  <1>1. RowsOK(db, contended', now) BY RowsGrow DEF IdentityInv
  <1>2. ASSUME NEW q \in Workers PROVE PendingOK(db, contended', now, req'[q])
    <2>1. CASE q = p BY <2>1 DEF IdentityInv, Held
    <2>2. CASE q # p
      <3>1. req'[q] = req[q] BY <2>2 DEF IdentityInv, Held
      <3>2. PendingOK(db, contended, now, req[q]) /\ now \in Nat BY DEF IdentityInv
      <3>3. now <= now BY <3>2
      <3> DEFINE hotter == contended'
      <3>4. contended \subseteq hotter OBVIOUS
      <3> HIDE DEF hotter
      <3>5. Grown(db, db, contended) BY StillGrown
      <3>6. /\ Kept(db, db, hotter, DOMAIN req[q].base)
            /\ \A i \in 1 .. Len(req[q].todo) : Kept(db, db, hotter, DOMAIN req[q].todo[i])
        BY AllKept
      <3>7. PendingOK(db, hotter, now, req[q]) BY <3>2, <3>3, <3>4, <3>5, <3>6, PendingGrows
      <3> QED BY <3>1, <3>7 DEF hotter
    <2> QED BY <2>1, <2>2
  <1> QED BY <1>1, <1>2 DEF IdentityInv

LEMMA BeginOK ==
    ASSUME IdentityInv, NEW p \in Workers, NEW D, Readable(D),
           NEW txs, Savable(txs, D, Loose, Lasting), NEW then, then \notin {"reload", "write"},
           Begin(p, D, txs, then),
           \A i \in 1 .. Len(txs) :
               IF i = 1 THEN UnitOK(db, contended', now, txs[i]) ELSE Elsewhere(db, txs[i]),
           then = "mint" => txs = <<>> /\ MintOK(db, contended', [d \in D |-> db[d]])
    PROVE  IdentityInv'
  <1>1. Held(Loose, Lasting)' BY BeginHeld DEF IdentityInv
  <1> DEFINE b == [d \in D |-> db[d]]
             r == At(b, txs, then)
  <1> HIDE DEF b
  <1>2. PendingOK(db, contended', now, r) BY PendingAt DEF b
  <1>3. /\ contended' = contended \cup Shared(p, D) /\ db' = db /\ now' = now
        /\ req' = [req EXCEPT ![p] = r]
    BY DEF Begin, b
  <1> HIDE DEF r
  <1> QED BY <1>1, <1>2, <1>3, OneRequestOK

LEMMA GoOnOK ==
    ASSUME IdentityInv, NEW p \in Workers, NEW D, Readable(D),
           NEW txs, Savable(txs, D \cup DOMAIN req[p].base, Loose, Lasting),
           NEW pc, NEW then, then \notin {"reload", "write", "mint"},
           GoOn(p, pc, D, txs, then),
           \A i \in 1 .. Len(txs) :
               IF i = 1 THEN UnitOK(db, contended', now, txs[i]) ELSE Elsewhere(db, txs[i])
    PROVE  IdentityInv'
  <1>1. Held(Loose, Lasting)' BY GoOnHeld DEF IdentityInv
  <1> DEFINE b == And([d \in D |-> db[d]], req[p].base)
             r == At(b, txs, then)
  <1> HIDE DEF b
  <1>2. PendingOK(db, contended', now, r) BY PendingAt DEF b
  <1>3. /\ contended' = contended \cup Shared(p, D) /\ db' = db /\ now' = now
        /\ req' = [req EXCEPT ![p] = r]
    BY DEF GoOn, b
  <1> HIDE DEF r
  <1> QED BY <1>1, <1>2, <1>3, OneRequestOK

LEMMA ReloadOK ==
    ASSUME IdentityInv, NEW p \in Workers, Reload(p)
    PROVE  IdentityInv'
  <1> DEFINE r == [req[p] EXCEPT !.pc = "write",
                       !.dirty = [d \in DOMAIN Unit(p) |-> ToWrite(Unit(p)[d], db[d])]]
  <1>1. Held(Loose, Lasting)' BY ReloadHeld DEF IdentityInv
  <1>2. req' = [req EXCEPT ![p] = r] /\ db' = db /\ now' = now /\ contended' = contended
    BY DEF Reload, IdentityInv, Held
  <1>3. RequestFits(db, contended, req[p], Loose, Lasting) BY DEF IdentityInv, Held
  <1>4. r.todo = req[p].todo /\ r.then = req[p].then /\ r.base = req[p].base /\ r.pc = "write"
    BY <1>3 DEF RequestFits
  <1>5. req[p].pc = "reload" BY DEF Reload
  <1> HIDE DEF r
  <1>6. PendingOK(db, contended, now, r)
    BY <1>4, <1>5 DEF IdentityInv, PendingOK
  <1> QED BY <1>1, <1>2, <1>6, OneRequestOK

LEMMA LeaveOK ==
    ASSUME IdentityInv, NEW p \in Workers, Leave(p)
    PROVE  IdentityInv'
  <1>1. Held(Loose, Lasting)' BY LeaveHeld DEF IdentityInv
  <1>2. req' = [req EXCEPT ![p] = Idle] /\ db' = db /\ now' = now /\ contended' = contended
    BY DEF Leave
  <1>3. PendingOK(db, contended', now, Idle) BY IdlePending
  <1> QED BY <1>1, <1>2, <1>3, OneRequestOK

LEMMA WriteOK ==
    ASSUME IdentityInv, NEW p \in Workers, Write(p)
    PROVE  IdentityInv'
  <1>1. Held(Loose, Lasting) /\ now \in Nat /\ Loose \subseteq Lasting
    BY DEF IdentityInv, Loose, Lasting
  <1>2. Held(Loose, Lasting)' BY <1>1, WriteHeld
  <1>3. contended' = contended /\ now' = now BY DEF Write
  <1>4. RowsOK(db', contended, now) BY WriteRows
  <1>5. Grown(db, db', contended) BY WriteGrows
  <1>6. ASSUME NEW q \in Workers \ {p} PROVE PendingOK(db', contended, now, req'[q])
    <2>1. req'[q] = req[q] BY <1>1, WriteSpares
    <2>2. RequestFits(db, contended, req[q], Loose, Lasting) BY <1>1 DEF Held
    <2>3. /\ DOMAIN req[q].base \subseteq DOMAIN db
          /\ \A i \in 1 .. Len(req[q].todo) : DOMAIN req[q].todo[i] \subseteq DOMAIN db
      BY <2>2 DEF RequestFits, UnitFits
    <2>4. Kept(db, db', contended, DOMAIN req[q].base)
      BY <1>1, <2>3, WriteSpares, WriteSparesNew DEF Kept
    <2>5. \A i \in 1 .. Len(req[q].todo) : Kept(db, db', contended, DOMAIN req[q].todo[i])
      BY <1>1, <2>3, WriteSpares, WriteSparesNew DEF Kept
    <2>6. PendingOK(db, contended, now, req[q]) BY DEF IdentityInv
    <2>7. PendingOK(db', contended, now, req[q]) BY <1>1, <1>5, <2>4, <2>5, <2>6, PendingGrows
    <2> QED BY <2>1, <2>7
  <1>7. PendingOK(db', contended, now, req'[p])
    <2> DEFINE b    == And([d \in DOMAIN Unit(p) |-> Saved(p, d)], req[p].base)
               txs  == Tail(req[p].todo)
               then == req[p].then
    <2>1. req'[p] = At(b, txs, then) BY <1>1 DEF Write, Held
    <2>2. RequestFits(db, contended, req[p], Loose, Lasting) BY <1>1 DEF Held
    <2>3. req[p].pc = "write" BY DEF Write
    <2>4. req[p].todo # <<>> /\ then \notin {"reload", "write"} BY <2>2, <2>3 DEF RequestFits
    <2>5. PendingOK(db, contended, now, req[p]) BY DEF IdentityInv
    <2>6. then # "mint" BY <2>4, <2>5 DEF PendingOK
    <2>7. ASSUME NEW i \in 1 .. Len(txs) PROVE Elsewhere(db', txs[i])
      <3>1. /\ txs[i] = req[p].todo[i + 1] /\ i + 1 \in 1 .. Len(req[p].todo) /\ i + 1 # 1
        BY <2>2, <2>3, NextUnit
      <3>2. Elsewhere(db, txs[i]) BY <2>5, <3>1 DEF PendingOK
      <3>3. DOMAIN txs[i] \subseteq DOMAIN db BY <2>2, <3>1 DEF RequestFits, UnitFits
      <3> QED BY <1>5, <3>2, <3>3 DEF Elsewhere, Grown
    <2>8. \A i \in 1 .. Len(txs) :
              IF i = 1 THEN UnitOK(db', contended, now, txs[i]) ELSE Elsewhere(db', txs[i])
      BY <2>7, ElsewhereOK
    <2> HIDE DEF b, txs, then
    <2>9. PendingOK(db', contended, now, At(b, txs, then)) BY <2>4, <2>6, <2>8, PendingAt
    <2> QED BY <2>1, <2>9
  <1>8. \A q \in Workers : PendingOK(db', contended, now, req'[q]) BY <1>6, <1>7
  <1>9. DOMAIN db' = DOMAIN db BY <1>5 DEF Grown
  <1>10. None \notin DOMAIN db' BY <1>9 DEF IdentityInv
  <1> QED BY <1>1, <1>2, <1>3, <1>4, <1>8, <1>10 DEF IdentityInv

LEMMA StatementsOK ==
    ASSUME IdentityInv, NEW p \in Workers, Statements(p)
    PROVE  IdentityInv'
  BY ReloadOK, WriteOK, LeaveOK DEF Statements, Refused, Lost

LEMMA TickOK == IdentityInv /\ Tick => IdentityInv'
  <1> SUFFICES ASSUME IdentityInv, Tick PROVE IdentityInv' OBVIOUS
  <1>1. now \in Nat /\ now' \in Nat /\ now <= now' BY DEF IdentityInv, Tick
  <1>2. db' = db /\ req' = req /\ contended' = contended BY DEF Tick
  <1>3. Held(Loose, Lasting)' BY <1>2, StillHeld DEF IdentityInv
  <1>4. RowsOK(db, contended, now') BY <1>1, RowsGrow DEF IdentityInv
  <1>5. \A p \in Workers : PendingOK(db, contended, now', req[p])
    BY <1>1, AllKept, StillGrown, PendingGrows DEF IdentityInv
  <1> QED BY <1>1, <1>2, <1>3, <1>4, <1>5 DEF IdentityInv
-----------------------------------------------------------------------------
(* The handlers of one transaction.                                        *)

LEMMA HandleOK ==
    ASSUME IdentityInv, NEW p \in Workers, NEW D, Readable(D),
           NEW u, UnitFits(db, u, D, Loose, Lasting), Handle(p, D, <<u>>),
           \A hot : contended \subseteq hot => UnitOK(db, hot, now, u)
    PROVE  IdentityInv'
  <1>1. Begin(p, D, <<u>>, "idle") BY DEF Handle
  <1>2. contended \subseteq contended' BY <1>1 DEF Begin
  <1>3. /\ Savable(<<u>>, D, Loose, Lasting)
        /\ Len(<<u>>) = 1 /\ <<u>>[1] = u
    BY OneSavable
  <1> DEFINE txs == <<u>>
             hotter == contended'
  <1>4. UnitOK(db, hotter, now, u) BY <1>2
  <1> HIDE DEF txs, hotter
  <1>5. \A i \in 1 .. Len(txs) : i = 1 /\ txs[i] = u BY <1>3 DEF txs
  <1>6. \A i \in 1 .. Len(txs) :
            IF i = 1 THEN UnitOK(db, hotter, now, txs[i]) ELSE Elsewhere(db, txs[i])
    BY <1>4, <1>5
  <1>7. Savable(txs, D, Loose, Lasting) /\ Begin(p, D, txs, "idle") BY <1>1, <1>3 DEF txs
  <1> QED BY <1>6, <1>7, BeginOK DEF hotter

LEMMA GoOnOneOK ==
    ASSUME IdentityInv, NEW p \in Workers, NEW D, Readable(D), NEW pc,
           NEW u, UnitFits(db, u, D \cup DOMAIN req[p].base, Loose, Lasting),
           GoOn(p, pc, D, <<u>>, "idle"),
           \A hot : contended \subseteq hot => UnitOK(db, hot, now, u)
    PROVE  IdentityInv'
  <1>2. contended \subseteq contended' BY DEF GoOn
  <1>3. /\ Savable(<<u>>, D \cup DOMAIN req[p].base, Loose, Lasting)
        /\ Len(<<u>>) = 1 /\ <<u>>[1] = u
    BY OneSavable
  <1> DEFINE txs == <<u>>
             hotter == contended'
  <1>4. UnitOK(db, hotter, now, u) BY <1>2
  <1> HIDE DEF txs, hotter
  <1>5. \A i \in 1 .. Len(txs) : i = 1 /\ txs[i] = u BY <1>3 DEF txs
  <1>6. \A i \in 1 .. Len(txs) :
            IF i = 1 THEN UnitOK(db, hotter, now, txs[i]) ELSE Elsewhere(db, txs[i])
    BY <1>4, <1>5
  <1>7. /\ Savable(txs, D \cup DOMAIN req[p].base, Loose, Lasting)
        /\ GoOn(p, pc, D, txs, "idle")
    BY <1>3 DEF txs
  <1> QED BY <1>6, <1>7, GoOnOK DEF hotter

\* A transaction of one object.
LEMMA OnlyFits ==
    ASSUME NEW d, NEW o, NEW D, d \in D, d \in DOMAIN db, ObjectFits(db, d, o, Lasting)
    PROVE  UnitFits(db, Only(d, o), D, Loose, Lasting)
  BY DEF UnitFits, Only

\* A row as it was read, with some columns changed.
LEMMA RowFits ==
    ASSUME NEW d \in DOMAIN db, NEW o, DOMAIN o = DOMAIN db[d], Rowed(db[d]),
           o.table = db[d].table, o.status # "absent"
    PROVE  ObjectFits(db, d, o, Lasting)
  BY DEF ObjectFits, Rowed

LEMMA ReadRows ==
    ASSUME NEW D, \A d \in D : \E t : d \in Rows(t) \/ d \in Free(t)
    PROVE  Readable(D)
  BY DEF Readable, Rows, Free, IdsOf, Present
-----------------------------------------------------------------------------
(* The sessions of a user: what is saved of his row, of the tokens he had, *)
(* and of the one he is given.                                             *)

Changes(hot, u, o) ==
    /\ "table" \in DOMAIN o => o.table = "user"
    /\ "status" \in DOMAIN o => o.status # "absent"
    /\ "hash" \in DOMAIN o
    /\ "tenant" \in DOMAIN o => o.tenant = db[u].tenant
    /\ u \notin hot =>
        /\ "failed" \in DOMAIN o => "lockedUntil" \in DOMAIN o /\ Locks(o)
        /\ "lockedUntil" \in DOMAIN o => "failed" \in DOMAIN o

Given(tk, u) ==
    /\ DOMAIN tk = {"table", "status", "user", "tv", "tenant", "role", "issuedAt"}
    /\ tk.table = "token" /\ tk.status = "given" /\ tk.user = u

LEMMA EndedUnit ==
    ASSUME NEW u \in Rows("user"), NEW T \in SUBSET TokensOf(u), NEW o
    PROVE  LET unit == And(Spend(T), Only(u, o))
           IN  /\ DOMAIN unit \subseteq T \cup {u} /\ u \in DOMAIN unit /\ unit[u] = o
               /\ \A t \in DOMAIN unit \ {u} : unit[t] = [db[t] EXCEPT !.status = "spent"]
  <1>1. u \notin T BY DEF TokensOf, Rows, IdsOf
  <1> QED BY <1>1 DEF And, Only, Spend

\* The tokens that the client uses up.
LEMMA SpentOK ==
    ASSUME IdentityInv, NEW u \in Rows("user"), NEW t \in TokensOf(u), NEW unit, NEW hot, NEW D,
           u \in DOMAIN unit, unit[t] = [db[t] EXCEPT !.status = "spent"]
    PROVE  /\ TokenOK(db, hot, unit, t) /\ db[t].table = "token" /\ t \in DOMAIN db
           /\ db[t].status # "absent" /\ ObjectFits(db, t, unit[t], Lasting)
  <1>1. t \in Stored(db, "token") /\ db[t].user = u BY DEF TokensOf, Rows, IdsOf, Present, Stored
  <1>2. Shaped(db[t]) /\ u \in Stored(db, "user") BY <1>1 DEF IdentityInv, RowsOK, Stored
  <1>3. {"table", "status", "user", "tv", "tenant"} \subseteq DOMAIN db[t]
    BY <1>1, <1>2 DEF Shaped, Rowed, Stored
  <1> DEFINE o == unit[t]
  <1>4. /\ DOMAIN o = DOMAIN db[t] /\ o.status = "spent" /\ o.table = "token"
        /\ o.user = u /\ o.tenant = db[t].tenant
    BY <1>1, <1>3 DEF Stored
  <1>5. TokenOK(db, hot, unit, t) BY <1>1, <1>2, <1>3, <1>4 DEF TokenOK, Shaped, Rowed, Stored
  <1>6. ObjectFits(db, t, o, Lasting) BY <1>1, <1>3, <1>4 DEF ObjectFits, Rowed, Stored
  <1> QED BY <1>1, <1>5, <1>6 DEF Stored

LEMMA EndsOK ==
    ASSUME IdentityInv, NEW u \in Rows("user"), NEW T \in SUBSET TokensOf(u), NEW o,
           NEW hot, Changes(hot, u, o), o.hash = None, NEW D, u \in D
    PROVE  /\ UnitOK(db, hot, now, And(Spend(T), Only(u, o)))
           /\ UnitFits(db, And(Spend(T), Only(u, o)), D, Loose, Lasting)
  <1> DEFINE unit == And(Spend(T), Only(u, o))
  <1>1. /\ DOMAIN unit \subseteq T \cup {u} /\ u \in DOMAIN unit /\ unit[u] = o
        /\ \A t \in DOMAIN unit \ {u} : unit[t] = [db[t] EXCEPT !.status = "spent"]
    BY EndedUnit
  <1> HIDE DEF unit
  <1>2. db[u].table = "user" /\ u \in DOMAIN db /\ db[u].status # "absent"
    BY DEF Rows, IdsOf, Present
  <1>3. \A t \in DOMAIN unit \ {u} :
            /\ TokenOK(db, hot, unit, t) /\ db[t].table = "token" /\ t \in DOMAIN db
            /\ db[t].status # "absent" /\ ObjectFits(db, t, unit[t], Lasting)
    BY <1>1, SpentOK
  <1>4. UserOK(db, hot, unit, u) BY <1>1, <1>2 DEF UserOK, Changes
  <1>5. ObjectFits(db, u, o, Lasting) BY <1>2 DEF ObjectFits, Changes, Lasting
  <1>6. UnitOK(db, hot, now, unit) BY <1>2, <1>3, <1>4 DEF UnitOK
  <1>7. UnitFits(db, unit, D, Loose, Lasting) BY <1>1, <1>2, <1>3, <1>5 DEF UnitFits, Loose
  <1> QED BY <1>6, <1>7 DEF unit

LEMMA GivesOK ==
    ASSUME IdentityInv, NEW u \in Rows("user"), NEW T \in SUBSET TokensOf(u), NEW o,
           NEW n \in DOMAIN db, db[n].table = "token", db[n].status = "absent",
           NEW tk, Given(tk, u), NEW hot,
           tk.tenant = db[u].tenant \/ Agreed(db, hot, tk.tenant, u),
           Changes(hot, u, o), o.hash = n, NEW D, u \in D, n \in D
    PROVE  /\ UnitOK(db, hot, now, And(Only(n, tk), And(Spend(T), Only(u, o))))
           /\ UnitFits(db, And(Only(n, tk), And(Spend(T), Only(u, o))), D, Loose, Lasting)
  <1> DEFINE rest == And(Spend(T), Only(u, o))
             unit == And(Only(n, tk), rest)
  <1>1. /\ DOMAIN rest \subseteq T \cup {u} /\ u \in DOMAIN rest /\ rest[u] = o
        /\ \A t \in DOMAIN rest \ {u} : rest[t] = [db[t] EXCEPT !.status = "spent"]
    BY EndedUnit
  <1>2. db[u].table = "user" /\ u \in DOMAIN db /\ db[u].status # "absent"
    BY DEF Rows, IdsOf, Present
  <1>3. n \notin T /\ n # u BY <1>2 DEF TokensOf, Rows, Present
  <1> HIDE DEF rest
  <1>4. /\ DOMAIN unit = {n} \cup DOMAIN rest /\ unit[n] = tk
        /\ \A d \in DOMAIN rest : unit[d] = rest[d]
    BY <1>1, <1>3 DEF And, Only
  <1> HIDE DEF unit
  <1>5. \A t \in DOMAIN unit \ {u, n} :
            /\ TokenOK(db, hot, unit, t) /\ db[t].table = "token" /\ t \in DOMAIN db
            /\ db[t].status # "absent" /\ ObjectFits(db, t, unit[t], Lasting)
    BY <1>1, <1>4, SpentOK
  <1>6. UserOK(db, hot, unit, u) BY <1>1, <1>2, <1>4 DEF UserOK, Changes
  <1>7. ObjectFits(db, u, unit[u], Lasting) BY <1>1, <1>2, <1>4 DEF ObjectFits, Changes, Lasting
  <1>8. TokenOK(db, hot, unit, n) BY <1>1, <1>2, <1>4 DEF TokenOK, Given, Shaped, Rowed, Stored
  <1>9. ObjectFits(db, n, unit[n], Lasting) BY <1>4 DEF ObjectFits, Given, Rowed
  <1>10. UnitOK(db, hot, now, unit)
    <2> SUFFICES ASSUME NEW d \in DOMAIN unit
                 PROVE  /\ db[d].table = "user" => UserOK(db, hot, unit, d)
                        /\ db[d].table = "token" => TokenOK(db, hot, unit, d)
                        /\ db[d].table = "membership" => MembershipOK(db, hot, now, d, unit[d])
      BY DEF UnitOK
    <2>1. CASE d = u BY <1>2, <1>6, <2>1
    <2>2. CASE d = n BY <1>8, <2>2
    <2>3. CASE d \notin {u, n} BY <1>5, <2>3
    <2> QED BY <2>1, <2>2, <2>3
  <1>11. UnitFits(db, unit, D, Loose, Lasting)
    <2> SUFFICES ASSUME NEW d \in DOMAIN unit
                 PROVE  /\ d \in DOMAIN db
                        /\ d \in D \/ (db[d].table \in Loose /\ db[d].status # "absent")
                        /\ ObjectFits(db, d, unit[d], Lasting)
      BY DEF UnitFits
    <2>1. CASE d = u BY <1>2, <1>7, <2>1
    <2>2. CASE d = n BY <1>9, <2>2
    <2>3. CASE d \notin {u, n} BY <1>5, <2>3 DEF Loose
    <2> QED BY <2>1, <2>2, <2>3
  <1> QED BY <1>10, <1>11 DEF unit, rest
-----------------------------------------------------------------------------
(* AuthService.                                                            *)

\* What a user's row says that was read.
LEMMA UserRead ==
    ASSUME IdentityInv, NEW u \in Rows("user")
    PROVE  /\ u \in DOMAIN db /\ db[u].table = "user" /\ db[u].status # "absent"
           /\ {"table", "status", "tenant", "hash", "tokenVersion", "failed", "lockedUntil"}
                  \subseteq DOMAIN db[u]
           /\ u \notin contended => Locks(db[u])
  <1>1. u \in Stored(db, "user") BY SameRows
  <1>2. Shaped(db[u]) /\ (u \notin contended => Locks(db[u]))
    BY <1>1 DEF IdentityInv, RowsOK, Stored
  <1> QED BY <1>1, <1>2 DEF Stored, Shaped, Rowed

LEMMA TokenRead ==
    ASSUME IdentityInv, NEW t \in Rows("token")
    PROVE  /\ db[t].user \in Rows("user") /\ t \in TokensOf(db[t].user)
  <1>1. t \in Stored(db, "token") BY SameRows
  <1>2. db[t].user \in Stored(db, "user") BY <1>1 DEF IdentityInv, RowsOK
  <1> QED BY <1>2, SameRows DEF TokensOf

LEMMA RegisterOK ==
    ASSUME IdentityInv, NEW p \in Workers, Register(p)
    PROVE  IdentityInv'
  <1>1. PICK email \in Emails, tenant \in Rows("tenant") :
            LET u == New("user") IN Handle(p, {u}, <<Only(u, User(email, tenant))>>)
    BY DEF Register
  <1> DEFINE u == New("user")
             o == User(email, tenant)
  <1>2. u \in Free("user") /\ u \in DOMAIN db /\ db[u].table = "user" /\ db[u].status = "absent"
    BY NewRow DEF Register
  <1>3. /\ DOMAIN o = {"table", "status", "key", "role", "tenant", "hash", "tokenVersion",
                       "failed", "lockedUntil", "session"}
        /\ o.table = "user" /\ o.status = "active" /\ o.hash = None
        /\ o.failed = 0 /\ o.lockedUntil = None
    BY DEF User
  <1>4. Handle(p, {u}, <<Only(u, o)>>) BY <1>1
  <1> HIDE DEF u, o
  <1>5. Readable({u}) BY <1>2, ReadRows
  <1>6. ObjectFits(db, u, o, Lasting) BY <1>2, <1>3 DEF ObjectFits, Rowed
  <1>7. UnitFits(db, Only(u, o), {u}, Loose, Lasting) BY <1>2, <1>6, OnlyFits
  <1>8. Locks(o) BY <1>3, IdentityAssumption DEF Locks
  <1>9. ASSUME NEW hot PROVE UnitOK(db, hot, now, Only(u, o))
    <2>1. DOMAIN Only(u, o) = {u} /\ Only(u, o)[u] = o BY DEF Only
    <2> QED BY <1>2, <1>3, <1>8, <2>1 DEF UnitOK, UserOK, Shaped, Rowed
  <1> QED BY <1>4, <1>5, <1>7, <1>9, HandleOK

LEMMA LoginMissedOK ==
    ASSUME IdentityInv, NEW p \in Workers, LoginMissed(p)
    PROVE  IdentityInv'
  <1>1. PICK u \in Rows("user") :
            Handle(p, {u}, <<Only(u, [db[u] EXCEPT !.failed = @ + 1,
               !.lockedUntil = IF db[u].failed + 1 >= MaxFailed THEN now + LockedFor ELSE @])>>)
    BY DEF LoginMissed
  <1> DEFINE o == [db[u] EXCEPT !.failed = @ + 1,
               !.lockedUntil = IF db[u].failed + 1 >= MaxFailed THEN now + LockedFor ELSE @]
  <1>2. /\ u \in DOMAIN db /\ db[u].table = "user" /\ db[u].status # "absent"
        /\ {"table", "status", "tenant", "hash", "tokenVersion", "failed", "lockedUntil"}
               \subseteq DOMAIN db[u]
        /\ u \notin contended => Locks(db[u])
    BY UserRead
  <1>3. /\ DOMAIN o = DOMAIN db[u] /\ o.table = db[u].table /\ o.status = db[u].status
        /\ o.hash = db[u].hash /\ o.tenant = db[u].tenant
        /\ o.failed = db[u].failed + 1
        /\ o.lockedUntil = IF db[u].failed + 1 >= MaxFailed THEN now + LockedFor
                           ELSE db[u].lockedUntil
    BY <1>2
  <1>4. Handle(p, {u}, <<Only(u, o)>>) BY <1>1
  <1> HIDE DEF o
  <1>5. Readable({u}) BY ReadRows
  <1>6. ObjectFits(db, u, o, Lasting) BY <1>2, <1>3, RowFits DEF Rowed
  <1>7. UnitFits(db, Only(u, o), {u}, Loose, Lasting) BY <1>2, <1>6, OnlyFits
  <1>8. u \notin contended => Locks(o)
    BY <1>2, <1>3, IdentityAssumption DEF Locks, IdentityInv
  <1>9. ASSUME NEW hot, contended \subseteq hot PROVE UnitOK(db, hot, now, Only(u, o))
    <2>1. DOMAIN Only(u, o) = {u} /\ Only(u, o)[u] = o BY DEF Only
    <2>2. UserOK(db, hot, Only(u, o), u) BY <1>2, <1>3, <1>8, <1>9, <2>1 DEF UserOK
    <2> QED BY <1>2, <2>1, <2>2 DEF UnitOK
  <1> QED BY <1>4, <1>5, <1>7, <1>9, HandleOK

LEMMA LoginOK ==
    ASSUME IdentityInv, NEW p \in Workers, Login(p)
    PROVE  IdentityInv'
  <1> DEFINE t     == New("token")
             tk(u) == Token(u, db[u].tokenVersion, db[u].tenant, db[u].role)
             o(u)  == [db[u] EXCEPT !.hash = t, !.failed = 0, !.lockedUntil = None, !.session = now]
             unit(u) == And(Only(t, tk(u)), And(Spend(TokensOf(u)), Only(u, o(u))))
  <1>1. PICK u \in Rows("user") : Handle(p, {u, t}, <<unit(u)>>) BY DEF Login
  <1>2. t \in Free("token") /\ t \in DOMAIN db /\ db[t].table = "token" /\ db[t].status = "absent"
    BY NewRow DEF Login
  <1>3. /\ u \in DOMAIN db /\ db[u].table = "user" /\ db[u].status # "absent"
        /\ {"table", "status", "tenant", "hash", "tokenVersion", "failed", "lockedUntil"}
               \subseteq DOMAIN db[u]
    BY UserRead
  <1>4. Readable({u, t}) BY <1>2, ReadRows
  <1> HIDE DEF t
  <1>5. \A hot : Changes(hot, u, o(u))
    BY <1>3, IdentityAssumption DEF Changes, Locks
  <1>6. o(u).hash = t BY <1>3
  <1>7. Given(tk(u), u) /\ tk(u).tenant = db[u].tenant BY DEF Given, Token
  <1> HIDE DEF tk, o
  <1>8. \A hot : /\ UnitOK(db, hot, now, unit(u))
                 /\ UnitFits(db, unit(u), {u, t}, Loose, Lasting)
    BY <1>2, <1>5, <1>6, <1>7, GivesOK
  <1> HIDE DEF unit
  <1> QED BY <1>1, <1>4, <1>8, HandleOK

LEMMA RefreshEndsOK ==
    ASSUME IdentityInv, NEW p \in Workers, RefreshEnds(p)
    PROVE  IdentityInv'
  <1> DEFINE ended(u) == [hash |-> None, tokenVersion |-> db[u].tokenVersion + 1]
             o(u)     == IF Expired(u) THEN And(ended(u), [session |-> None]) ELSE ended(u)
             unit(u)  == And(Spend(TokensOf(u)), Only(u, o(u)))
  <1>1. PICK t \in Rows("token") : Handle(p, {db[t].user}, <<unit(db[t].user)>>) BY DEF RefreshEnds
  <1>2. PICK u \in Rows("user") : u = db[t].user BY TokenRead
  <1>3. Readable({u}) BY ReadRows
  <1>4. DOMAIN o(u) \subseteq {"hash", "tokenVersion", "session"} /\ "hash" \in DOMAIN o(u)
        /\ o(u).hash = None
    <2>1. DOMAIN ended(u) = {"hash", "tokenVersion"} /\ ended(u).hash = None OBVIOUS
    <2>2. DOMAIN [session |-> None] = {"session"} OBVIOUS
    <2> HIDE DEF ended
    <2> QED BY <2>1, <2>2 DEF And
  <1> HIDE DEF o
  <1>5. \A hot : Changes(hot, u, o(u)) BY <1>4 DEF Changes
  <1>6. \A hot : /\ UnitOK(db, hot, now, unit(u))
                 /\ UnitFits(db, unit(u), {u}, Loose, Lasting)
    BY <1>4, <1>5, EndsOK
  <1> HIDE DEF unit
  <1> QED BY <1>1, <1>2, <1>3, <1>6, HandleOK

LEMMA RefreshOK ==
    ASSUME IdentityInv, NEW p \in Workers, Refresh(p)
    PROVE  IdentityInv'
  <1> DEFINE n     == New("token")
             tk(u) == Token(u, db[u].tokenVersion + 1, db[u].tenant, db[u].role)
             o(u)  == [db[u] EXCEPT !.tokenVersion = @ + 1, !.hash = n]
             unit(t, u) == And(Only(n, tk(u)), And(Spend({t}), Only(u, o(u))))
  <1>1. PICK t \in Rows("token") : Handle(p, {db[t].user, n}, <<unit(t, db[t].user)>>)
    BY DEF Refresh
  <1>2. n \in Free("token") /\ n \in DOMAIN db /\ db[n].table = "token" /\ db[n].status = "absent"
    BY NewRow DEF Refresh
  <1>3. PICK u \in Rows("user") : u = db[t].user /\ {t} \subseteq TokensOf(u) BY TokenRead
  <1>4. /\ u \in DOMAIN db /\ db[u].table = "user" /\ db[u].status # "absent"
        /\ {"table", "status", "tenant", "hash", "tokenVersion", "failed", "lockedUntil"}
               \subseteq DOMAIN db[u]
        /\ u \notin contended => Locks(db[u])
    BY UserRead
  <1>5. Readable({u, n}) BY <1>2, ReadRows
  <1> HIDE DEF n
  <1>6. \A hot : contended \subseteq hot => Changes(hot, u, o(u)) BY <1>4 DEF Changes, Locks
  <1>7. o(u).hash = n BY <1>4
  <1>8. Given(tk(u), u) /\ tk(u).tenant = db[u].tenant BY DEF Given, Token
  <1> HIDE DEF tk, o
  <1>9. \A hot : contended \subseteq hot =>
                 /\ UnitOK(db, hot, now, unit(t, u))
                 /\ UnitFits(db, unit(t, u), {u, n}, Loose, Lasting)
    BY <1>2, <1>3, <1>6, <1>7, <1>8, GivesOK
  <1> HIDE DEF unit
  <1> QED BY <1>1, <1>3, <1>5, <1>9, HandleOK

LEMMA LogoutOK ==
    ASSUME IdentityInv, NEW p \in Workers, Logout(p)
    PROVE  IdentityInv'
  <1> DEFINE o(u)    == [hash |-> None, tokenVersion |-> db[u].tokenVersion + 1]
             unit(u) == And(Spend(TokensOf(u)), Only(u, o(u)))
  <1>1. PICK s \in Callers : Handle(p, {db[s].user}, <<unit(db[s].user)>>) BY DEF Logout
  <1>2. PICK u \in Rows("user") : u = db[s].user BY TokenRead DEF Callers
  <1>3. Readable({u}) BY ReadRows
  <1>4. DOMAIN o(u) = {"hash", "tokenVersion"} /\ o(u).hash = None OBVIOUS
  <1> HIDE DEF o
  <1>5. \A hot : Changes(hot, u, o(u)) BY <1>4 DEF Changes
  <1>6. \A hot : /\ UnitOK(db, hot, now, unit(u))
                 /\ UnitFits(db, unit(u), {u}, Loose, Lasting)
    BY <1>4, <1>5, EndsOK
  <1> HIDE DEF unit
  <1> QED BY <1>1, <1>2, <1>3, <1>6, HandleOK
-----------------------------------------------------------------------------
(* MembershipsService.                                                     *)

LEMMA MembershipRead ==
    ASSUME IdentityInv, NEW m \in Rows("membership")
    PROVE  /\ m \in DOMAIN db /\ db[m].table = "membership" /\ db[m].status # "absent"
           /\ m \in Stored(db, "membership")
           /\ {"table", "status", "key", "tenant", "user", "invitedAt", "consentedAt"}
                  \subseteq DOMAIN db[m]
           /\ db[m].user \in Stored(db, "user") /\ db[m].key = <<db[m].tenant, db[m].user>>
           /\ m \notin contended => Joins(db[m], now)
  <1>1. m \in Stored(db, "membership") BY SameRows
  <1>2. Shaped(db[m]) BY <1>1 DEF IdentityInv, RowsOK, Stored
  <1>3. /\ db[m].user \in Stored(db, "user") /\ db[m].key = <<db[m].tenant, db[m].user>>
        /\ m \notin contended => Joins(db[m], now)
    BY <1>1 DEF IdentityInv, RowsOK
  <1> QED BY <1>1, <1>2, <1>3 DEF Stored, Shaped, Rowed

\* A membership saved by itself.
LEMMA OneMembership ==
    ASSUME NEW m \in DOMAIN db, db[m].table = "membership", NEW o, NEW hot,
           MembershipOK(db, hot, now, m, o)
    PROVE  UnitOK(db, hot, now, Only(m, o))
  <1>1. DOMAIN Only(m, o) = {m} /\ Only(m, o)[m] = o BY DEF Only
  <1> QED BY <1>1 DEF UnitOK

\* A membership that was read, with another status and other times.
LEMMA ChangedMembership ==
    ASSUME IdentityInv, NEW p \in Workers, NEW m \in Rows("membership"), NEW o,
           Handle(p, {m}, <<Only(m, o)>>),
           DOMAIN o = DOMAIN db[m], o.table = "membership", o.status # "absent",
           o.tenant = db[m].tenant, o.user = db[m].user, o.key = db[m].key,
           db[m].consentedAt # None => o.consentedAt # None,
           m \notin contended => Joins(o, now)
    PROVE  IdentityInv'
  <1>1. /\ m \in DOMAIN db /\ db[m].table = "membership" /\ db[m].status # "absent"
        /\ {"table", "status", "key", "tenant", "user", "invitedAt", "consentedAt"}
               \subseteq DOMAIN db[m]
        /\ db[m].user \in Stored(db, "user") /\ db[m].key = <<db[m].tenant, db[m].user>>
    BY MembershipRead
  <1>2. Readable({m}) BY ReadRows
  <1>3. ObjectFits(db, m, o, Lasting) BY <1>1, RowFits DEF Rowed
  <1>4. UnitFits(db, Only(m, o), {m}, Loose, Lasting) BY <1>1, <1>3, OnlyFits
  <1>5. ASSUME NEW hot, contended \subseteq hot PROVE UnitOK(db, hot, now, Only(m, o))
    <2>1. MembershipOK(db, hot, now, m, o) BY <1>1, <1>5 DEF MembershipOK, Shaped, Rowed
    <2> QED BY <1>1, <2>1, OneMembership
  <1> QED BY <1>2, <1>4, <1>5, HandleOK

LEMMA InvitedNew ==
    ASSUME IdentityInv, NEW p \in Workers, NEW u \in Rows("user"), NEW tenant, NEW role,
           Free("membership") # {},
           LET m == New("membership")
           IN  Handle(p, {m}, <<Only(m, Membership(tenant, u, role))>>)
    PROVE  IdentityInv'
  <1> DEFINE m == New("membership")
             o == Membership(tenant, u, role)
  <1>1. /\ m \in Free("membership") /\ m \in DOMAIN db
        /\ db[m].table = "membership" /\ db[m].status = "absent"
    BY NewRow
  <1>2. /\ DOMAIN o = {"table", "status", "key", "tenant", "user", "role", "invitedAt",
                       "consentedAt", "revokedAt"}
        /\ o.table = "membership" /\ o.status = "pending" /\ o.key = <<tenant, u>>
        /\ o.tenant = tenant /\ o.user = u /\ o.invitedAt = now
    BY DEF Membership
  <1>3. Handle(p, {m}, <<Only(m, o)>>) OBVIOUS
  <1> HIDE DEF m, o
  <1>4. Readable({m}) BY <1>1, ReadRows
  <1>5. ObjectFits(db, m, o, Lasting) BY <1>1, <1>2 DEF ObjectFits, Rowed
  <1>6. UnitFits(db, Only(m, o), {m}, Loose, Lasting) BY <1>1, <1>5, OnlyFits
  <1>7. u \in Stored(db, "user") BY SameRows
  <1>8. now \in Nat BY DEF IdentityInv
  <1>9. Joins(o, now) BY <1>2, <1>8 DEF Joins
  <1>10. ASSUME NEW hot PROVE UnitOK(db, hot, now, Only(m, o))
    <2>1. MembershipOK(db, hot, now, m, o) BY <1>1, <1>2, <1>7, <1>9 DEF MembershipOK, Shaped, Rowed
    <2> QED BY <1>1, <2>1, OneMembership
  <1> QED BY <1>3, <1>4, <1>6, <1>10, HandleOK

LEMMA InviteOK ==
    ASSUME IdentityInv, NEW p \in Workers, Invite(p)
    PROVE  IdentityInv'
  <1>1. PICK s \in Callers, u \in Rows("user"), role \in MemberRoles :
        LET tenant == db[s].tenant
            known  == {m \in Rows("membership") : db[m].key = <<tenant, u>>}
        IN  \/ /\ Free("membership") # {}
               /\ LET m == New("membership")
                  IN  Handle(p, {m}, <<Only(m, Membership(tenant, u, role))>>)
            \/ \E m \in known :
                Handle(p, {m}, <<Only(m, [db[m] EXCEPT !.status = "pending", !.role = role,
                                              !.invitedAt = now, !.revokedAt = None])>>)
    BY DEF Invite
  <1> DEFINE tenant == db[s].tenant
             o(m)   == [db[m] EXCEPT !.status = "pending", !.role = role,
                                     !.invitedAt = now, !.revokedAt = None]
  <1>2. CASE /\ Free("membership") # {}
             /\ LET m == New("membership")
                IN  Handle(p, {m}, <<Only(m, Membership(tenant, u, role))>>)
    BY <1>2, InvitedNew
  <1>3. ASSUME NEW m \in Rows("membership"), Handle(p, {m}, <<Only(m, o(m))>>)
        PROVE  IdentityInv'
    <2>1. /\ db[m].table = "membership"
          /\ {"table", "status", "key", "tenant", "user", "invitedAt", "consentedAt"}
               \subseteq DOMAIN db[m]
      BY MembershipRead
    <2>2. /\ DOMAIN o(m) = DOMAIN db[m] /\ o(m).table = "membership" /\ o(m).status = "pending"
          /\ o(m).tenant = db[m].tenant /\ o(m).user = db[m].user /\ o(m).key = db[m].key
          /\ o(m).consentedAt = db[m].consentedAt /\ o(m).invitedAt = now
      BY <2>1
    <2> HIDE DEF o
    <2>3. Joins(o(m), now) BY <2>2 DEF Joins, IdentityInv
    <2> QED BY <1>3, <2>2, <2>3, ChangedMembership
  <1> QED BY <1>1, <1>2, <1>3

LEMMA ConsentOK ==
    ASSUME IdentityInv, NEW p \in Workers, Consent(p)
    PROVE  IdentityInv'
  <1> DEFINE o(m) == [db[m] EXCEPT !.status = "active", !.consentedAt = now]
  <1>1. PICK m \in Rows("membership") : Handle(p, {m}, <<Only(m, o(m))>>) BY DEF Consent
  <1>2. /\ db[m].table = "membership"
        /\ {"table", "status", "key", "tenant", "user", "invitedAt", "consentedAt"}
             \subseteq DOMAIN db[m]
        /\ m \notin contended => Joins(db[m], now)
    BY MembershipRead
  <1>3. /\ DOMAIN o(m) = DOMAIN db[m] /\ o(m).table = "membership" /\ o(m).status = "active"
        /\ o(m).tenant = db[m].tenant /\ o(m).user = db[m].user /\ o(m).key = db[m].key
        /\ o(m).consentedAt = now /\ o(m).invitedAt = db[m].invitedAt
    BY <1>2
  <1> HIDE DEF o
  <1>4. now \in Nat /\ now # None BY IdentityAssumption DEF IdentityInv
  <1>5. m \notin contended => Joins(o(m), now) BY <1>2, <1>3, <1>4 DEF Joins
  <1> QED BY <1>1, <1>3, <1>4, <1>5, ChangedMembership

LEMMA RevokeOK ==
    ASSUME IdentityInv, NEW p \in Workers, Revoke(p)
    PROVE  IdentityInv'
  <1> DEFINE o(m) == [db[m] EXCEPT !.status = "revoked", !.revokedAt = now]
  <1>1. PICK m \in Rows("membership") : Handle(p, {m}, <<Only(m, o(m))>>) BY DEF Revoke
  <1>2. /\ db[m].table = "membership"
        /\ {"table", "status", "key", "tenant", "user", "invitedAt", "consentedAt"}
             \subseteq DOMAIN db[m]
        /\ m \notin contended => Joins(db[m], now)
    BY MembershipRead
  <1>3. /\ DOMAIN o(m) = DOMAIN db[m] /\ o(m).table = "membership" /\ o(m).status = "revoked"
        /\ o(m).tenant = db[m].tenant /\ o(m).user = db[m].user /\ o(m).key = db[m].key
        /\ o(m).consentedAt = db[m].consentedAt /\ o(m).invitedAt = db[m].invitedAt
    BY <1>2
  <1> HIDE DEF o
  <1>5. m \notin contended => Joins(o(m), now) BY <1>2, <1>3 DEF Joins
  <1> QED BY <1>1, <1>3, <1>5, ChangedMembership

LEMMA SwitchTenantOK ==
    ASSUME IdentityInv, NEW p \in Workers, SwitchTenant(p)
    PROVE  IdentityInv'
  <1>1. ASSUME Free("token") # {}, NEW m \in Rows("membership"), db[m].status = "active",
               Begin(p, {m, New("token")}, <<>>, "mint")
        PROVE  IdentityInv'
    <2> DEFINE n == New("token")
               D == {m, n}
               b == [d \in D |-> db[d]]
               hotter == contended'
    <2>1. n \in Free("token") /\ n \in DOMAIN db /\ db[n].table = "token" /\ db[n].status = "absent"
      BY <1>1, NewRow
    <2>2. /\ m \in DOMAIN db /\ db[m].table = "membership" /\ m \in Stored(db, "membership")
          /\ m \notin contended => Joins(db[m], now)
      BY MembershipRead
    <2>3. Begin(p, D, <<>>, "mint") BY <1>1
    <2>4. contended \subseteq contended' BY <2>3 DEF Begin
    <2> HIDE DEF n
    <2>5. Readable(D) BY <2>1, ReadRows
    <2>6. Savable(<<>>, D, Loose, Lasting) /\ Len(<<>>) = 0 BY NoneSavable
    <2>7. MintOK(db, hotter, b)
      <3>1. m \in hotter \/ db[m].consentedAt # None BY <1>1, <2>2, <2>4 DEF Joins
      <3>2. DOMAIN b = {m, n} /\ b[m] = db[m] /\ b[n] = db[n] OBVIOUS
      <3> HIDE DEF b, hotter
      <3> QED BY <2>1, <2>2, <3>1, <3>2 DEF MintOK
    <2> HIDE DEF D
    <2>8. MintOK(db, contended', [d \in D |-> db[d]]) BY <2>7
    <2> QED BY <2>3, <2>5, <2>6, <2>8, BeginOK
  <1>2. ASSUME NEW m \in DOMAIN req[p].base, NEW n \in DOMAIN req[p].base,
               db[m].table = "membership", db[n].table = "token",
               LET member == req[p].base[m]
                   u      == member.user
                   tv     == db[u].tokenVersion + 1
               IN  GoOn(p, "mint", {u},
                     <<And(Only(n, Token(u, tv, member.tenant, Rendered(member.role))),
                       And(Spend(TokensOf(u)),
                           Only(u, [db[u] EXCEPT !.tokenVersion = tv, !.session = now,
                                                 !.hash = n])))>>, "idle")
        PROVE  IdentityInv'
    <2> DEFINE member == req[p].base[m]
               u      == member.user
               tv     == db[u].tokenVersion + 1
               tk     == Token(u, tv, member.tenant, Rendered(member.role))
               o      == [db[u] EXCEPT !.tokenVersion = tv, !.session = now, !.hash = n]
               unit   == And(Only(n, tk), And(Spend(TokensOf(u)), Only(u, o)))
    <2>1. GoOn(p, "mint", {u}, <<unit>>, "idle") BY <1>2
    <2>2. req[p].pc = "mint" BY <2>1 DEF GoOn
    <2>3. MintOK(db, contended, req[p].base) BY <2>2 DEF IdentityInv, PendingOK
    <2>4. n \in DOMAIN db BY DEF IdentityInv, Held, RequestFits
    <2>5. /\ db[n].status = "absent" /\ m \in Stored(db, "membership")
          /\ member.tenant = db[m].tenant /\ u = db[m].user
          /\ db[m].consentedAt # None \/ m \in contended
      BY <1>2, <2>3 DEF MintOK
    <2>6. u \in Stored(db, "user") /\ db[m].key = <<db[m].tenant, db[m].user>>
      BY <2>5 DEF IdentityInv, RowsOK
    <2>7. u \in Rows("user") BY <2>6, SameRows
    <2>8. Agreed(db, contended, member.tenant, u) BY <2>5, <2>6 DEF Agreed
    <2>9. Given(tk, u) /\ tk.tenant = member.tenant BY DEF Given, Token
    <2> HIDE DEF member, u, tk
    <2>10. /\ u \in DOMAIN db /\ db[u].table = "user" /\ db[u].status # "absent"
           /\ {"table", "status", "tenant", "hash", "tokenVersion", "failed", "lockedUntil"}
               \subseteq DOMAIN db[u]
           /\ u \notin contended => Locks(db[u])
      BY <2>7, UserRead
    <2>11. \A hot : contended \subseteq hot => Changes(hot, u, o) BY <2>10 DEF Changes, Locks
    <2>12. o.hash = n BY <2>10
    <2> HIDE DEF o
    <2>13. \A hot : contended \subseteq hot => Agreed(db, hot, member.tenant, u)
      BY <2>8, AgreedGrows, StillGrown
    <2>14. \A hot : contended \subseteq hot =>
              /\ UnitOK(db, hot, now, unit)
              /\ UnitFits(db, unit, {u} \cup DOMAIN req[p].base, Loose, Lasting)
      BY <1>2, <2>4, <2>5, <2>7, <2>9, <2>11, <2>12, <2>13, GivesOK
    <2> HIDE DEF unit
    <2>15. Readable({u}) BY <2>7, ReadRows
    <2> QED BY <2>1, <2>14, <2>15, GoOnOneOK
  <1> QED BY <1>1, <1>2 DEF SwitchTenant
-----------------------------------------------------------------------------
(* SsoService, TenantsService and CopilotService: nothing of theirs is of  *)
(* users, tokens or memberships.                                           *)

LEMMA OtherFits ==
    ASSUME NEW t, t \notin Lasting, NEW d, d \in Rows(t) \/ d \in Free(t),
           NEW o, Rowed(o), o.table = t, NEW D, d \in D
    PROVE  /\ Elsewhere(db, Only(d, o))
           /\ UnitFits(db, Only(d, o), D, Loose, Lasting)
  <1>1. d \in DOMAIN db /\ db[d].table = t BY DEF Rows, Free, IdsOf
  <1>2. ObjectFits(db, d, o, Lasting) BY <1>1 DEF ObjectFits
  <1>3. Elsewhere(db, Only(d, o)) BY <1>1 DEF Elsewhere, Only
  <1> QED BY <1>1, <1>2, <1>3, OnlyFits

LEMMA OtherOK ==
    ASSUME IdentityInv, NEW p \in Workers, NEW t, t \notin Lasting,
           NEW d, d \in Rows(t) \/ d \in Free(t), NEW o, Rowed(o), o.table = t,
           Handle(p, {d}, <<Only(d, o)>>)
    PROVE  IdentityInv'
  <1>1. Readable({d}) BY ReadRows
  <1>2. /\ Elsewhere(db, Only(d, o))
        /\ UnitFits(db, Only(d, o), {d}, Loose, Lasting)
    BY OtherFits
  <1>3. \A hot : UnitOK(db, hot, now, Only(d, o)) BY <1>2, ElsewhereOK
  <1> DEFINE u == Only(d, o)
  <1> HIDE DEF u
  <1>4. Handle(p, {d}, <<u>>) BY DEF u
  <1> QED BY <1>1, <1>2, <1>3, <1>4, HandleOK DEF u

LEMMA OtherRead ==
    ASSUME IdentityInv, NEW t, NEW d \in Rows(t)
    PROVE  d \in DOMAIN db /\ db[d].table = t /\ Rowed(db[d])
  BY DEF IdentityInv, Held, Rows, IdsOf

LEMMA TenantStepOK ==
    ASSUME IdentityInv, NEW p \in Workers, TenantStep(p)
    PROVE  IdentityInv'
  <1>1. {"sso", "tenant"} \cap Lasting = {} BY DEF Lasting
  <1>2. ASSUME NEW tenant, NEW protocol
        PROVE  LET c == SsoConfig(tenant, protocol)
               IN  /\ Rowed(c) /\ c.table = "sso"
                   /\ Rowed([c EXCEPT !.breakGlass = TRUE])
                   /\ [c EXCEPT !.breakGlass = TRUE].table = "sso"
    BY DEF SsoConfig, Rowed
  <1>3. ASSUME UpsertSso(p) PROVE IdentityInv'
    <2>1. PICK s \in Callers, protocol \in {"saml2", "scim2"} :
            \/ \E c \in ConfigOf(db[s].tenant, protocol) : Handle(p, {c}, <<Only(c, db[c])>>)
            \/ /\ Free("sso") # {}
               /\ LET c == New("sso")
                  IN  Handle(p, {c}, <<Only(c, SsoConfig(db[s].tenant, protocol))>>)
      BY <1>3 DEF UpsertSso, Configure
    <2>2. ASSUME NEW c \in Rows("sso"), Handle(p, {c}, <<Only(c, db[c])>>) PROVE IdentityInv'
      BY <1>1, <2>2, OtherRead, OtherOK
    <2>3. ASSUME Free("sso") # {},
                 LET c == New("sso")
                 IN  Handle(p, {c}, <<Only(c, SsoConfig(db[s].tenant, protocol))>>)
          PROVE  IdentityInv'
      <3> DEFINE c == New("sso")
                 o == SsoConfig(db[s].tenant, protocol)
      <3>1. c \in Free("sso") BY <2>3, NewRow
      <3>2. Rowed(o) /\ o.table = "sso" BY <1>2
      <3>3. Handle(p, {c}, <<Only(c, o)>>) BY <2>3
      <3> HIDE DEF c, o
      <3> QED BY <1>1, <3>1, <3>2, <3>3, OtherOK
    <2> QED BY <2>1, <2>2, <2>3 DEF ConfigOf
  <1>4. ASSUME SetBreakGlass(p) PROVE IdentityInv'
    <2> DEFINE glass(c) == [c EXCEPT !.breakGlass = TRUE]
    <2>1. PICK s \in Callers :
            \/ \E c \in ConfigOf(db[s].tenant, "saml2") : Handle(p, {c}, <<Only(c, glass(db[c]))>>)
            \/ /\ Free("sso") # {}
               /\ LET c == New("sso")
                  IN  Handle(p, {c}, <<Only(c, glass(SsoConfig(db[s].tenant, "saml2")))>>)
      BY <1>4 DEF SetBreakGlass, Configure
    <2>2. ASSUME NEW c \in Rows("sso"), Handle(p, {c}, <<Only(c, glass(db[c]))>>)
          PROVE  IdentityInv'
      <3>1. Rowed(db[c]) /\ db[c].table = "sso" BY OtherRead
      <3>2. Rowed(glass(db[c])) /\ glass(db[c]).table = "sso" BY <3>1 DEF Rowed
      <3> HIDE DEF glass
      <3> QED BY <1>1, <2>2, <3>2, OtherOK
    <2>3. ASSUME Free("sso") # {},
                 LET c == New("sso")
                 IN  Handle(p, {c}, <<Only(c, glass(SsoConfig(db[s].tenant, "saml2")))>>)
          PROVE  IdentityInv'
      <3> DEFINE c == New("sso")
                 o == glass(SsoConfig(db[s].tenant, "saml2"))
      <3>1. c \in Free("sso") BY <2>3, NewRow
      <3>2. Rowed(o) /\ o.table = "sso" BY <1>2
      <3>3. Handle(p, {c}, <<Only(c, o)>>) BY <2>3
      <3> HIDE DEF c, o
      <3> QED BY <1>1, <3>1, <3>2, <3>3, OtherOK
    <2> HIDE DEF glass
    <2> QED BY <2>1, <2>2, <2>3 DEF ConfigOf
  <1>5. ASSUME SwitchSso(p) PROVE IdentityInv'
    <2> DEFINE o(c, to) == [db[c] EXCEPT !.status = to]
    <2>1. PICK c \in Rows("sso"), to \in {"active", "paused"} :
              Handle(p, {c}, <<Only(c, o(c, to))>>)
      BY <1>5 DEF SwitchSso
    <2>2. Rowed(db[c]) /\ db[c].table = "sso" BY OtherRead
    <2>3. Rowed(o(c, to)) /\ o(c, to).table = "sso" BY <2>2 DEF Rowed
    <2> HIDE DEF o
    <2> QED BY <1>1, <2>1, <2>3, OtherOK
  <1>6. ASSUME RotateScimToken(p) PROVE IdentityInv'
    <2> DEFINE o(c) == [db[c] EXCEPT !.bearer = IF @ = None THEN 1 ELSE @ + 1,
                                     !.status = IF @ = "pending" THEN "active" ELSE @]
    <2>1. PICK c \in Rows("sso") : Handle(p, {c}, <<Only(c, o(c))>>) BY <1>6 DEF RotateScimToken
    <2>2. Rowed(db[c]) /\ db[c].table = "sso" BY OtherRead
    <2>3. Rowed(o(c)) /\ o(c).table = "sso" BY <2>2 DEF Rowed
    <2> HIDE DEF o
    <2> QED BY <1>1, <2>1, <2>3, OtherOK
  <1>7. ASSUME CreateTenant(p) PROVE IdentityInv'
    <2>1. PICK vat \in VatNumbers, plan \in DOMAIN Plans, own \in OwnCaps \cup {None} :
            LET x == New("tenant") IN Handle(p, {x}, <<Only(x, Tenant(vat, plan, own))>>)
      BY <1>7 DEF CreateTenant
    <2> DEFINE x == New("tenant")
               o == Tenant(vat, plan, own)
    <2>2. x \in Free("tenant") BY <1>7, NewRow DEF CreateTenant
    <2>3. Rowed(o) /\ o.table = "tenant" BY DEF Tenant, Rowed
    <2>4. Handle(p, {x}, <<Only(x, o)>>) BY <2>1
    <2> HIDE DEF x, o
    <2> QED BY <1>1, <2>2, <2>3, <2>4, OtherOK
  <1>8. ASSUME UpdateTenant(p) PROVE IdentityInv'
    <2> DEFINE o(x, plan, n) == [db[x] EXCEPT !.plan = plan,
                                     !.seats = IF n = 0 THEN Plans[plan] ELSE n]
               v(x, n)   == [db[x] EXCEPT !.seats = n]
               w(x, to)  == [db[x] EXCEPT !.status = to]
               z(x, own) == [db[x] EXCEPT !.ownCap = own]
    <2>1. PICK x \in Rows("tenant") :
            \/ \E plan \in DOMAIN Plans, n \in SeatLimits \cup {0} :
                  Handle(p, {x}, <<Only(x, o(x, plan, n))>>)
            \/ \E n \in SeatLimits : Handle(p, {x}, <<Only(x, v(x, n))>>)
            \/ \E to \in TenantStatus : Handle(p, {x}, <<Only(x, w(x, to))>>)
            \/ \E own \in OwnCaps \cup {None} : Handle(p, {x}, <<Only(x, z(x, own))>>)
      BY <1>8 DEF UpdateTenant
    <2>2. Rowed(db[x]) /\ db[x].table = "tenant" BY OtherRead
    <2>3. \A plan, n : Rowed(o(x, plan, n)) /\ o(x, plan, n).table = "tenant" BY <2>2 DEF Rowed
    <2>4. \A to : Rowed(w(x, to)) /\ w(x, to).table = "tenant" BY <2>2 DEF Rowed
    <2>5. \A n : Rowed(v(x, n)) /\ v(x, n).table = "tenant" BY <2>2 DEF Rowed
    <2>6. \A own : Rowed(z(x, own)) /\ z(x, own).table = "tenant" BY <2>2 DEF Rowed
    <2> HIDE DEF o, v, w, z
    <2> QED BY <1>1, <2>1, <2>3, <2>4, <2>5, <2>6, OtherOK
  <1> QED BY <1>3, <1>4, <1>5, <1>6, <1>7, <1>8 DEF TenantStep

LEMMA DailyCounterRead ==
    ASSUME IdentityInv, NEW tenant, NEW c \in DailyCounter(tenant)
    PROVE  /\ c.id \in Rows("counter") \/ c.id \in Free("counter")
           /\ Rowed(c.row) /\ c.row.table = "counter"
           /\ \/ c.created = <<>>
              \/ /\ c.created = <<Only(c.id, Counter(tenant))>>
                 /\ Rowed(Counter(tenant)) /\ Counter(tenant).table = "counter"
  <1>1. Rowed(Counter(tenant)) /\ Counter(tenant).table = "counter" BY DEF Counter, Rowed
  <1>2. CASE \E x \in Rows("counter") : c = [id |-> x, row |-> db[x], created |-> <<>>]
    BY <1>2, OtherRead
  <1>3. CASE \E x \in Free("counter") :
                 c = [id |-> x, row |-> Counter(tenant), created |-> <<Only(x, Counter(tenant))>>]
    BY <1>1, <1>3
  <1> QED BY <1>2, <1>3 DEF DailyCounter

\* What the assistant saves: a new counter, if it is new, and then what is counted.
LEMMA CounterSavable ==
    ASSUME IdentityInv, NEW tenant, NEW c \in DailyCounter(tenant), NEW D, c.id \in D,
           NEW o, Rowed(o), o.table = "counter"
    PROVE  /\ Savable(c.created, D, Loose, Lasting)
           /\ \A i \in 1 .. Len(c.created) : Elsewhere(db, c.created[i])
           /\ Savable(Changed(c, o), D, Loose, Lasting)
           /\ \A i \in 1 .. Len(Changed(c, o)) : Elsewhere(db, Changed(c, o)[i])
  <1> DEFINE u == Only(c.id, o)
             v == Only(c.id, Counter(tenant))
  <1>1. "counter" \notin Lasting BY DEF Lasting
  <1>2. Elsewhere(db, u) /\ UnitFits(db, u, D, Loose, Lasting)
    BY <1>1, DailyCounterRead, OtherFits
  <1>3. CASE c.created = <<>>
    <2>1. Changed(c, o) = <<u>> BY <1>3 DEF Changed
    <2>2. /\ Savable(<<u>>, D, Loose, Lasting) /\ Savable(<<>>, D, Loose, Lasting)
          /\ Len(<<u>>) = 1 /\ <<u>>[1] = u /\ Len(<<>>) = 0
      BY <1>2, OneSavable, NoneSavable
    <2> HIDE DEF u
    <2> QED BY <1>2, <1>3, <2>1, <2>2
  <1>4. CASE /\ c.created = <<v>>
             /\ Rowed(Counter(tenant)) /\ Counter(tenant).table = "counter"
    <2>1. Elsewhere(db, v) /\ UnitFits(db, v, D, Loose, Lasting)
      BY <1>1, <1>4, DailyCounterRead, OtherFits
    <2> HIDE DEF u, v
    <2>2. /\ Savable(<<v>>, D, Loose, Lasting) /\ Len(<<v>>) = 1 /\ <<v>>[1] = v
      BY <2>1, OneSavable
    <2> DEFINE txs == Append(<<v>>, u)
    <2>3. Changed(c, o) = txs BY <1>4 DEF Changed, u, v
    <2>4. /\ \E S : txs \in Seq(S)
          /\ Len(txs) = 2 /\ \A i \in 1 .. 2 : txs[i] = IF i = 1 THEN v ELSE u
      BY TwoUnits
    <2> HIDE DEF txs
    <2>6. \A i \in 1 .. Len(txs) :
              UnitFits(db, txs[i], D, Loose, Lasting) /\ Elsewhere(db, txs[i])
      BY <1>2, <2>1, <2>4
    <2>7. Savable(txs, D, Loose, Lasting) BY <2>4, <2>6 DEF Savable
    <2> QED BY <1>4, <2>1, <2>2, <2>3, <2>6, <2>7 DEF v
  <1> QED BY <1>3, <1>4, DailyCounterRead

LEMMA CopilotStepOK ==
    ASSUME IdentityInv, NEW p \in Workers, CopilotStep(p)
    PROVE  IdentityInv'
  <1>1. ASSUME NEW tenant, NEW c \in DailyCounter(tenant), NEW then, then \in {"idle", "answer"},
               Begin(p, {c.id}, c.created, then)
        PROVE  IdentityInv'
    <2> DEFINE D == {c.id}
               txs == c.created
               hotter == contended'
    <2>1. Readable(D) BY DailyCounterRead, ReadRows
    <2>2. Rowed(c.row) /\ c.row.table = "counter" BY DailyCounterRead
    <2>3. Savable(txs, D, Loose, Lasting) /\ \A i \in 1 .. Len(txs) : Elsewhere(db, txs[i])
      BY <2>2, CounterSavable
    <2> HIDE DEF txs, hotter
    <2>4. \A i \in 1 .. Len(txs) :
              IF i = 1 THEN UnitOK(db, hotter, now, txs[i]) ELSE Elsewhere(db, txs[i])
      BY <2>3, ElsewhereOK
    <2>5. Begin(p, D, txs, then) BY <1>1 DEF txs
    <2> HIDE DEF D
    <2> QED BY <1>1, <2>1, <2>3, <2>4, <2>5, BeginOK DEF hotter
  <1>2. ASSUME NEW tenant, NEW c \in DailyCounter(tenant), NEW o, Rowed(o), o.table = "counter"
        PROVE  /\ Handle(p, {c.id}, Changed(c, o)) => IdentityInv'
               /\ GoOn(p, "answer", {c.id}, Changed(c, o), "idle") => IdentityInv'
    <2> DEFINE D == {c.id}
               txs == Changed(c, o)
               hotter == contended'
    <2>1. Readable(D) BY DailyCounterRead, ReadRows
    <2>2. /\ Savable(txs, D, Loose, Lasting)
          /\ Savable(txs, D \cup DOMAIN req[p].base, Loose, Lasting)
          /\ \A i \in 1 .. Len(txs) : Elsewhere(db, txs[i])
      BY <1>2, CounterSavable
    <2> HIDE DEF txs, hotter, D
    <2>3. \A i \in 1 .. Len(txs) :
              IF i = 1 THEN UnitOK(db, hotter, now, txs[i]) ELSE Elsewhere(db, txs[i])
      BY <2>2, ElsewhereOK
    <2>4. Handle(p, D, txs) => IdentityInv'
      BY <2>1, <2>2, <2>3, BeginOK DEF hotter, Handle
    <2>5. GoOn(p, "answer", D, txs, "idle") => IdentityInv'
      BY <2>1, <2>2, <2>3, GoOnOK DEF hotter
    <2> QED BY <2>4, <2>5 DEF D, txs
  <1>3. ASSUME ShowUsage(p) PROVE IdentityInv'
    <2>1. \E s \in Callers : \E c \in DailyCounter(db[s].tenant) :
              Begin(p, {c.id}, c.created, "idle")
      BY <1>3 DEF ShowUsage, Handle
    <2> QED BY <1>1, <2>1
  <1>4. ASSUME Ask(p) PROVE IdentityInv'
    <2>0. PICK s \in Callers : \E c \in DailyCounter(db[s].tenant) :
              \/ Handle(p, {c.id}, Changed(c, TurnedAway(c.row, CapOf(db[s].tenant))))
              \/ Begin(p, {c.id}, c.created, "answer")
      BY <1>4 DEF Ask
    <2>1. PICK c \in DailyCounter(db[s].tenant) :
              \/ Handle(p, {c.id}, Changed(c, TurnedAway(c.row, CapOf(db[s].tenant))))
              \/ Begin(p, {c.id}, c.created, "answer")
      BY <2>0
    <2> DEFINE o == TurnedAway(c.row, CapOf(db[s].tenant))
    <2>2. Rowed(c.row) /\ c.row.table = "counter" BY DailyCounterRead
    <2>3. Rowed(o) /\ o.table = "counter" BY <2>2 DEF TurnedAway, Rowed
    <2>4. \/ Handle(p, {c.id}, Changed(c, o))
          \/ Begin(p, {c.id}, c.created, "answer")
      BY <2>1
    <2> HIDE DEF o
    <2> QED BY <1>1, <1>2, <2>4, <2>3
  <1>5. ASSUME RecordUsage(p) PROVE IdentityInv'
    <2> DEFINE o(c, used) == [c.row EXCEPT !.tokens = @ + used, !.turnsCount = @ + 1]
    <2>1. PICK asked \in DOMAIN req[p].base, used \in Usages :
            \E c \in DailyCounter(req[p].base[asked].key[1]) :
                GoOn(p, "answer", {c.id}, Changed(c, o(c, used)), "idle")
      BY <1>5 DEF RecordUsage
    <2>2. PICK c \in DailyCounter(req[p].base[asked].key[1]) :
                GoOn(p, "answer", {c.id}, Changed(c, o(c, used)), "idle")
      BY <2>1
    <2>3. Rowed(c.row) /\ c.row.table = "counter" BY DailyCounterRead
    <2>4. Rowed(o(c, used)) /\ o(c, used).table = "counter" BY <2>3 DEF Rowed
    <2> HIDE DEF o
    <2> QED BY <1>2, <2>2, <2>4
  <1>6. ASSUME AnswerFails(p) PROVE IdentityInv' BY <1>6, LeaveOK DEF AnswerFails
  <1> QED BY <1>3, <1>4, <1>5, <1>6 DEF CopilotStep
-----------------------------------------------------------------------------
(* The invariant, and what it says.                                        *)

LEMMA StartOK == Start => IdentityInv
  <1> SUFFICES ASSUME Start PROVE IdentityInv OBVIOUS
  <1>1. RowsOK(db, {}, 0) /\ None \notin DOMAIN db BY ScenesAssumption DEF Start
  <1>3. Held(Loose, Lasting) BY StartHeld
  <1>4. \A p \in Workers : PendingOK(db, contended, now, req[p])
    BY IdlePending DEF Start
  <1> QED BY <1>1, <1>3, <1>4 DEF Start, IdentityInv

LEMMA NextOK == IdentityInv /\ [Next]_vars => IdentityInv'
  <1> SUFFICES ASSUME IdentityInv, [Next]_vars PROVE IdentityInv' OBVIOUS
  <1>1. ASSUME NEW p \in Workers, AuthStep(p) PROVE IdentityInv'
    BY <1>1, RegisterOK, LoginMissedOK, LoginOK, RefreshEndsOK, RefreshOK, LogoutOK DEF AuthStep
  <1>2. ASSUME NEW p \in Workers, MembershipStep(p) PROVE IdentityInv'
    BY <1>2, InviteOK, ConsentOK, RevokeOK, SwitchTenantOK DEF MembershipStep
  <1>3. ASSUME UNCHANGED vars PROVE IdentityInv'
    <2>1. UNCHANGED <<db, req, contended, now>> BY <1>3 DEF vars
    <2>2. Held(Loose, Lasting)' BY <2>1, StillHeld DEF IdentityInv
    <2> QED BY <2>1, <2>2 DEF IdentityInv
  <1> QED BY <1>1, <1>2, <1>3, TenantStepOK, CopilotStepOK, StatementsOK, TickOK DEF Next, Quiet

\* Every reachable state: what the invariant says of rows and of requests.
THEOREM IdentityHeld == Spec => []IdentityInv
  BY StartOK, NextOK, PTL DEF Spec

\* AuthService.refreshToken: a token exchanged for another, or whose session was
\* ended or replaced, never works again, unless two requests had its user's row.
THEOREM SpentStaySpent == Spec => []SpentTokensStaySpent
  <1>1. IdentityInv => SpentTokensStaySpent
    BY SameRows DEF IdentityInv, RowsOK, SpentTokensStaySpent, Works
  <1> QED BY <1>1, IdentityHeld, PTL

\* AuthService.login: the lock is there from the last miss allowed to the next
\* login, on every row that no two requests had in hand.
THEOREM LocksAsCounted == Spec => []LockedAfterMisses
  <1>1. IdentityInv => LockedAfterMisses
    BY SameRows DEF IdentityInv, RowsOK, LockedAfterMisses, Locks
  <1> QED BY <1>1, IdentityHeld, PTL

\* MembershipsService and the switch of tenant: an active membership was agreed to
\* after its last invitation, and a token for another tenant than the user's own
\* needs one that was, whatever requests overlap.
THEOREM AccessIsAgreed == Spec => []ConsentBeforeAccess
  <1>1. IdentityInv => ConsentBeforeAccess
    BY SameRows DEF IdentityInv, RowsOK, ConsentBeforeAccess, Joins, Agreed
  <1> QED BY <1>1, IdentityHeld, PTL
\* The counter a turn was asked on: to be stored still, or as it was read then.
Asked(r) == IF Len(r.todo) = 0 THEN r.base ELSE r.todo[1]

\* What a request saves of counter `d` in its `i`th transaction: zeros first, where
\* it is new, and then what was read and is counted.
CountOK(rows, hot, time, r, i, d) ==
    LET o == r.todo[i][d]
    IN  /\ \A j \in 1 .. Len(r.todo) : DOMAIN r.todo[j] = {d} /\ r.todo[j][d].key = o.key
        /\ Counts(o, time)
        /\ d \notin hot => Refuses(o)
        /\ IF rows[d].status = "absent"
           THEN Len(r.todo) =< 2 /\ o.tokens =< Max(Usages) /\ (i = 1 => o.tokens = 0)
           ELSE /\ Len(r.todo) = 1 /\ o.key = rows[d].key
                /\ d \notin hot =>
                       rows[d].tokens =< o.tokens /\ o.tokens =< rows[d].tokens + Max(Usages)

AskedOK(rows, time, r) ==
    /\ r.pc = "answer" => r.then = "answer" /\ Len(r.todo) = 0
    /\ r.then = "answer" =>
        /\ \A a \in DOMAIN r.base : Counts(Asked(r)[a], time)
        /\ Len(r.todo) # 0 =>
            /\ Len(r.todo) = 1 /\ DOMAIN r.todo[1] = DOMAIN r.base
            /\ \A a \in DOMAIN r.base : rows[a].table = "counter" /\ rows[a].status = "absent"

CountingOK(rows, hot, time, r) ==
    /\ AskedOK(rows, time, r)
    /\ \A i \in 1 .. Len(r.todo) : \A d \in DOMAIN r.todo[i] :
        /\ rows[d].table = "counter" => CountOK(rows, hot, time, r, i, d)
        /\ rows[d].table = "tenant" => Planned(r.todo[i][d])

\* The request may still add to counter `c`: its answer may come on that day, or is
\* about to be recorded.
Asks(rows, r, c) ==
    /\ r.then = "answer"
    /\ \E a \in DOMAIN r.base :
        Asked(r)[a].key[1] = rows[c].key[1] /\ Asked(r)[a].key[2] =< rows[c].key[2]

Adds(rows, r, c) ==
    \E i \in 1 .. Len(r.todo) : c \in DOMAIN r.todo[i] /\ r.todo[i][c].tokens > rows[c].tokens

Done(rows, reqs, c) == {p \in Workers : ~Asks(rows, reqs[p], c) /\ ~Adds(rows, reqs[p], c)}

\* The cap is passed by an answer at most for every worker that has none to add.
Within(rows, reqs, c) ==
    rows[c].tokens < Max(AllCaps) + Cardinality(Done(rows, reqs, c)) * Max(Usages)

\* Of a counter that two requests had in hand nothing is said but whose it is.
CapInv ==
    /\ CountersOK(db, contended, now)
    /\ \A d \in IdsOf("counter") : db[d].status = "absent" => d \notin contended
    /\ \A p \in Workers : CountingOK(db, contended, now, req[p])
    /\ \A c \in Stored(db, "counter") \ contended : Within(db, req, c)
-----------------------------------------------------------------------------
(* The cap: the numbers it is counted with.                                *)

LEMMA CapNumbers ==
    /\ Max(AllCaps) \in Nat \ {0} /\ Max(Usages) \in Nat
    /\ \A cap \in AllCaps : cap \in Int /\ cap =< Max(AllCaps)
    /\ \A used \in Usages : used \in Nat /\ used =< Max(Usages)
  <1>1. Max(AllCaps) \in AllCaps /\ \A cap \in AllCaps : Max(AllCaps) >= cap
    BY CopilotAssumption DEF Max
  <1>2. Max(Usages) \in Usages /\ \A used \in Usages : Max(Usages) >= used
    BY CopilotAssumption DEF Max
  <1>3. /\ AllCaps \subseteq Int /\ Usages \subseteq Nat
        /\ Caps["base"] \in AllCaps /\ Caps["base"] \in Nat \ {0}
    <2>1. /\ "base" \in DOMAIN Caps /\ OwnCaps \subseteq Int /\ Usages \subseteq Nat
          /\ \A plan \in DOMAIN Caps : Caps[plan] \in Nat \ {0}
      BY CopilotAssumption
    <2>2. \A cap \in AllCaps : cap \in Int
      <3> SUFFICES ASSUME NEW cap \in AllCaps PROVE cap \in Int OBVIOUS
      <3>1. CASE cap \in OwnCaps BY <2>1, <3>1
      <3>2. CASE cap \in {Caps[plan] : plan \in DOMAIN Caps}
        <4>1. PICK plan \in DOMAIN Caps : cap = Caps[plan] BY <3>2
        <4>2. cap \in Nat BY <2>1, <4>1
        <4> QED BY <4>2
      <3> QED BY <3>1, <3>2 DEF AllCaps
    <2>3. Caps["base"] \in AllCaps BY <2>1 DEF AllCaps
    <2> QED BY <2>1, <2>2, <2>3
  <1> DEFINE most == Max(AllCaps)
             used == Max(Usages)
             base == Caps["base"]
  <1> HIDE DEF most, used, base
  <1>4. /\ most \in AllCaps /\ \A cap \in AllCaps : most >= cap
        /\ used \in Usages /\ \A other \in Usages : used >= other
        /\ base \in AllCaps /\ base \in Nat \ {0}
    BY <1>1, <1>2, <1>3 DEF most, used, base
  <1>5. /\ most \in Nat \ {0} /\ used \in Nat
        /\ \A cap \in AllCaps : cap \in Int /\ cap =< most
        /\ \A other \in Usages : other \in Nat /\ other =< used
    BY <1>3, <1>4
  <1> QED BY <1>5 DEF most, used

LEMMA Times ==
    ASSUME NEW m \in Nat, NEW n \in Nat, NEW k \in Nat
    PROVE  /\ m * k \in Nat
           /\ m =< n => m * k =< n * k
           /\ m < n => m * k + k =< n * k
  <1>1. m * k \in Nat /\ n * k \in Nat BY SMT
  <1>2. ASSUME NEW d \in Nat, n = m + d PROVE n * k = m * k + d * k /\ d * k \in Nat
    BY <1>2, SMT
  <1>3. ASSUME NEW d \in Nat, n = m + 1 + d PROVE n * k = m * k + k + d * k /\ d * k \in Nat
    BY <1>3, SMT
  <1>4. ASSUME m =< n PROVE m * k =< n * k
    <2>1. n - m \in Nat /\ n = m + (n - m) BY <1>4
    <2>2. n * k = m * k + (n - m) * k /\ (n - m) * k \in Nat BY <1>2, <2>1
    <2> QED BY <1>1, <2>2
  <1>5. ASSUME m < n PROVE m * k + k =< n * k
    <2>1. n - m - 1 \in Nat /\ n = m + 1 + (n - m - 1) BY <1>5
    <2>2. n * k = m * k + k + (n - m - 1) * k /\ (n - m - 1) * k \in Nat BY <1>3, <2>1
    <2> QED BY <1>1, <2>2
  <1> QED BY <1>1, <1>4, <1>5

LEMMA Room ==
    ASSUME NEW S \in SUBSET Workers, NEW T \in SUBSET Workers, S \subseteq T
    PROVE  /\ Cardinality(S) * Max(Usages) \in Nat /\ Cardinality(T) * Max(Usages) \in Nat
           /\ Cardinality(S) * Max(Usages) =< Cardinality(T) * Max(Usages)
           /\ S # T => Cardinality(S) * Max(Usages) + Max(Usages) =< Cardinality(T) * Max(Usages)
  <1>1. IsFiniteSet(S) /\ IsFiniteSet(T) BY CopilotAssumption, FS_Subset
  <1>2. Cardinality(S) =< Cardinality(T) /\ (Cardinality(S) = Cardinality(T) => S = T)
    BY <1>1, FS_Subset
  <1>3. Cardinality(S) \in Nat /\ Cardinality(T) \in Nat BY <1>1, FS_CardinalityType
  <1>4. S # T => Cardinality(S) < Cardinality(T) BY <1>2, <1>3
  <1>5. Max(Usages) \in Nat BY CapNumbers
  <1> QED BY <1>2, <1>3, <1>4, <1>5, Times

\* No more tokens, and no fewer workers that have none to add.
LEMMA WithinStays ==
    ASSUME NEW rows, NEW reqs, NEW after, NEW later, NEW c, Within(rows, reqs, c),
           rows[c].tokens \in Nat, after[c].tokens \in Nat,
           Done(rows, reqs, c) \subseteq Done(after, later, c),
           \/ after[c].tokens =< rows[c].tokens
           \/ /\ after[c].tokens =< rows[c].tokens + Max(Usages)
              /\ Done(rows, reqs, c) # Done(after, later, c)
    PROVE  Within(after, later, c)
  <1> DEFINE S == Done(rows, reqs, c)
             T == Done(after, later, c)
             m == Cardinality(S) * Max(Usages)
             n == Cardinality(T) * Max(Usages)
  <1>1. S \in SUBSET Workers /\ T \in SUBSET Workers BY DEF Done
  <1> HIDE DEF S, T
  <1>2. S \subseteq T BY DEF S, T
  <1>3. m \in Nat /\ n \in Nat /\ m =< n /\ (S # T => m + Max(Usages) =< n) BY <1>1, <1>2, Room
  <1>4. Max(AllCaps) \in Nat /\ Max(Usages) \in Nat BY CapNumbers
  <1>5. rows[c].tokens < Max(AllCaps) + m BY DEF Within, S
  <1> HIDE DEF m, n
  <1>6. \/ after[c].tokens =< rows[c].tokens
        \/ after[c].tokens =< rows[c].tokens + Max(Usages) /\ S # T
    BY DEF S, T
  <1>7. after[c].tokens < Max(AllCaps) + n BY <1>3, <1>4, <1>5, <1>6
  <1> QED BY <1>7 DEF Within, n, T

\* A counter that is below a cap.
LEMMA WithinCap ==
    ASSUME NEW rows, NEW reqs, NEW c, rows[c].tokens \in Nat, rows[c].tokens < Max(AllCaps)
    PROVE  Within(rows, reqs, c)
  <1> DEFINE S == Done(rows, reqs, c)
             m == Cardinality(S) * Max(Usages)
  <1>1. S \in SUBSET Workers BY DEF Done
  <1> HIDE DEF S
  <1>2. m \in Nat BY <1>1, Room
  <1>3. Max(AllCaps) \in Nat BY CapNumbers
  <1> HIDE DEF m
  <1>4. rows[c].tokens < Max(AllCaps) + m BY <1>2, <1>3
  <1> QED BY <1>4 DEF Within, m, S
-----------------------------------------------------------------------------
(* What a request may add.                                                 *)

LEMMA CountingStays ==
    ASSUME NEW rows, NEW hot, NEW hotter, hot \subseteq hotter,
           NEW time \in Nat, NEW later \in Nat, time =< later
    PROVE  /\ CountersOK(rows, hot, time) => CountersOK(rows, hotter, later)
           /\ \A r : CountingOK(rows, hot, time, r) => CountingOK(rows, hotter, later, r)
  <1>1. \A row : Counts(row, time) => Counts(row, later) BY DEF Counts
  <1>2. CountersOK(rows, hot, time) => CountersOK(rows, hotter, later) BY <1>1 DEF CountersOK
  <1>3. ASSUME NEW r, CountingOK(rows, hot, time, r) PROVE CountingOK(rows, hotter, later, r)
    <2>1. AskedOK(rows, later, r) BY <1>1, <1>3 DEF CountingOK, AskedOK
    <2>2. ASSUME NEW i \in 1 .. Len(r.todo), NEW d \in DOMAIN r.todo[i], rows[d].table = "counter"
          PROVE  CountOK(rows, hotter, later, r, i, d)
      <3>1. CountOK(rows, hot, time, r, i, d) BY <1>3, <2>2 DEF CountingOK
      <3> QED BY <1>1, <3>1 DEF CountOK
    <2> QED BY <1>3, <2>1, <2>2 DEF CountingOK
  <1> QED BY <1>2, <1>3

\* A step that gives one worker another request and changes no row: to what was below
\* the cap, or had this worker adding to it before, it may add.
LEMMA OneCounting ==
    ASSUME IdentityInv, CapInv, NEW p \in Workers, NEW r,
           db' = db, now' = now, req' = [req EXCEPT ![p] = r], contended \subseteq contended',
           \A d \in IdsOf("counter") : db[d].status = "absent" => d \notin contended',
           CountingOK(db, contended', now, r),
           \A c \in Stored(db, "counter") \ contended' : Asks(db, r, c) \/ Adds(db, r, c) =>
               \/ Asks(db, req[p], c) \/ Adds(db, req[p], c)
               \/ db[c].tokens < Max(AllCaps)
    PROVE  CapInv'
  <1>1. now \in Nat /\ now =< now BY DEF IdentityInv
  <1>2. \A q \in Workers : req'[q] = IF q = p THEN r ELSE req[q] BY DEF IdentityInv, Held
  <1> DEFINE hotter == contended'
             reqs == req'
  <1>3. contended \subseteq hotter OBVIOUS
  <1> HIDE DEF hotter
  <1>4. CountersOK(db, hotter, now) BY <1>1, <1>3, CountingStays DEF CapInv
  <1>5. \A q \in Workers : CountingOK(db, hotter, now, req[q])
    BY <1>1, <1>3, CountingStays DEF CapInv
  <1>6. \A q \in Workers : CountingOK(db, hotter, now, req'[q])
    BY <1>2, <1>5 DEF hotter
  <1>7. ASSUME NEW c \in Stored(db, "counter") \ hotter PROVE Within(db, reqs, c)
    <2>1. Within(db, req, c) /\ db[c].tokens \in Nat
      BY <1>3, <1>7 DEF CapInv, CountersOK, Counts
    <2>2. CASE db[c].tokens < Max(AllCaps) BY <2>1, <2>2, WithinCap
    <2>3. CASE ~(db[c].tokens < Max(AllCaps))
      <3>1. Done(db, req, c) \subseteq Done(db, reqs, c)
        BY <1>2, <1>7, <2>3 DEF Done, hotter
      <3>2. db[c].tokens =< db[c].tokens BY <2>1
      <3> HIDE DEF reqs
      <3> QED BY <2>1, <3>1, <3>2, WithinStays
    <2> QED BY <2>2, <2>3
  <1>8. IdsOf("counter")' = IdsOf("counter") BY DEF IdsOf
  <1> QED BY <1>4, <1>6, <1>7, <1>8 DEF CapInv, hotter

\* The request of a handler that starts or goes on.
LEMMA AtIs ==
    ASSUME NEW b, NEW txs, NEW then
    PROVE  LET r == At(b, txs, then)
           IN  /\ r.todo = txs /\ r.then = then
               /\ then # "idle" => r.base = b
               /\ r.pc = "answer" => txs = <<>> /\ then = "answer"
  <1>1. CASE txs = <<>> /\ then = "idle" BY <1>1 DEF At, Idle
  <1>2. CASE ~(txs = <<>> /\ then = "idle")
    <2> DEFINE r == At(b, txs, then)
    <2>1. /\ r.pc = IF txs = <<>> THEN then ELSE "reload"
          /\ r.base = b /\ r.todo = txs /\ r.then = then
      BY <1>2 DEF At
    <2> HIDE DEF r
    <2> QED BY <2>1 DEF r
  <1> QED BY <1>1, <1>2

\* Nothing new is contended but what is stored.
LEMMA NewUncontended ==
    ASSUME IdentityInv, CapInv, NEW p \in Workers, NEW D, Readable(D),
           contended' = contended \cup Shared(p, D)
    PROVE  \A d \in IdsOf("counter") : db[d].status = "absent" => d \notin contended'
  BY SharedRows DEF CapInv, Present

\* What is saved is of no counter, and a tenant keeps a plan.
Aside(u) ==
    \A d \in DOMAIN u :
        db[d].table # "counter" /\ (db[d].table = "tenant" => Planned(u[d]))

LEMMA AsideCounting ==
    ASSUME NEW b, NEW txs, NEW then, then # "answer", NEW hot, NEW time,
           \A i \in 1 .. Len(txs) : Aside(txs[i])
    PROVE  LET r == At(b, txs, then)
           IN  /\ CountingOK(db, hot, time, r)
               /\ \A c \in Stored(db, "counter") : ~Asks(db, r, c) /\ ~Adds(db, r, c)
  <1> DEFINE r == At(b, txs, then)
  <1>1. r.todo = txs /\ r.then # "answer" /\ r.pc # "answer" BY AtIs
  <1> HIDE DEF r
  <1>2. AskedOK(db, time, r) BY <1>1 DEF AskedOK
  <1>3. CountingOK(db, hot, time, r) BY <1>1, <1>2 DEF CountingOK, Aside
  <1>4. \A c \in Stored(db, "counter") : ~Asks(db, r, c) /\ ~Adds(db, r, c)
    BY <1>1 DEF Asks, Adds, Aside, Stored
  <1> QED BY <1>3, <1>4 DEF r

\* A handler that has nothing to do with counters.
LEMMA BeginAside ==
    ASSUME IdentityInv, CapInv, NEW p \in Workers, NEW D, Readable(D),
           NEW txs, NEW then, then # "answer", Begin(p, D, txs, then),
           \A i \in 1 .. Len(txs) : Aside(txs[i])
    PROVE  CapInv'
  <1> DEFINE b == [d \in D |-> db[d]]
             r == At(b, txs, then)
  <1>1. /\ contended' = contended \cup Shared(p, D) /\ db' = db /\ now' = now
        /\ req' = [req EXCEPT ![p] = r]
    BY DEF Begin
  <1>2. /\ CountingOK(db, contended', now, r)
        /\ \A c \in Stored(db, "counter") : ~Asks(db, r, c) /\ ~Adds(db, r, c)
    BY AsideCounting
  <1>3. \A d \in IdsOf("counter") : db[d].status = "absent" => d \notin contended'
    BY <1>1, NewUncontended
  <1> HIDE DEF r
  <1> QED BY <1>1, <1>2, <1>3, OneCounting

LEMMA GoOnAside ==
    ASSUME IdentityInv, CapInv, NEW p \in Workers, NEW D, Readable(D),
           NEW pc, NEW txs, NEW then, then # "answer", GoOn(p, pc, D, txs, then),
           \A i \in 1 .. Len(txs) : Aside(txs[i])
    PROVE  CapInv'
  <1> DEFINE b == And([d \in D |-> db[d]], req[p].base)
             r == At(b, txs, then)
  <1>1. /\ contended' = contended \cup Shared(p, D) /\ db' = db /\ now' = now
        /\ req' = [req EXCEPT ![p] = r]
    BY DEF GoOn
  <1>2. /\ CountingOK(db, contended', now, r)
        /\ \A c \in Stored(db, "counter") : ~Asks(db, r, c) /\ ~Adds(db, r, c)
    BY AsideCounting
  <1>3. \A d \in IdsOf("counter") : db[d].status = "absent" => d \notin contended'
    BY <1>1, NewUncontended
  <1> HIDE DEF r
  <1> QED BY <1>1, <1>2, <1>3, OneCounting

LEMMA HandleAside ==
    ASSUME IdentityInv, CapInv, NEW p \in Workers, NEW D, Readable(D),
           NEW u, Aside(u), Handle(p, D, <<u>>)
    PROVE  CapInv'
  <1> DEFINE txs == <<u>>
  <1>1. Len(txs) = 1 /\ txs[1] = u OBVIOUS
  <1>2. Begin(p, D, txs, "idle") BY DEF Handle
  <1> HIDE DEF txs
  <1>3. \A i \in 1 .. Len(txs) : Aside(txs[i]) BY <1>1
  <1> QED BY <1>2, <1>3, BeginAside
-----------------------------------------------------------------------------
(* Identity has nothing to do with counters.                               *)

LEMMA OnlyAside ==
    ASSUME NEW d, NEW o, db[d].table # "counter", db[d].table = "tenant" => Planned(o)
    PROVE  Aside(Only(d, o))
  BY DEF Aside, Only

\* The sessions of a user: his row, tokens he had, and one he is given.
LEMMA SessionAside ==
    ASSUME IdentityInv, NEW u \in Rows("user"), NEW T \in SUBSET TokensOf(u), NEW o
    PROVE  /\ Readable({u})
           /\ Aside(And(Spend(T), Only(u, o)))
           /\ \A n, tk : db[n].table = "token" => Aside(And(Only(n, tk), And(Spend(T), Only(u, o))))
  <1>1. db[u].table = "user" /\ \A t \in T : db[t].table = "token"
    BY DEF Rows, IdsOf, TokensOf
  <1> DEFINE rest == And(Spend(T), Only(u, o))
  <1>2. DOMAIN rest \subseteq T \cup {u} BY EndedUnit
  <1> HIDE DEF rest
  <1>3. Aside(rest) BY <1>1, <1>2 DEF Aside
  <1>4. ASSUME NEW n, NEW tk, db[n].table = "token" PROVE Aside(And(Only(n, tk), rest))
    <2>1. DOMAIN And(Only(n, tk), rest) = {n} \cup DOMAIN rest BY DEF And, Only
    <2> QED BY <1>1, <1>2, <1>4, <2>1 DEF Aside
  <1>5. Readable({u}) BY ReadRows
  <1> QED BY <1>3, <1>4, <1>5 DEF rest

LEMMA AuthAside ==
    ASSUME IdentityInv, CapInv, NEW p \in Workers, AuthStep(p)
    PROVE  CapInv'
  <1>1. ASSUME Register(p) PROVE CapInv'
    <2> DEFINE u == New("user")
    <2>1. PICK o : Handle(p, {u}, <<Only(u, o)>>) BY <1>1 DEF Register
    <2>2. u \in Free("user") /\ db[u].table = "user" BY <1>1, NewRow DEF Register
    <2>3. Readable({u}) BY <2>2, ReadRows
    <2>4. Aside(Only(u, o)) BY <2>2, OnlyAside
    <2> QED BY <2>1, <2>3, <2>4, HandleAside
  <1>2. ASSUME LoginMissed(p) PROVE CapInv'
    <2>1. PICK u \in Rows("user") : \E o : Handle(p, {u}, <<Only(u, o)>>)
      BY <1>2 DEF LoginMissed
    <2>2. PICK o : Handle(p, {u}, <<Only(u, o)>>) BY <2>1
    <2>3. Readable({u}) BY ReadRows
    <2>4. Aside(Only(u, o)) BY OnlyAside DEF Rows, IdsOf
    <2> QED BY <2>2, <2>3, <2>4, HandleAside
  <1>3. ASSUME Login(p) PROVE CapInv'
    <2> DEFINE t == New("token")
               unit(u, o, tk) == And(Only(t, tk), And(Spend(TokensOf(u)), Only(u, o)))
    <2>1. PICK u \in Rows("user") : \E o, tk : Handle(p, {u, t}, <<unit(u, o, tk)>>)
      BY <1>3 DEF Login
    <2>2. PICK o, tk : Handle(p, {u, t}, <<unit(u, o, tk)>>) BY <2>1
    <2>3. t \in Free("token") /\ db[t].table = "token" BY <1>3, NewRow DEF Login
    <2>4. Readable({u, t}) BY <2>3, ReadRows
    <2>5. Aside(unit(u, o, tk)) BY <2>3, SessionAside
    <2> HIDE DEF unit
    <2> QED BY <2>2, <2>4, <2>5, HandleAside
  <1>4. ASSUME RefreshEnds(p) PROVE CapInv'
    <2> DEFINE unit(u, o) == And(Spend(TokensOf(u)), Only(u, o))
    <2>1. PICK t \in Rows("token") : \E o : Handle(p, {db[t].user}, <<unit(db[t].user, o)>>)
      BY <1>4 DEF RefreshEnds
    <2>2. PICK o : Handle(p, {db[t].user}, <<unit(db[t].user, o)>>) BY <2>1
    <2>3. PICK u \in Rows("user") : u = db[t].user BY TokenRead
    <2>4. Readable({u}) /\ Aside(unit(u, o)) BY SessionAside
    <2> HIDE DEF unit
    <2> QED BY <2>2, <2>3, <2>4, HandleAside
  <1>5. ASSUME Refresh(p) PROVE CapInv'
    <2> DEFINE n == New("token")
               unit(t, u, o, tk) == And(Only(n, tk), And(Spend({t}), Only(u, o)))
    <2>1. PICK t \in Rows("token") :
              \E o, tk : Handle(p, {db[t].user, n}, <<unit(t, db[t].user, o, tk)>>)
      BY <1>5 DEF Refresh
    <2>2. PICK o, tk : Handle(p, {db[t].user, n}, <<unit(t, db[t].user, o, tk)>>) BY <2>1
    <2>3. PICK u \in Rows("user") : u = db[t].user /\ {t} \subseteq TokensOf(u) BY TokenRead
    <2>4. n \in Free("token") /\ db[n].table = "token" BY <1>5, NewRow DEF Refresh
    <2>5. Readable({u, n}) BY <2>4, ReadRows
    <2>6. Aside(unit(t, u, o, tk)) BY <2>3, <2>4, SessionAside
    <2> HIDE DEF unit
    <2> QED BY <2>2, <2>3, <2>5, <2>6, HandleAside
  <1>6. ASSUME Logout(p) PROVE CapInv'
    <2> DEFINE unit(u, o) == And(Spend(TokensOf(u)), Only(u, o))
    <2>1. PICK s \in Callers : \E o : Handle(p, {db[s].user}, <<unit(db[s].user, o)>>)
      BY <1>6 DEF Logout
    <2>2. PICK o : Handle(p, {db[s].user}, <<unit(db[s].user, o)>>) BY <2>1
    <2>3. PICK u \in Rows("user") : u = db[s].user BY TokenRead DEF Callers
    <2>4. Readable({u}) /\ Aside(unit(u, o)) BY SessionAside
    <2> HIDE DEF unit
    <2> QED BY <2>2, <2>3, <2>4, HandleAside
  <1> QED BY <1>1, <1>2, <1>3, <1>4, <1>5, <1>6 DEF AuthStep

\* One row of a table that is no counter's, stored or new.
LEMMA RowAside ==
    ASSUME IdentityInv, CapInv, NEW p \in Workers, NEW t, t # "counter",
           NEW d, d \in Rows(t) \/ d \in Free(t), NEW o, t = "tenant" => Planned(o),
           Handle(p, {d}, <<Only(d, o)>>)
    PROVE  CapInv'
  <1>1. Readable({d}) BY ReadRows
  <1>2. db[d].table = t BY DEF Rows, Free, IdsOf
  <1>3. Aside(Only(d, o)) BY <1>2, OnlyAside
  <1> QED BY <1>1, <1>3, HandleAside

LEMMA MembershipAside ==
    ASSUME IdentityInv, CapInv, NEW p \in Workers, MembershipStep(p)
    PROVE  CapInv'
  <1>1. ASSUME Invite(p) PROVE CapInv'
    <2>1. \/ /\ Free("membership") # {}
             /\ \E o : Handle(p, {New("membership")}, <<Only(New("membership"), o)>>)
          \/ \E m \in Rows("membership") : \E o : Handle(p, {m}, <<Only(m, o)>>)
      BY <1>1 DEF Invite
    <2>2. CASE /\ Free("membership") # {}
               /\ \E o : Handle(p, {New("membership")}, <<Only(New("membership"), o)>>)
      BY <2>2, NewRow, RowAside
    <2>3. CASE \E m \in Rows("membership") : \E o : Handle(p, {m}, <<Only(m, o)>>)
      BY <2>3, RowAside
    <2> QED BY <2>1, <2>2, <2>3
  <1>2. ASSUME Consent(p) \/ Revoke(p) PROVE CapInv'
    <2>1. \E m \in Rows("membership") : \E o : Handle(p, {m}, <<Only(m, o)>>)
      BY <1>2 DEF Consent, Revoke
    <2> QED BY <2>1, RowAside
  <1>3. ASSUME SwitchTenant(p) PROVE CapInv'
    <2>1. ASSUME Free("token") # {}, NEW m \in Rows("membership"),
                 Begin(p, {m, New("token")}, <<>>, "mint")
          PROVE  CapInv'
      <3>1. New("token") \in Free("token") BY <2>1, NewRow
      <3>2. Readable({m, New("token")}) BY <3>1, ReadRows
      <3> DEFINE txs == <<>>
      <3>3. Len(txs) = 0 OBVIOUS
      <3>4. Begin(p, {m, New("token")}, txs, "mint") BY <2>1
      <3> HIDE DEF txs
      <3>5. \A i \in 1 .. Len(txs) : Aside(txs[i]) BY <3>3
      <3> QED BY <3>2, <3>4, <3>5, BeginAside
    <2>2. ASSUME NEW m \in DOMAIN req[p].base, NEW n \in DOMAIN req[p].base,
                 db[m].table = "membership", db[n].table = "token",
                 NEW tk, NEW o,
                 LET u == req[p].base[m].user
                 IN  GoOn(p, "mint", {u},
                       <<And(Only(n, tk), And(Spend(TokensOf(u)), Only(u, o)))>>, "idle")
          PROVE  CapInv'
      <3> DEFINE u    == req[p].base[m].user
                 unit == And(Only(n, tk), And(Spend(TokensOf(u)), Only(u, o)))
                 txs  == <<unit>>
      <3>1. GoOn(p, "mint", {u}, txs, "idle") BY <2>2
      <3>2. req[p].pc = "mint" BY <3>1 DEF GoOn
      <3>3. MintOK(db, contended, req[p].base) BY <3>2 DEF IdentityInv, PendingOK
      <3>4. m \in Stored(db, "membership") /\ u = db[m].user BY <2>2, <3>3 DEF MintOK
      <3>5. u \in Rows("user") BY <3>4, SameRows DEF IdentityInv, RowsOK
      <3> HIDE DEF u
      <3>6. Readable({u}) /\ Aside(unit) BY <2>2, <3>5, SessionAside
      <3> HIDE DEF unit
      <3>7. Len(txs) = 1 /\ txs[1] = unit OBVIOUS
      <3> HIDE DEF txs
      <3>8. \A i \in 1 .. Len(txs) : Aside(txs[i]) BY <3>6, <3>7
      <3> QED BY <3>1, <3>6, <3>8, GoOnAside
    <2> QED BY <1>3, <2>1, <2>2 DEF SwitchTenant
  <1> QED BY <1>1, <1>2, <1>3 DEF MembershipStep

LEMMA TenantAside ==
    ASSUME IdentityInv, CapInv, NEW p \in Workers, TenantStep(p)
    PROVE  CapInv'
  <1>1. ASSUME UpsertSso(p) \/ SetBreakGlass(p) PROVE CapInv'
    <2>1. \/ \E c \in Rows("sso") : \E o : Handle(p, {c}, <<Only(c, o)>>)
          \/ /\ Free("sso") # {}
             /\ \E o : Handle(p, {New("sso")}, <<Only(New("sso"), o)>>)
      BY <1>1 DEF UpsertSso, SetBreakGlass, Configure, ConfigOf
    <2>2. CASE \E c \in Rows("sso") : \E o : Handle(p, {c}, <<Only(c, o)>>)
      BY <2>2, RowAside
    <2>3. CASE /\ Free("sso") # {}
               /\ \E o : Handle(p, {New("sso")}, <<Only(New("sso"), o)>>)
      BY <2>3, NewRow, RowAside
    <2> QED BY <2>1, <2>2, <2>3
  <1>2. ASSUME SwitchSso(p) \/ RotateScimToken(p) PROVE CapInv'
    <2>1. \E c \in Rows("sso") : \E o : Handle(p, {c}, <<Only(c, o)>>)
      BY <1>2 DEF SwitchSso, RotateScimToken
    <2> QED BY <2>1, RowAside
  <1>3. ASSUME CreateTenant(p) PROVE CapInv'
    <2> DEFINE x == New("tenant")
    <2>1. PICK vat \in VatNumbers, plan \in DOMAIN Plans, own \in OwnCaps \cup {None} :
              Handle(p, {x}, <<Only(x, Tenant(vat, plan, own))>>)
      BY <1>3 DEF CreateTenant
    <2>2. x \in Free("tenant") BY <1>3, NewRow DEF CreateTenant
    <2>3. Planned(Tenant(vat, plan, own)) BY CopilotAssumption DEF Planned, Tenant
    <2> QED BY <2>1, <2>2, <2>3, RowAside
  <1>4. ASSUME UpdateTenant(p) PROVE CapInv'
    <2> DEFINE o(x, plan, n) == [db[x] EXCEPT !.plan = plan, !.seats = n]
               v(x, n) == [db[x] EXCEPT !.seats = n]
               w(x, to) == [db[x] EXCEPT !.status = to]
               z(x, own) == [db[x] EXCEPT !.ownCap = own]
    <2>1. PICK x \in Rows("tenant") :
            \/ \E plan \in DOMAIN Plans : \E n : Handle(p, {x}, <<Only(x, o(x, plan, n))>>)
            \/ \E n : Handle(p, {x}, <<Only(x, v(x, n))>>)
            \/ \E to \in TenantStatus : Handle(p, {x}, <<Only(x, w(x, to))>>)
            \/ \E own \in OwnCaps \cup {None} : Handle(p, {x}, <<Only(x, z(x, own))>>)
      BY <1>4 DEF UpdateTenant
    <2>2. Planned(db[x]) BY SameRows DEF CapInv, CountersOK
    <2>3. \A plan \in DOMAIN Plans : \A n : Planned(o(x, plan, n))
      BY <2>2, CopilotAssumption DEF Planned
    <2>4. (\A n : Planned(v(x, n))) /\ \A to : Planned(w(x, to)) BY <2>2 DEF Planned
    <2>5. \A own \in OwnCaps \cup {None} : Planned(z(x, own)) BY <2>2 DEF Planned
    <2> HIDE DEF o, v, w, z
    <2> QED BY <2>1, <2>3, <2>4, <2>5, RowAside
  <1> QED BY <1>1, <1>2, <1>3, <1>4 DEF TenantStep
-----------------------------------------------------------------------------
(* The statements that change no row.                                      *)

LEMMA ReloadCounting ==
    ASSUME IdentityInv, CapInv, NEW p \in Workers, Reload(p)
    PROVE  CapInv'
  <1> DEFINE r == [req[p] EXCEPT !.pc = "write",
                       !.dirty = [d \in DOMAIN Unit(p) |-> ToWrite(Unit(p)[d], db[d])]]
  <1>1. req' = [req EXCEPT ![p] = r] /\ db' = db /\ now' = now /\ contended' = contended
    BY DEF Reload, IdentityInv, Held
  <1>2. RequestFits(db, contended, req[p], Loose, Lasting) BY DEF IdentityInv, Held
  <1>3. r.todo = req[p].todo /\ r.then = req[p].then /\ r.base = req[p].base /\ r.pc = "write"
    BY <1>2 DEF RequestFits
  <1> HIDE DEF r
  <1>4. CountingOK(db, contended, now, req[p]) BY DEF CapInv
  <1>5. Asked(r) = Asked(req[p]) BY <1>3 DEF Asked
  <1>6. AskedOK(db, now, r) BY <1>3, <1>4, <1>5 DEF CountingOK, AskedOK
  <1>7. CountingOK(db, contended, now, r)
    BY <1>3, <1>4, <1>6 DEF CountingOK, CountOK
  <1>8. \A c : /\ Asks(db, r, c) => Asks(db, req[p], c)
               /\ Adds(db, r, c) => Adds(db, req[p], c)
    BY <1>3, <1>5 DEF Asks, Adds
  <1>9. \A d \in IdsOf("counter") : db[d].status = "absent" => d \notin contended BY DEF CapInv
  <1> QED BY <1>1, <1>7, <1>8, <1>9, OneCounting

LEMMA LeaveCounting ==
    ASSUME IdentityInv, CapInv, NEW p \in Workers, Leave(p)
    PROVE  CapInv'
  <1>1. req' = [req EXCEPT ![p] = Idle] /\ db' = db /\ now' = now /\ contended' = contended
    BY DEF Leave
  <1>2. Idle.then = "idle" /\ Idle.pc = "idle" /\ Len(Idle.todo) = 0
    <2>1. Idle.then = "idle" /\ Idle.pc = "idle" /\ Idle.todo = <<>> BY DEF Idle
    <2>2. Len(<<>>) = 0 OBVIOUS
    <2> HIDE DEF Idle
    <2> QED BY <2>1, <2>2
  <1> DEFINE r == Idle
  <1> HIDE DEF r
  <1>3. CountingOK(db, contended, now, r) BY <1>2 DEF CountingOK, AskedOK, r
  <1>4. \A c : ~Asks(db, r, c) /\ ~Adds(db, r, c) BY <1>2 DEF Asks, Adds, r
  <1>5. \A d \in IdsOf("counter") : db[d].status = "absent" => d \notin contended BY DEF CapInv
  <1> QED BY <1>1, <1>3, <1>4, <1>5, OneCounting DEF r

LEMMA TickCounting == IdentityInv /\ CapInv /\ Tick => CapInv'
  <1> SUFFICES ASSUME IdentityInv, CapInv, Tick PROVE CapInv' OBVIOUS
  <1>1. now \in Nat /\ now' \in Nat /\ now =< now' BY DEF IdentityInv, Tick
  <1>2. db' = db /\ req' = req /\ contended' = contended BY DEF Tick
  <1>3. /\ CountersOK(db, contended, now')
        /\ \A p \in Workers : CountingOK(db, contended, now', req[p])
    BY <1>1, CountingStays DEF CapInv
  <1> QED BY <1>2, <1>3 DEF CapInv, IdsOf
-----------------------------------------------------------------------------
(* What the assistant asks, counts and refuses.                            *)

LEMMA CapIs ==
    ASSUME CapInv, NEW tenant
    PROVE  CapOf(tenant) \in Int /\ CapOf(tenant) =< Max(AllCaps)
  <1>1. CapOf(tenant) \in AllCaps
    <2>1. CASE tenant \in Rows("tenant")
      <3>1. Planned(db[tenant]) BY <2>1, SameRows DEF CapInv, CountersOK
      <3> QED BY <2>1, <3>1 DEF Planned, CapOf, AllCaps
    <2>2. CASE tenant \notin Rows("tenant")
      BY <2>2, CopilotAssumption DEF CapOf, AllCaps
    <2> QED BY <2>1, <2>2
  <1> QED BY <1>1, CapNumbers

\* Today's counter as it is stored, or one to be stored with zeros.
LEMMA DailyCounterIs ==
    ASSUME IdentityInv, CapInv, NEW tenant, NEW c \in DailyCounter(tenant)
    PROVE  /\ db[c.id].table = "counter" /\ Readable({c.id})
           /\ Counts(c.row, now) /\ c.row.key = <<tenant, now>>
           /\ c.id \notin contended => Refuses(c.row)
           /\ \/ /\ c.id \in Stored(db, "counter") /\ c.row = db[c.id] /\ c.created = <<>>
              \/ /\ db[c.id].status = "absent" /\ c.row = Counter(tenant)
                 /\ c.created = <<Only(c.id, Counter(tenant))>> /\ c.created # <<>>
                 /\ \A x \in Stored(db, "counter") : db[x].key # <<tenant, now>>
  <1> DEFINE today == {x \in Rows("counter") : db[x].key = <<tenant, now>>}
             fresh == Counter(tenant)
  <1>1. CASE today # {}
    <2>1. PICK x \in today : c = [id |-> x, row |-> db[x], created |-> <<>>]
      BY <1>1 DEF DailyCounter
    <2>2. c.id = x /\ c.row = db[x] /\ c.created = <<>> BY <2>1
    <2>3. x \in Stored(db, "counter") /\ db[x].key = <<tenant, now>> BY SameRows
    <2>4. Counts(db[x], now) /\ (x \notin contended => Refuses(db[x]))
      BY <2>3 DEF CapInv, CountersOK
    <2>5. Readable({x}) BY ReadRows
    <2> HIDE DEF today
    <2> QED BY <2>2, <2>3, <2>4, <2>5 DEF Stored
  <1>2. CASE today = {}
    <2>1. PICK x \in Free("counter") : c = [id |-> x, row |-> fresh, created |-> <<Only(x, fresh)>>]
      BY <1>2 DEF DailyCounter
    <2>2. c.id = x /\ c.row = fresh /\ c.created = <<Only(x, fresh)>> BY <2>1
    <2>3. db[x].table = "counter" /\ db[x].status = "absent" BY DEF Free, IdsOf, Present
    <2>4. \A y \in Stored(db, "counter") : db[y].key # <<tenant, now>> BY <1>2, SameRows
    <2>5. now \in Nat BY DEF IdentityInv
    <2>6. /\ DOMAIN fresh = {"table", "status", "key", "tokens", "turnsCount",
                            "capRejectionsCount", "refusedFor"}
          /\ fresh.status = "stored" /\ fresh.key = <<tenant, now>> /\ fresh.tokens = 0
          /\ fresh.refusedFor = None
      BY DEF Counter
    <2> HIDE DEF fresh
    <2>7. Counts(fresh, now) /\ Refuses(fresh) BY <2>5, <2>6 DEF Counts, Refuses
    <2>8. Readable({x}) BY ReadRows
    <2>9. \A v : <<v>> # <<>> OBVIOUS
    <2> QED BY <2>2, <2>3, <2>4, <2>6, <2>7, <2>8, <2>9 DEF fresh
  <1> QED BY <1>1, <1>2

\* What a new counter says.
LEMMA NewCounter ==
    ASSUME NEW tenant
    PROVE  /\ Counter(tenant).tokens = 0 /\ Counter(tenant).key = <<tenant, now>>
           /\ Counter(tenant).refusedFor = None
           /\ DOMAIN Counter(tenant) = {"table", "status", "key", "tokens", "turnsCount",
                                        "capRejectionsCount", "refusedFor"}
  BY DEF Counter

\* The transactions of a turn.
LEMMA ChangedUnits ==
    ASSUME IdentityInv, CapInv, NEW tenant, NEW c \in DailyCounter(tenant), NEW o
    PROVE  LET txs == Changed(c, o)
           IN  IF c.created = <<>> THEN Len(txs) = 1 /\ txs[1] = Only(c.id, o)
               ELSE Len(txs) = 2 /\ txs[1] = Only(c.id, c.row) /\ txs[2] = Only(c.id, o)
  <1> DEFINE u == Only(c.id, o)
             v == Only(c.id, c.row)
  <1>1. CASE c.created = <<>>
    <2>1. Changed(c, o) = <<u>> BY <1>1 DEF Changed
    <2>2. Len(<<u>>) = 1 /\ <<u>>[1] = u OBVIOUS
    <2> QED BY <1>1, <2>1, <2>2
  <1>2. CASE c.created # <<>>
    <2>1. Changed(c, o) = Append(<<v>>, u) BY <1>2, DailyCounterIs DEF Changed
    <2> HIDE DEF u, v
    <2> DEFINE txs == Append(<<v>>, u)
    <2>2. Len(txs) = 2 /\ \A i \in 1 .. 2 : txs[i] = IF i = 1 THEN v ELSE u BY TwoUnits
    <2> HIDE DEF txs
    <2>3. txs[1] = v /\ txs[2] = u BY <2>2
    <2> QED BY <1>2, <2>1, <2>2, <2>3 DEF txs, u, v
  <1> QED BY <1>1, <1>2

LEMMA ChangedCounting ==
    ASSUME IdentityInv, CapInv, NEW tenant, NEW c \in DailyCounter(tenant),
           NEW hot, contended \subseteq hot,
           NEW o, Counts(o, now), o.key = c.row.key, c.id \notin hot => Refuses(o),
           c.row.tokens =< o.tokens, o.tokens =< c.row.tokens + Max(Usages), NEW b
    PROVE  LET r == At(b, Changed(c, o), "idle")
           IN  /\ CountingOK(db, hot, now, r)
               /\ \A x \in Stored(db, "counter") :
                   /\ ~Asks(db, r, x)
                   /\ Adds(db, r, x) =>
                       x = c.id /\ db[x].key = <<tenant, now>> /\ o.tokens > db[x].tokens
  <1> DEFINE txs == Changed(c, o)
             r == At(b, txs, "idle")
  <1>1. r.todo = txs /\ r.then = "idle" /\ r.pc # "answer" BY AtIs
  <1>2. IF c.created = <<>> THEN Len(txs) = 1 /\ txs[1] = Only(c.id, o)
        ELSE Len(txs) = 2 /\ txs[1] = Only(c.id, c.row) /\ txs[2] = Only(c.id, o)
    BY ChangedUnits
  <1> HIDE DEF txs, r
  <1>3. \A x : DOMAIN Only(c.id, x) = {c.id} /\ Only(c.id, x)[c.id] = x BY DEF Only
  <1>4. AskedOK(db, now, r) BY <1>1 DEF AskedOK
  <1>5. Max(Usages) \in Nat BY CapNumbers
  <1>6. CASE c.created = <<>>
    <2>1. /\ c.id \in Stored(db, "counter") /\ c.row = db[c.id] /\ db[c.id].table = "counter"
          /\ c.row.key = <<tenant, now>>
      BY <1>6, DailyCounterIs
    <2>2. Len(r.todo) = 1 /\ DOMAIN r.todo[1] = {c.id} /\ r.todo[1][c.id] = o
      BY <1>1, <1>2, <1>3, <1>6
    <2>3. CountOK(db, hot, now, r, 1, c.id)
      BY <2>1, <2>2 DEF CountOK, Stored
    <2>4. CountingOK(db, hot, now, r)
      BY <1>4, <2>1, <2>2, <2>3 DEF CountingOK
    <2>5. \A x \in Stored(db, "counter") :
              Adds(db, r, x) => x = c.id /\ o.tokens > db[x].tokens
      BY <2>2 DEF Adds
    <2> QED BY <1>1, <2>1, <2>4, <2>5 DEF Asks, r, txs
  <1>7. CASE c.created # <<>>
    <2>1. /\ db[c.id].status = "absent" /\ db[c.id].table = "counter"
          /\ c.row.tokens = 0 /\ c.row.refusedFor = None
          /\ Counts(c.row, now)
      <3>1. /\ db[c.id].status = "absent" /\ db[c.id].table = "counter"
            /\ c.row = Counter(tenant) /\ Counts(c.row, now)
        BY <1>7, DailyCounterIs
      <3>2. Counter(tenant).tokens = 0 /\ Counter(tenant).refusedFor = None BY NewCounter
      <3> QED BY <3>1, <3>2
    <2>2. /\ Len(r.todo) = 2
          /\ DOMAIN r.todo[1] = {c.id} /\ r.todo[1][c.id] = c.row
          /\ DOMAIN r.todo[2] = {c.id} /\ r.todo[2][c.id] = o
      BY <1>1, <1>2, <1>3, <1>7
    <2>3. \A i \in 1 .. Len(r.todo) : i = 1 \/ i = 2 BY <2>2
    <2>4. Refuses(c.row) BY <2>1 DEF Refuses
    <2>5. o.tokens =< Max(Usages) /\ o.tokens \in Nat BY <1>5, <2>1 DEF Counts
    <2>6. CountOK(db, hot, now, r, 1, c.id)
      BY <1>5, <2>1, <2>2, <2>3, <2>4 DEF CountOK
    <2>7. CountOK(db, hot, now, r, 2, c.id)
      <3>1. c.id \notin hot => Refuses(o) OBVIOUS
      <3> QED BY <2>1, <2>2, <2>3, <2>5, <3>1 DEF CountOK
    <2>8. CountingOK(db, hot, now, r)
      BY <1>4, <2>1, <2>2, <2>3, <2>6, <2>7 DEF CountingOK
    <2>9. \A x \in Stored(db, "counter") : ~Adds(db, r, x)
      BY <2>1, <2>2, <2>3 DEF Adds, Stored
    <2> QED BY <1>1, <2>8, <2>9 DEF Asks, r, txs
  <1> QED BY <1>6, <1>7

\* The steps of the assistant, on what it saves of today's counter.
LEMMA ChangedOK ==
    ASSUME IdentityInv, CapInv, NEW p \in Workers, NEW tenant, NEW c \in DailyCounter(tenant),
           NEW o, Counts(o, now), o.key = c.row.key, c.id \notin contended => Refuses(o),
           c.row.tokens =< o.tokens, o.tokens =< c.row.tokens + Max(Usages)
    PROVE  /\ o.tokens = c.row.tokens /\ Handle(p, {c.id}, Changed(c, o)) => CapInv'
           /\ (\A x \in Stored(db, "counter") : db[x].key = <<tenant, now>> => Asks(db, req[p], x))
              /\ GoOn(p, "answer", {c.id}, Changed(c, o), "idle") => CapInv'
  <1>1. Readable({c.id}) BY DailyCounterIs
  <1>2. ASSUME o.tokens = c.row.tokens, Handle(p, {c.id}, Changed(c, o)) PROVE CapInv'
    <2> DEFINE b == [d \in {c.id} |-> db[d]]
               r == At(b, Changed(c, o), "idle")
               hotter == contended'
    <2>1. /\ hotter = contended \cup Shared(p, {c.id}) /\ db' = db /\ now' = now
          /\ req' = [req EXCEPT ![p] = r]
      BY <1>2 DEF Handle, Begin
    <2>2. contended \subseteq hotter BY <2>1
    <2> HIDE DEF hotter
    <2>3. /\ CountingOK(db, hotter, now, r)
          /\ \A x \in Stored(db, "counter") :
              /\ ~Asks(db, r, x)
              /\ Adds(db, r, x) => x = c.id /\ o.tokens > db[x].tokens
      BY <2>2, ChangedCounting
    <2>4. \A d \in IdsOf("counter") : db[d].status = "absent" => d \notin hotter
      BY <1>1, <2>1, NewUncontended DEF hotter
    <2> HIDE DEF r
    <2>5. \A x \in Stored(db, "counter") : ~Adds(db, r, x)
      <3> SUFFICES ASSUME c.id \in Stored(db, "counter"), o.tokens > db[c.id].tokens PROVE FALSE
        BY <2>3
      <3>1. c.row = db[c.id] BY DailyCounterIs DEF Stored
      <3>2. o.tokens \in Nat BY DEF Counts
      <3> QED BY <1>2, <3>1, <3>2
    <2> QED BY <2>1, <2>2, <2>3, <2>4, <2>5, OneCounting DEF hotter
  <1>3. ASSUME \A x \in Stored(db, "counter") : db[x].key = <<tenant, now>> => Asks(db, req[p], x),
               GoOn(p, "answer", {c.id}, Changed(c, o), "idle")
        PROVE  CapInv'
    <2> DEFINE b == And([d \in {c.id} |-> db[d]], req[p].base)
               r == At(b, Changed(c, o), "idle")
               hotter == contended'
    <2>1. /\ hotter = contended \cup Shared(p, {c.id}) /\ db' = db /\ now' = now
          /\ req' = [req EXCEPT ![p] = r]
      BY <1>3 DEF GoOn
    <2>2. contended \subseteq hotter BY <2>1
    <2> HIDE DEF hotter
    <2>3. /\ CountingOK(db, hotter, now, r)
          /\ \A x \in Stored(db, "counter") :
              /\ ~Asks(db, r, x)
              /\ Adds(db, r, x) => db[x].key = <<tenant, now>>
      BY <2>2, ChangedCounting
    <2>4. \A d \in IdsOf("counter") : db[d].status = "absent" => d \notin hotter
      BY <1>1, <2>1, NewUncontended DEF hotter
    <2> HIDE DEF r
    <2> QED BY <1>3, <2>1, <2>2, <2>3, <2>4, OneCounting DEF hotter
  <1> QED BY <1>2, <1>3

LEMMA CreatedLen ==
    ASSUME IdentityInv, CapInv, NEW tenant, NEW c \in DailyCounter(tenant), c.created # <<>>
    PROVE  Len(c.created) = 1 /\ c.created[1] = Only(c.id, c.row)
  <1> DEFINE v == Only(c.id, c.row)
  <1>1. c.created = <<v>> BY DailyCounterIs
  <1> HIDE DEF v
  <1>2. Len(<<v>>) = 1 /\ <<v>>[1] = v OBVIOUS
  <1> QED BY <1>1, <1>2 DEF v

\* The counter of a day without one, saved by itself, and the turn that asks then.
LEMMA CreatedOK ==
    ASSUME IdentityInv, CapInv, NEW p \in Workers, NEW tenant, NEW c \in DailyCounter(tenant),
           c.created # <<>>, NEW then, then \in {"idle", "answer"},
           Begin(p, {c.id}, c.created, then)
    PROVE  CapInv'
  <1> DEFINE b == [d \in {c.id} |-> db[d]]
             txs == c.created
             r == At(b, txs, then)
             hotter == contended'
  <1>1. /\ hotter = contended \cup Shared(p, {c.id}) /\ db' = db /\ now' = now
        /\ req' = [req EXCEPT ![p] = r]
    BY DEF Begin
  <1>2. contended \subseteq hotter BY <1>1
  <1> HIDE DEF hotter
  <1>3. Readable({c.id}) BY DailyCounterIs
  <1>4. \A d \in IdsOf("counter") : db[d].status = "absent" => d \notin hotter
    BY <1>1, <1>3, NewUncontended DEF hotter
  <1>5. Len(txs) = 1 /\ txs[1] = Only(c.id, c.row) /\ txs # <<>> BY CreatedLen
  <1>6. /\ DOMAIN Only(c.id, c.row) = {c.id} /\ Only(c.id, c.row)[c.id] = c.row BY DEF Only
  <1>7. /\ r.todo = txs /\ r.then = then /\ (then # "idle" => r.base = b)
        /\ r.pc = "answer" => txs = <<>> /\ then = "answer"
    BY AtIs
  <1>8. DOMAIN b = {c.id} OBVIOUS
  <1> HIDE DEF r, txs, b
  <1>9. /\ db[c.id].status = "absent" /\ db[c.id].table = "counter"
        /\ c.row = Counter(tenant) /\ Counts(c.row, now) /\ c.row.key = <<tenant, now>>
        /\ \A x \in Stored(db, "counter") : db[x].key # <<tenant, now>>
    BY DailyCounterIs
  <1>10. c.row.tokens = 0 /\ c.row.refusedFor = None
    <2>1. Counter(tenant).tokens = 0 /\ Counter(tenant).refusedFor = None BY NewCounter
    <2> QED BY <1>9, <2>1
  <1>11. Len(r.todo) = 1 /\ DOMAIN r.todo[1] = {c.id} /\ r.todo[1][c.id] = c.row
    BY <1>5, <1>6, <1>7
  <1>12. CountOK(db, hotter, now, r, 1, c.id)
    <2>1. Refuses(c.row) BY <1>10 DEF Refuses
    <2> QED BY <1>9, <1>10, <1>11, <2>1, CapNumbers DEF CountOK
  <1>13. AskedOK(db, now, r)
    <2>1. r.pc # "answer" BY <1>5, <1>7
    <2>2. Asked(r) = r.todo[1] BY <1>11 DEF Asked
    <2>3. r.then = "answer" => DOMAIN r.base = {c.id} BY <1>7, <1>8
    <2> QED BY <1>9, <1>11, <2>1, <2>2, <2>3 DEF AskedOK
  <1>14. CountingOK(db, hotter, now, r) BY <1>9, <1>11, <1>12, <1>13 DEF CountingOK
  <1>15. ASSUME NEW x \in Stored(db, "counter") PROVE ~Asks(db, r, x) /\ ~Adds(db, r, x)
    <2>1. ~Adds(db, r, x) BY <1>9, <1>11 DEF Adds, Stored
    <2>2. ASSUME Asks(db, r, x) PROVE FALSE
      <3>1. r.then = "answer" /\ DOMAIN r.base = {c.id} BY <1>7, <1>8, <2>2 DEF Asks
      <3>2. Asked(r)[c.id] = c.row BY <1>11 DEF Asked
      <3>3. c.row.key[1] = db[x].key[1] /\ c.row.key[2] =< db[x].key[2]
        BY <2>2, <3>1, <3>2 DEF Asks
      <3>4. db[x].key = <<db[x].key[1], db[x].key[2]>> /\ db[x].key[2] \in 0 .. now
        BY DEF CapInv, CountersOK, Counts
      <3>5. c.row.key[1] = tenant /\ c.row.key[2] = now BY <1>9
      <3>6. now \in Nat BY DEF IdentityInv
      <3>7. db[x].key[2] = now BY <3>3, <3>4, <3>5, <3>6
      <3> QED BY <1>9, <3>3, <3>4, <3>5, <3>7
    <2> QED BY <2>1, <2>2
  <1> QED BY <1>1, <1>2, <1>4, <1>14, <1>15, OneCounting DEF hotter

\* A turn that is admitted on a counter there is.
LEMMA AdmittedOK ==
    ASSUME IdentityInv, CapInv, NEW p \in Workers, NEW tenant, NEW c \in DailyCounter(tenant),
           c.created = <<>>, ~Spent(c.row.tokens, CapOf(tenant)),
           Begin(p, {c.id}, c.created, "answer")
    PROVE  CapInv'
  <1> DEFINE b == [d \in {c.id} |-> db[d]]
             txs == c.created
             r == At(b, txs, "answer")
             hotter == contended'
  <1>1. /\ hotter = contended \cup Shared(p, {c.id}) /\ db' = db /\ now' = now
        /\ req' = [req EXCEPT ![p] = r]
    BY DEF Begin
  <1>2. contended \subseteq hotter BY <1>1
  <1> HIDE DEF hotter
  <1>3. Readable({c.id}) BY DailyCounterIs
  <1>4. \A d \in IdsOf("counter") : db[d].status = "absent" => d \notin hotter
    BY <1>1, <1>3, NewUncontended DEF hotter
  <1>5. Len(txs) = 0
    <2>1. Len(<<>>) = 0 OBVIOUS
    <2> QED BY <2>1
  <1>6. r.todo = txs /\ r.then = "answer" /\ r.base = b BY AtIs
  <1>7. DOMAIN b = {c.id} /\ b[c.id] = db[c.id] OBVIOUS
  <1> HIDE DEF r, txs, b
  <1>8. /\ c.id \in Stored(db, "counter") /\ c.row = db[c.id] /\ Counts(c.row, now)
        /\ c.row.key = <<tenant, now>>
    BY DailyCounterIs
  <1>9. Len(r.todo) = 0 /\ DOMAIN r.base = {c.id} /\ Asked(r)[c.id] = db[c.id]
    BY <1>5, <1>6, <1>7 DEF Asked
  <1>10. CountingOK(db, hotter, now, r)
    <2>1. AskedOK(db, now, r) BY <1>6, <1>8, <1>9 DEF AskedOK
    <2> QED BY <1>9, <2>1 DEF CountingOK
  <1>11. db[c.id].tokens < Max(AllCaps)
    <2>1. db[c.id].tokens \in Nat BY <1>8 DEF Counts
    <2>2. CapOf(tenant) \in Int /\ CapOf(tenant) =< Max(AllCaps) BY CapIs
    <2>3. ~(db[c.id].tokens >= CapOf(tenant)) BY <1>8 DEF Spent
    <2>4. Max(AllCaps) \in Nat BY CapNumbers
    <2> QED BY <2>1, <2>2, <2>3, <2>4
  <1>12. ASSUME NEW x \in Stored(db, "counter"), Asks(db, r, x) PROVE x = c.id
    <2>1. c.row.key[1] = db[x].key[1] /\ c.row.key[2] =< db[x].key[2]
      BY <1>8, <1>9, <1>12 DEF Asks
    <2>2. db[x].key = <<db[x].key[1], db[x].key[2]>> /\ db[x].key[2] \in 0 .. now
      BY DEF CapInv, CountersOK, Counts
    <2>3. c.row.key[1] = tenant /\ c.row.key[2] = now BY <1>8
    <2>4. now \in Nat BY DEF IdentityInv
    <2>5. db[x].key[2] = now BY <2>1, <2>2, <2>3, <2>4
    <2>6. db[x].key = db[c.id].key BY <1>8, <2>1, <2>2, <2>3, <2>5
    <2> QED BY <1>8, <2>6 DEF CapInv, CountersOK
  <1>13. \A x \in Stored(db, "counter") : ~Adds(db, r, x) BY <1>9 DEF Adds
  <1> QED BY <1>1, <1>2, <1>4, <1>10, <1>11, <1>12, <1>13, OneCounting DEF hotter

LEMMA CopilotCounting ==
    ASSUME IdentityInv, CapInv, NEW p \in Workers, CopilotStep(p)
    PROVE  CapInv'
  <1>1. ASSUME ShowUsage(p) PROVE CapInv'
    <2>1. \E s \in Callers : \E c \in DailyCounter(db[s].tenant) :
              c.created # <<>> /\ Begin(p, {c.id}, c.created, "idle")
      BY <1>1 DEF ShowUsage, Handle
    <2> QED BY <2>1, CreatedOK
  <1>2. ASSUME Ask(p) PROVE CapInv'
    <2>1. PICK s \in Callers : \E c \in DailyCounter(db[s].tenant) :
              IF Spent(c.row.tokens, CapOf(db[s].tenant))
              THEN Handle(p, {c.id}, Changed(c, TurnedAway(c.row, CapOf(db[s].tenant))))
              ELSE Begin(p, {c.id}, c.created, "answer")
      BY <1>2 DEF Ask
    <2> DEFINE tenant == db[s].tenant
               cap == CapOf(tenant)
    <2> HIDE DEF tenant
    <2>2. PICK c \in DailyCounter(tenant) :
              IF Spent(c.row.tokens, cap) THEN Handle(p, {c.id}, Changed(c, TurnedAway(c.row, cap)))
              ELSE Begin(p, {c.id}, c.created, "answer")
      BY <2>1 DEF tenant
    <2>3. CASE Spent(c.row.tokens, cap)
      <3> DEFINE o == TurnedAway(c.row, cap)
      <3>1. Counts(c.row, now) /\ (c.id \notin contended => Refuses(c.row)) BY DailyCounterIs
      <3>2. cap \in Int BY CapIs
      <3> HIDE DEF cap
      <3>3. /\ DOMAIN o = DOMAIN c.row /\ o.status = c.row.status /\ o.key = c.row.key
            /\ o.tokens = c.row.tokens
            /\ o.refusedFor = IF c.row.refusedFor # None /\ c.row.refusedFor < cap
                              THEN c.row.refusedFor ELSE cap
        BY <3>1 DEF Counts, TurnedAway
      <3>4. Handle(p, {c.id}, Changed(c, o)) BY <2>2, <2>3
      <3> HIDE DEF o
      <3>5. Counts(o, now) BY <3>1, <3>3 DEF Counts
      <3>6. ASSUME c.id \notin contended PROVE Refuses(o)
        <4>1. c.row.tokens >= cap /\ c.row.tokens \in Nat BY <2>3, <3>1 DEF Spent, Counts
        <4> QED BY <3>1, <3>2, <3>3, <3>6, <4>1 DEF Refuses
      <3>7. c.row.tokens =< o.tokens /\ o.tokens =< c.row.tokens + Max(Usages)
        BY <3>1, <3>3, CapNumbers DEF Counts
      <3> QED BY <3>3, <3>4, <3>5, <3>6, <3>7, ChangedOK
    <2>4. CASE ~Spent(c.row.tokens, cap)
      <3>1. Begin(p, {c.id}, c.created, "answer") BY <2>2, <2>4
      <3>2. CASE c.created = <<>> BY <2>4, <3>1, <3>2, AdmittedOK
      <3>3. CASE c.created # <<>> BY <3>1, <3>3, CreatedOK
      <3> QED BY <3>2, <3>3
    <2> QED BY <2>3, <2>4
  <1>3. ASSUME RecordUsage(p) PROVE CapInv'
    <2> DEFINE o(c, used) == [c.row EXCEPT !.tokens = @ + used, !.turnsCount = @ + 1]
    <2>1. PICK asked \in DOMAIN req[p].base, used \in Usages :
            \E c \in DailyCounter(req[p].base[asked].key[1]) :
                GoOn(p, "answer", {c.id}, Changed(c, o(c, used)), "idle")
      BY <1>3 DEF RecordUsage
    <2> DEFINE tenant == req[p].base[asked].key[1]
    <2>2. PICK c \in DailyCounter(tenant) :
                GoOn(p, "answer", {c.id}, Changed(c, o(c, used)), "idle")
      BY <2>1
    <2>3. AskedOK(db, now, req[p]) BY DEF CapInv, CountingOK
    <2>4. req[p].pc = "answer" BY <1>3 DEF RecordUsage
    <2>5. /\ req[p].then = "answer" /\ Len(req[p].todo) = 0
          /\ Asked(req[p]) = req[p].base /\ Counts(req[p].base[asked], now)
      BY <2>3, <2>4 DEF AskedOK, Asked
    <2>6. ASSUME NEW x \in Stored(db, "counter"), db[x].key = <<tenant, now>>
          PROVE  Asks(db, req[p], x)
      <3>1. db[x].key[1] = tenant /\ db[x].key[2] = now BY <2>6
      <3>2. req[p].base[asked].key[2] =< now BY <2>5 DEF Counts
      <3> QED BY <2>5, <3>1, <3>2 DEF Asks
    <2> HIDE DEF tenant
    <2>7. Counts(c.row, now) /\ (c.id \notin contended => Refuses(c.row)) BY DailyCounterIs
    <2>8. used \in Nat /\ used =< Max(Usages) /\ Max(Usages) \in Nat BY CapNumbers
    <2>9. /\ DOMAIN o(c, used) = DOMAIN c.row /\ o(c, used).status = c.row.status
          /\ o(c, used).key = c.row.key /\ o(c, used).tokens = c.row.tokens + used
          /\ o(c, used).refusedFor = c.row.refusedFor
      BY <2>7 DEF Counts
    <2> HIDE DEF o
    <2>10. c.row.tokens \in Nat BY <2>7 DEF Counts
    <2>11. o(c, used).tokens \in Nat /\ c.row.tokens =< o(c, used).tokens
           /\ o(c, used).tokens =< c.row.tokens + Max(Usages)
      BY <2>8, <2>9, <2>10
    <2>12. Counts(o(c, used), now) BY <2>7, <2>9, <2>11 DEF Counts
    <2>13. c.id \notin contended => Refuses(o(c, used))
      BY <2>7, <2>9, <2>10, <2>11 DEF Refuses
    <2> QED BY <2>2, <2>6, <2>9, <2>11, <2>12, <2>13, ChangedOK
  <1>4. ASSUME AnswerFails(p) PROVE CapInv'
    <2>1. Leave(p) BY <1>4 DEF AnswerFails
    <2> QED BY <2>1, LeaveCounting
  <1> QED BY <1>1, <1>2, <1>3, <1>4 DEF CopilotStep
-----------------------------------------------------------------------------
(* A COMMIT: a counter is as one request has counted it, if no other had   *)
(* it in hand, and the request has no more to add then.                    *)

\* Null is no pair of a tenant and a day.
NullIsNoPair == \A x, y : <<x, y>> # None

\* The unit that is written, and what is left of its request.
LEMMA WriterTodo ==
    ASSUME IdentityInv, NEW p \in Workers, Write(p)
    PROVE  LET r == req[p]
               s == req'[p]
           IN  /\ Len(r.todo) \in Nat \ {0} /\ Unit(p) = r.todo[1]
               /\ Len(s.todo) = Len(r.todo) - 1
               /\ \A i \in 1 .. Len(s.todo) :
                      s.todo[i] = r.todo[i + 1] /\ i + 1 \in 1 .. Len(r.todo)
               /\ s.then = r.then /\ (s.pc = "answer" => Len(s.todo) = 0 /\ s.then = "answer")
               /\ DOMAIN Unit(p) = DOMAIN r.base /\ r.then = "answer" =>
                      DOMAIN s.base = DOMAIN r.base
               /\ s.then = "answer" => \A d \in DOMAIN Unit(p) :
                      d \in DOMAIN s.base /\ (db[d].status = "absent" => s.base[d] = Unit(p)[d])
  <1> DEFINE r == req[p]
             s == req'[p]
             b == And([d \in DOMAIN Unit(p) |-> Saved(p, d)], r.base)
             txs == Tail(r.todo)
  <1>1. RequestFits(db, contended, r, Loose, Lasting) BY DEF IdentityInv, Held
  <1>2. r.pc = "write" /\ s = At(b, txs, r.then) BY DEF Write, IdentityInv, Held
  <1>3. /\ Len(txs) = Len(r.todo) - 1 /\ Len(r.todo) \in Nat \ {0}
        /\ \A i \in 1 .. Len(txs) : txs[i] = r.todo[i + 1]
        /\ Head(r.todo) = r.todo[1]
    BY <1>1, <1>2, NextUnit
  <1>4. /\ DOMAIN b = DOMAIN Unit(p) \cup DOMAIN r.base
        /\ \A d \in DOMAIN Unit(p) : b[d] = Saved(p, d)
    BY DEF And
  <1>5. \A d \in DOMAIN Unit(p) : db[d].status = "absent" => Saved(p, d) = Unit(p)[d]
    BY DEF Saved, Present
  <1>6. Unit(p) = r.todo[1] BY <1>3 DEF Unit
  <1> HIDE DEF b, txs
  <1>7. /\ s.todo = txs /\ s.then = r.then /\ (r.then # "idle" => s.base = b)
        /\ s.pc = "answer" => txs = <<>> /\ s.then = "answer"
    BY <1>2, AtIs
  <1>8. txs = <<>> => Len(txs) = 0
    <2>1. Len(<<>>) = 0 OBVIOUS
    <2> QED BY <2>1
  <1>9. \A i \in 1 .. Len(txs) : i + 1 \in 1 .. Len(r.todo) BY <1>3
  <1> HIDE DEF r, s
  <1>10. s.then = "answer" => s.base = b BY <1>7
  <1> QED BY <1>3, <1>4, <1>5, <1>6, <1>7, <1>8, <1>9, <1>10 DEF r, s

\* The counter that is written.
LEMMA CounterWritten ==
    ASSUME IdentityInv, CapInv, NEW p \in Workers, Write(p),
           NEW d \in DOMAIN Unit(p), db[d].table = "counter"
    PROVE  LET o == Unit(p)[d]
           IN  /\ CountOK(db, contended, now, req[p], 1, d) /\ o = req[p].todo[1][d]
               /\ DOMAIN Unit(p) = {d} /\ d \in DOMAIN req[p].base /\ d \in DOMAIN db
               /\ Counts(o, now) /\ (db[d].status # "absent" => o.key = db[d].key)
               /\ db[d].status = "absent" => db'[d] = o
               /\ Counts(db'[d], now) /\ db'[d].key = o.key
               /\ d \notin contended => Refuses(db'[d]) /\ db'[d].tokens = o.tokens
  <1> DEFINE u == Unit(p)
             o == u[d]
  <1>1. Len(req[p].todo) \in Nat \ {0} /\ u = req[p].todo[1] BY WriterTodo
  <1>2. CountOK(db, contended, now, req[p], 1, d) BY <1>1 DEF CapInv, CountingOK
  <1>3. /\ DOMAIN u = {d} /\ Counts(o, now) /\ (d \notin contended => Refuses(o))
        /\ db[d].status # "absent" => o.key = db[d].key
    BY <1>1, <1>2 DEF CountOK
  <1>4. /\ UnitFits(db, u, DOMAIN req[p].base, Loose, Lasting) /\ d \in DOMAIN db
        /\ db[d].status = "absent" => db'[d] = o
        /\ db[d].status # "absent" =>
               /\ DOMAIN db'[d] = DOMAIN db[d]
               /\ \A f \in DOMAIN db[d] : db'[d][f] = db[d][f]
                           \/ (f \in DOMAIN o /\ db'[d][f] = o[f])
        /\ d \notin contended => db'[d] = Updated(db[d], o)
    BY WriteSaves DEF IdentityInv, Loose
  <1>5. d \in DOMAIN req[p].base BY <1>4 DEF UnitFits, Loose
  <1> HIDE DEF u
  <1>6. CASE db[d].status = "absent"
    <2>1. db'[d] = o BY <1>4, <1>6
    <2> QED BY <1>1, <1>2, <1>3, <1>4, <1>5, <2>1 DEF u
  <1>7. CASE db[d].status # "absent"
    <2>1. Counts(db[d], now) BY <1>4, <1>7 DEF CapInv, CountersOK, Stored
    <2>2. {"table", "status", "key", "tokens", "refusedFor"} \subseteq DOMAIN db[d]
      BY <2>1 DEF Counts
    <2>3. {"table", "status", "key", "tokens", "refusedFor"} \subseteq DOMAIN o
      BY <1>3 DEF Counts
    <2>4. db'[d].key = o.key BY <1>3, <1>4, <1>7, <2>2
    <2>5. db'[d].status # "absent" /\ db'[d].tokens \in Nat
      BY <1>3, <1>4, <1>7, <2>1, <2>2 DEF Counts
    <2>6. Counts(db'[d], now) BY <1>3, <1>4, <1>7, <2>2, <2>4, <2>5 DEF Counts
    <2>7. ASSUME d \notin contended PROVE Refuses(db'[d]) /\ db'[d].tokens = o.tokens
      <3>1. db'[d] = [f \in DOMAIN db[d] |-> IF f \in DOMAIN o THEN o[f] ELSE db[d][f]]
        BY <1>4, <1>7, <2>7 DEF Updated
      <3>2. /\ db'[d].tokens = o.tokens
            /\ db'[d].refusedFor = o.refusedFor
        BY <2>2, <2>3, <3>1
      <3> QED BY <1>3, <2>7, <3>2 DEF Refuses
    <2> QED BY <1>1, <1>2, <1>3, <1>4, <1>5, <2>4, <2>6, <2>7 DEF u
  <1> QED BY <1>6, <1>7

\* Rows of counters and tenants after a COMMIT.
LEMMA WriteCounters ==
    ASSUME NullIsNoPair, IdentityInv, CapInv, NEW p \in Workers, Write(p)
    PROVE  /\ CountersOK(db', contended, now)
           /\ \A d \in DOMAIN db : /\ db'[d].table = db[d].table
                                   /\ d \notin DOMAIN Unit(p) => db'[d] = db[d]
           /\ DOMAIN db' = DOMAIN db
           /\ \A c \in Stored(db, "counter") :
                  c \in Stored(db', "counter") /\ db'[c].key = db[c].key
           /\ \A d \in DOMAIN db' : db'[d].table = "counter" /\ db'[d].status = "absent" =>
                  d \notin contended
  <1> DEFINE u == Unit(p)
  <1>1. /\ DOMAIN u \subseteq DOMAIN db /\ DOMAIN db' = DOMAIN db
        /\ \A d \in DOMAIN db \ DOMAIN u : db'[d] = db[d]
        /\ \A d \in DOMAIN u : db[d].status = "absent" => db'[d] = u[d]
        /\ \A d \in DOMAIN u : db[d].status # "absent" =>
               /\ DOMAIN db'[d] = DOMAIN db[d]
               /\ \A f \in DOMAIN db[d] : db'[d][f] = db[d][f]
                           \/ (f \in DOMAIN u[d] /\ db'[d][f] = u[d][f])
    BY WriteSaves DEF IdentityInv
  <1>2. \A d \in DOMAIN db : db'[d].table = db[d].table BY WriteKeeps DEF IdentityInv
  <1>3. ASSUME NEW d \in DOMAIN u, db[d].table = "counter"
        PROVE  /\ DOMAIN u = {d} /\ Counts(db'[d], now) /\ db'[d].key = u[d].key
               /\ d \notin contended => Refuses(db'[d])
               /\ Counts(u[d], now)
               /\ db[d].status # "absent" => u[d].key = db[d].key
    BY <1>3, CounterWritten
  <1>4. ~Taken(p) BY DEF Write
  <1>5. Len(req[p].todo) \in Nat \ {0} /\ u = req[p].todo[1] BY WriterTodo
  <1>6. \A d \in DOMAIN u : db[d].table = "tenant" => Planned(u[d])
    BY <1>5 DEF CapInv, CountingOK
  <1>7. \A x \in Rows("counter") \ Deleted(p) : \A d \in DOMAIN u :
            db[d].table = "counter" /\ x # d /\ "key" \in DOMAIN u[d] /\ "key" \in DOMAIN db[x]
            /\ u[d].key # None => u[d].key # db[x].key
    BY <1>4 DEF Taken, UniqueColumns
  <1>8. Deleted(p) \subseteq DOMAIN u BY DEF Deleted
  <1> HIDE DEF u
  <1>9. ASSUME NEW x \in Stored(db', "tenant") PROVE Planned(db'[x])
    <2>1. x \in DOMAIN db /\ db[x].table = "tenant" BY <1>1, <1>2 DEF Stored
    <2>2. CASE x \notin DOMAIN u
      <3>1. db'[x] = db[x] /\ x \in Stored(db, "tenant") BY <1>1, <2>1, <2>2 DEF Stored
      <3> QED BY <3>1 DEF CapInv, CountersOK
    <2>3. CASE x \in DOMAIN u /\ db[x].status = "absent" BY <1>1, <1>6, <2>1, <2>3
    <2>4. CASE x \in DOMAIN u /\ db[x].status # "absent"
      <3>1. Planned(db[x]) /\ Planned(u[x]) BY <1>6, <2>1, <2>4 DEF CapInv, CountersOK, Stored
      <3> QED BY <1>1, <2>4, <3>1 DEF Planned
    <2> QED BY <2>2, <2>3, <2>4
  <1>10. ASSUME NEW c \in Stored(db', "counter")
         PROVE  /\ Counts(db'[c], now) /\ (c \notin contended => Refuses(db'[c]))
                /\ c \in DOMAIN db /\ db[c].table = "counter"
                /\ c \in DOMAIN u \/ (c \in Stored(db, "counter") /\ db'[c] = db[c])
    <2>1. c \in DOMAIN db /\ db[c].table = "counter" BY <1>1, <1>2 DEF Stored
    <2>2. CASE c \notin DOMAIN u
      <3>1. db'[c] = db[c] /\ c \in Stored(db, "counter") BY <1>1, <2>1, <2>2 DEF Stored
      <3> QED BY <2>1, <3>1 DEF CapInv, CountersOK
    <2>3. CASE c \in DOMAIN u BY <1>3, <2>1, <2>3
    <2> QED BY <2>2, <2>3
  <1>11. ASSUME NEW c \in Stored(db', "counter") \cap DOMAIN u,
                NEW x \in Stored(db', "counter") \ DOMAIN u
         PROVE  db'[x].key # db'[c].key
    <2>1. x \in Stored(db, "counter") /\ db'[x] = db[x] BY <1>10
    <2>2. /\ db[c].table = "counter" /\ c \in DOMAIN db /\ DOMAIN u = {c}
          /\ db'[c].key = u[c].key /\ Counts(u[c], now)
      BY <1>3, <1>10
    <2>3. CASE db[c].status # "absent"
      <3>1. c \in Stored(db, "counter") BY <2>2, <2>3 DEF Stored
      <3>2. u[c].key = db[c].key BY <1>3, <2>2, <2>3
      <3>3. x # c OBVIOUS
      <3> QED BY <2>1, <2>2, <3>1, <3>2, <3>3 DEF CapInv, CountersOK
    <2>4. CASE db[c].status = "absent"
      <3>1. x \in Rows("counter") \ Deleted(p) /\ x # c BY <1>8, <2>1, SameRows
      <3>2. "key" \in DOMAIN db[x] BY <2>1 DEF CapInv, CountersOK, Counts
      <3>3. "key" \in DOMAIN u[c] /\ u[c].key # None BY <2>2 DEF Counts, NullIsNoPair
      <3>4. u[c].key # db[x].key BY <1>7, <2>2, <3>1, <3>2, <3>3
      <3> QED BY <2>1, <2>2, <3>4
    <2> QED BY <2>3, <2>4
  <1>12. ASSUME NEW c \in Stored(db', "counter"), NEW x \in Stored(db', "counter"),
                db'[x].key = db'[c].key
         PROVE  x = c
    <2>1. CASE c \in DOMAIN u /\ x \in DOMAIN u BY <1>3, <1>10, <2>1
    <2>2. CASE c \in DOMAIN u /\ x \notin DOMAIN u BY <1>11, <1>12, <2>2
    <2>3. CASE c \notin DOMAIN u /\ x \in DOMAIN u BY <1>11, <1>12, <2>3
    <2>4. CASE c \notin DOMAIN u /\ x \notin DOMAIN u
      <3>1. /\ c \in Stored(db, "counter") /\ db'[c] = db[c]
            /\ x \in Stored(db, "counter") /\ db'[x] = db[x]
        BY <1>10, <2>4
      <3> QED BY <1>12, <3>1 DEF CapInv, CountersOK
    <2> QED BY <2>1, <2>2, <2>3, <2>4
  <1>13. CountersOK(db', contended, now) BY <1>9, <1>10, <1>12 DEF CountersOK
  <1>14. ASSUME NEW c \in Stored(db, "counter")
         PROVE  c \in Stored(db', "counter") /\ db'[c].key = db[c].key
    <2>1. c \in DOMAIN db /\ db[c].table = "counter" /\ db[c].status # "absent" BY DEF Stored
    <2>2. CASE c \in DOMAIN u BY <1>1, <1>2, <1>3, <2>1, <2>2 DEF Counts, Stored
    <2>3. CASE c \notin DOMAIN u BY <1>1, <2>1, <2>3 DEF Stored
    <2> QED BY <2>2, <2>3
  <1>15. ASSUME NEW d \in DOMAIN db', db'[d].table = "counter", db'[d].status = "absent"
         PROVE  d \notin contended
    <2>1. d \in DOMAIN db /\ db[d].table = "counter" BY <1>1, <1>2, <1>15
    <2>2. d \notin DOMAIN u BY <1>3, <1>15, <2>1 DEF Counts
    <2> QED BY <1>1, <1>15, <2>1, <2>2 DEF CapInv, IdsOf
  <1> QED BY <1>1, <1>2, <1>13, <1>14, <1>15 DEF u

\* What the others have to save, and have asked, is as before.
LEMMA WriteCountsOthers ==
    ASSUME NullIsNoPair, IdentityInv, CapInv, NEW p \in Workers, Write(p),
           NEW q \in Workers \ {p}
    PROVE  /\ CountingOK(db', contended, now, req'[q])
           /\ \A c \in Stored(db, "counter") \ contended :
                  /\ Asks(db', req'[q], c) => Asks(db, req[q], c)
                  /\ Adds(db', req'[q], c) => Adds(db, req[q], c)
  <1> DEFINE r == req[q]
             after == db'
  <1>1. /\ req'[q] = r
        /\ \A d \in DOMAIN r.base \ contended : db[d].table \notin Loose => after[d] = db[d]
        /\ \A i \in 1 .. Len(r.todo) : \A d \in DOMAIN r.todo[i] \ contended :
               db[d].table \notin Loose => after[d] = db[d]
    BY WriteSpares DEF IdentityInv
  <1>2. /\ DOMAIN after = DOMAIN db
        /\ \A d \in DOMAIN db : after[d].table = db[d].table
        /\ \A c \in Stored(db, "counter") :
               c \in Stored(after, "counter") /\ after[c].key = db[c].key
    BY WriteCounters
  <1>3. RequestFits(db, contended, r, Loose, Lasting) /\ CountingOK(db, contended, now, r)
    BY DEF IdentityInv, Held, CapInv
  <1>4. \A d \in DOMAIN db : db[d].table = "counter" /\ db[d].status = "absent" =>
            d \notin contended
    BY DEF CapInv, IdsOf
  <1>5. "counter" \notin Loose BY DEF Loose
  <1>6. DOMAIN r.base \subseteq DOMAIN db
        /\ \A i \in 1 .. Len(r.todo) : \A d \in DOMAIN r.todo[i] : d \in DOMAIN db
    BY <1>3 DEF RequestFits, UnitFits
  <1> HIDE DEF r, after
  <1>7. AskedOK(after, now, r)
    <2>1. AskedOK(db, now, r) BY <1>3 DEF CountingOK
    <2>2. \A a \in DOMAIN r.base : db[a].table = "counter" /\ db[a].status = "absent" =>
              after[a] = db[a]
      BY <1>1, <1>4, <1>5, <1>6
    <2> QED BY <2>1, <2>2 DEF AskedOK
  <1>8. ASSUME NEW i \in 1 .. Len(r.todo), NEW d \in DOMAIN r.todo[i], after[d].table = "counter"
        PROVE  CountOK(after, contended, now, r, i, d)
    <2>1. d \in DOMAIN db /\ db[d].table = "counter" BY <1>2, <1>6, <1>8
    <2>2. CountOK(db, contended, now, r, i, d) BY <1>3, <2>1 DEF CountingOK
    <2>3. CASE d \notin contended
      <3>1. after[d] = db[d] BY <1>1, <1>5, <2>1, <2>3
      <3> QED BY <2>2, <3>1 DEF CountOK
    <2>4. CASE d \in contended
      <3>1. d \in Stored(db, "counter") BY <1>4, <2>1, <2>4 DEF Stored
      <3>2. after[d].key = db[d].key /\ after[d].status # "absent" /\ db[d].status # "absent"
        BY <1>2, <3>1 DEF Stored
      <3> QED BY <2>2, <2>4, <3>2 DEF CountOK
    <2> QED BY <2>3, <2>4
  <1>9. \A i \in 1 .. Len(r.todo) : \A d \in DOMAIN r.todo[i] :
            after[d].table = "tenant" => Planned(r.todo[i][d])
    BY <1>2, <1>3, <1>6 DEF CountingOK
  <1>10. CountingOK(after, contended, now, r) BY <1>7, <1>8, <1>9 DEF CountingOK
  <1>11. ASSUME NEW c \in Stored(db, "counter") \ contended
         PROVE  /\ Asks(after, r, c) => Asks(db, r, c)
                /\ Adds(after, r, c) => Adds(db, r, c)
    <2>1. after[c].key = db[c].key /\ db[c].table = "counter" BY <1>2 DEF Stored
    <2>2. \A i \in 1 .. Len(r.todo) : c \in DOMAIN r.todo[i] => after[c] = db[c]
      BY <1>1, <1>5, <2>1
    <2> QED BY <2>1, <2>2 DEF Asks, Adds
  <1> QED BY <1>1, <1>10, <1>11 DEF after, r

\* What the writer has left to save, and has asked.
LEMMA WriteCountsOwn ==
    ASSUME NullIsNoPair, IdentityInv, CapInv, NEW p \in Workers, Write(p)
    PROVE  /\ CountingOK(db', contended, now, req'[p])
           /\ \A c \in Stored(db, "counter") :
                  Asks(db', req'[p], c) => Asks(db, req[p], c)
  <1> DEFINE r == req[p]
             s == req'[p]
             u == Unit(p)
             after == db'
  <1>1. /\ Len(r.todo) \in Nat \ {0} /\ u = r.todo[1]
        /\ Len(s.todo) = Len(r.todo) - 1
        /\ \A i \in 1 .. Len(s.todo) : s.todo[i] = r.todo[i + 1] /\ i + 1 \in 1 .. Len(r.todo)
        /\ s.then = r.then /\ (s.pc = "answer" => Len(s.todo) = 0 /\ s.then = "answer")
        /\ DOMAIN u = DOMAIN r.base /\ r.then = "answer" => DOMAIN s.base = DOMAIN r.base
        /\ s.then = "answer" => \A d \in DOMAIN u :
               d \in DOMAIN s.base /\ (db[d].status = "absent" => s.base[d] = u[d])
    BY WriterTodo
  <1>2. /\ DOMAIN after = DOMAIN db
        /\ \A d \in DOMAIN db : after[d].table = db[d].table
        /\ \A c \in Stored(db, "counter") :
               c \in Stored(after, "counter") /\ after[c].key = db[c].key
    BY WriteCounters
  <1>3. RequestFits(db, contended, r, Loose, Lasting) /\ CountingOK(db, contended, now, r)
    BY DEF IdentityInv, Held, CapInv
  <1>4. \A i \in 1 .. Len(r.todo) : \A d \in DOMAIN r.todo[i] : d \in DOMAIN db
    BY <1>3 DEF RequestFits, UnitFits
  <1>5. ASSUME NEW d \in DOMAIN u, db[d].table = "counter"
        PROVE  /\ Counts(after[d], now) /\ after[d].key = u[d].key
               /\ db[d].status = "absent" => after[d] = u[d]
    BY <1>5, CounterWritten
  <1> HIDE DEF r, s, u, after
  <1>6. AskedOK(db, now, r) BY <1>3 DEF CountingOK
  <1>7. ASSUME s.then = "answer"
        PROVE  /\ Len(s.todo) = 0 /\ Asked(s) = s.base /\ DOMAIN s.base = DOMAIN r.base
               /\ \A a \in DOMAIN r.base : Asked(s)[a] = Asked(r)[a]
    <2>1. /\ Len(r.todo) = 1 /\ DOMAIN u = DOMAIN r.base
          /\ \A a \in DOMAIN r.base : db[a].status = "absent"
      BY <1>1, <1>6, <1>7 DEF AskedOK
    <2>2. Len(s.todo) = 0 BY <1>1, <2>1
    <2>3. Asked(s) = s.base /\ Asked(r) = u BY <1>1, <2>1, <2>2 DEF Asked
    <2> QED BY <1>1, <1>7, <2>1, <2>2, <2>3
  <1>8. AskedOK(after, now, s)
    <2>1. s.then = "answer" => \A a \in DOMAIN s.base : Counts(Asked(s)[a], now)
      BY <1>1, <1>6, <1>7 DEF AskedOK
    <2> QED BY <1>1, <1>7, <2>1 DEF AskedOK
  <1>9. ASSUME NEW i \in 1 .. Len(s.todo), NEW d \in DOMAIN s.todo[i], after[d].table = "counter"
        PROVE  CountOK(after, contended, now, s, i, d)
    <2>1. s.todo[i] = r.todo[i + 1] /\ i + 1 \in 1 .. Len(r.todo) BY <1>1
    <2>2. d \in DOMAIN db /\ db[d].table = "counter" BY <1>2, <1>4, <1>9, <2>1
    <2>3. CountOK(db, contended, now, r, i + 1, d) BY <1>3, <2>1, <2>2 DEF CountingOK
    <2>4. Len(r.todo) # 1 BY <2>1
    <2>5. db[d].status = "absent" /\ Len(r.todo) =< 2 BY <2>3, <2>4 DEF CountOK
    <2>6. i = 1 /\ Len(r.todo) = 2 /\ Len(s.todo) = 1
      <3> DEFINE n == Len(r.todo)
                 k == Len(s.todo)
      <3>1. n \in Nat \ {0} /\ k = n - 1 /\ i \in 1 .. k BY <1>1
      <3>2. n # 1 /\ n =< 2 BY <2>4, <2>5
      <3> HIDE DEF n, k
      <3>3. n = 2 /\ k = 1 /\ i = 1 BY <3>1, <3>2
      <3> QED BY <3>3 DEF n, k
    <2>7. DOMAIN r.todo[1] = {d} /\ r.todo[1][d].key = r.todo[2][d].key
          /\ DOMAIN r.todo[2] = {d}
      BY <2>3, <2>6 DEF CountOK
    <2>8. d \in DOMAIN u /\ after[d] = u[d] /\ Counts(after[d], now)
      BY <1>1, <1>5, <2>2, <2>5, <2>7
    <2>9. CountOK(db, contended, now, r, 1, d) BY <1>1, <1>3, <2>2, <2>7 DEF CountingOK
    <2>10. u[d].tokens = 0 BY <1>1, <2>5, <2>9 DEF CountOK
    <2> DEFINE o == s.todo[i][d]
    <2>11. o = r.todo[2][d] BY <2>1, <2>6
    <2>12. Counts(o, now) /\ (d \notin contended => Refuses(o)) /\ o.tokens =< Max(Usages)
      BY <2>3, <2>5, <2>6, <2>11 DEF CountOK
    <2>13. o.key = after[d].key BY <1>1, <2>7, <2>8, <2>11
    <2>14. after[d].status # "absent" /\ after[d].tokens = 0 BY <2>8, <2>10 DEF Counts
    <2>15. \A j \in 1 .. Len(s.todo) : DOMAIN s.todo[j] = {d} /\ s.todo[j][d].key = o.key
      BY <2>1, <2>6, <2>7
    <2>16. after[d].tokens =< o.tokens /\ o.tokens =< after[d].tokens + Max(Usages)
      BY <2>12, <2>14, CapNumbers DEF Counts
    <2> QED BY <2>6, <2>12, <2>13, <2>14, <2>15, <2>16 DEF CountOK
  <1>10. ASSUME NEW i \in 1 .. Len(s.todo), NEW d \in DOMAIN s.todo[i], after[d].table = "tenant"
         PROVE  Planned(s.todo[i][d])
    <2>1. s.todo[i] = r.todo[i + 1] /\ i + 1 \in 1 .. Len(r.todo) BY <1>1
    <2>2. d \in DOMAIN db /\ db[d].table = "tenant" BY <1>2, <1>4, <1>10, <2>1
    <2> QED BY <1>3, <2>1, <2>2 DEF CountingOK
  <1>11. CountingOK(after, contended, now, s) BY <1>8, <1>9, <1>10 DEF CountingOK
  <1>12. ASSUME NEW c \in Stored(db, "counter"), Asks(after, s, c) PROVE Asks(db, r, c)
    <2>1. after[c].key = db[c].key BY <1>2
    <2>2. s.then = "answer" BY <1>12 DEF Asks
    <2>3. PICK a \in DOMAIN s.base :
              Asked(s)[a].key[1] = after[c].key[1] /\ Asked(s)[a].key[2] =< after[c].key[2]
      BY <1>12 DEF Asks
    <2>4. a \in DOMAIN r.base /\ Asked(s)[a] = Asked(r)[a] /\ r.then = "answer"
      BY <1>1, <1>7, <2>2
    <2> QED BY <2>1, <2>3, <2>4 DEF Asks
  <1> QED BY <1>11, <1>12 DEF after, r, s

\* A counter nobody else had in hand is within the cap still.
LEMMA WriteWithin ==
    ASSUME NullIsNoPair, IdentityInv, CapInv, NEW p \in Workers, Write(p),
           NEW c \in Stored(db', "counter") \ contended
    PROVE  Within(db', req', c)
  <1> DEFINE r == req[p]
             s == req'[p]
             u == Unit(p)
             after == db'
             later == req'
  <1>1. /\ Len(r.todo) \in Nat \ {0} /\ u = r.todo[1]
        /\ Len(s.todo) = Len(r.todo) - 1
        /\ \A i \in 1 .. Len(s.todo) : s.todo[i] = r.todo[i + 1] /\ i + 1 \in 1 .. Len(r.todo)
        /\ s.then = r.then
    BY WriterTodo
  <1>2. /\ c \in DOMAIN db /\ db[c].table = "counter"
        /\ c \notin DOMAIN u => after[c] = db[c]
    BY WriteCounters DEF Stored
  <1>3. after[c].tokens \in Nat /\ after[c].status # "absent"
    BY WriteCounters DEF CountersOK, Counts
  <1>4. ASSUME NEW q \in Workers \ {p}, c \in Stored(db, "counter"), q \in Done(db, req, c)
        PROVE  q \in Done(after, later, c)
    BY <1>4, WriteCountsOthers DEF Done
  <1>5. ASSUME c \in Stored(db, "counter"), ~Asks(db, r, c) PROVE ~Asks(after, s, c)
    BY <1>5, WriteCountsOwn
  <1>6. s = later[p] OBVIOUS
  <1>7. ASSUME c \in Stored(db, "counter")
        PROVE  Within(db, req, c) /\ db[c].tokens \in Nat
    BY <1>7 DEF CapInv, CountersOK, Counts
  <1>8. c \in DOMAIN u =>
            /\ CountOK(db, contended, now, r, 1, c) /\ c \in DOMAIN r.base
            /\ after[c].tokens = u[c].tokens
    BY <1>2, CounterWritten
  <1> HIDE DEF r, s, u, after, later
  <1>9. CASE c \notin DOMAIN u
    <2>1. after[c] = db[c] /\ c \in Stored(db, "counter") BY <1>2, <1>3, <1>9 DEF Stored
    <2>2. Adds(after, s, c) => Adds(db, r, c) BY <1>1, <2>1 DEF Adds
    <2>3. Done(db, req, c) \subseteq Done(after, later, c)
      <3>1. p \in Done(db, req, c) => p \in Done(after, later, c)
        BY <1>5, <1>6, <2>1, <2>2 DEF Done, r
      <3>2. \A q \in Done(db, req, c) : q \in Workers BY DEF Done
      <3> QED BY <1>4, <2>1, <3>1, <3>2
    <2>4. after[c].tokens =< db[c].tokens BY <1>3, <2>1
    <2>5. Within(after, later, c) BY <1>3, <1>7, <2>1, <2>3, <2>4, WithinStays
    <2> QED BY <2>5 DEF after, later
  <1>10. CASE c \in DOMAIN u /\ db[c].status = "absent"
    <2>1. u[c].tokens = 0 BY <1>1, <1>8, <1>10 DEF CountOK
    <2>2. after[c].tokens < Max(AllCaps) BY <1>8, <1>10, <2>1, CapNumbers
    <2>3. Within(after, later, c) BY <1>3, <2>2, WithinCap
    <2> QED BY <2>3 DEF after, later
  <1>11. CASE c \in DOMAIN u /\ db[c].status # "absent"
    <2>1. c \in Stored(db, "counter") BY <1>2, <1>11 DEF Stored
    <2>2. /\ Len(r.todo) = 1 /\ db[c].tokens =< u[c].tokens
          /\ u[c].tokens =< db[c].tokens + Max(Usages)
      BY <1>1, <1>8, <1>11 DEF CountOK
    <2>3. AskedOK(db, now, r) BY DEF CapInv, CountingOK, r
    <2>4. r.then # "answer" BY <1>8, <1>11, <2>2, <2>3 DEF AskedOK
    <2>5. Len(s.todo) = 0 /\ s.then # "answer" BY <1>1, <2>2, <2>4
    <2>6. p \in Done(after, later, c) BY <1>6, <2>5 DEF Done, Asks, Adds
    <2>7. Done(db, req, c) \subseteq Done(after, later, c)
      <3>1. \A q \in Done(db, req, c) : q \in Workers BY DEF Done
      <3> QED BY <1>4, <2>1, <2>6, <3>1
    <2>8. CASE u[c].tokens = db[c].tokens
      <3>1. after[c].tokens =< db[c].tokens BY <1>3, <1>8, <1>11, <2>8
      <3>2. Within(after, later, c) BY <1>3, <1>7, <2>1, <2>7, <3>1, WithinStays
      <3> QED BY <3>2 DEF after, later
    <2>9. CASE u[c].tokens # db[c].tokens
      <3>1. u[c].tokens > db[c].tokens BY <1>3, <1>7, <1>8, <1>11, <2>1, <2>2, <2>9
      <3>2. Adds(db, r, c) BY <1>1, <1>11, <3>1 DEF Adds
      <3>3. p \notin Done(db, req, c) BY <3>2 DEF Done, r
      <3>4. Done(db, req, c) # Done(after, later, c) BY <2>6, <3>3
      <3>5. after[c].tokens =< db[c].tokens + Max(Usages) BY <1>8, <1>11, <2>2
      <3>6. Within(after, later, c) BY <1>3, <1>7, <2>1, <2>7, <3>4, <3>5, WithinStays
      <3> QED BY <3>6 DEF after, later
    <2> QED BY <2>8, <2>9
  <1> QED BY <1>9, <1>10, <1>11

LEMMA WriteCounting ==
    ASSUME NullIsNoPair, IdentityInv, CapInv, NEW p \in Workers, Write(p)
    PROVE  CapInv'
  <1>1. now' = now /\ contended' = contended BY DEF Write
  <1>2. CountersOK(db', contended, now) BY WriteCounters
  <1>3. \A d \in IdsOf("counter")' : db'[d].status = "absent" => d \notin contended
    BY WriteCounters DEF IdsOf
  <1>4. \A q \in Workers : CountingOK(db', contended, now, req'[q])
    BY WriteCountsOthers, WriteCountsOwn
  <1>5. \A c \in Stored(db', "counter") \ contended : Within(db', req', c) BY WriteWithin
  <1> QED BY <1>1, <1>2, <1>3, <1>4, <1>5 DEF CapInv

LEMMA StartCounting == Start => IdentityInv /\ CapInv
  <1> SUFFICES ASSUME Start PROVE IdentityInv /\ CapInv OBVIOUS
  <1>1. IdentityInv BY StartOK
  <1>2. /\ db \in Scenes /\ now = 0 /\ contended = {} /\ \A p \in Workers : req[p] = Idle
    BY DEF Start
  <1>3. CountersOK(db, contended, now) BY <1>2, CopilotAssumption
  <1>4. Idle.then = "idle" /\ Idle.pc = "idle" /\ Len(Idle.todo) = 0
    <2>1. Idle.then = "idle" /\ Idle.pc = "idle" /\ Idle.todo = <<>> BY DEF Idle
    <2>2. Len(<<>>) = 0 OBVIOUS
    <2> HIDE DEF Idle
    <2> QED BY <2>1, <2>2
  <1> DEFINE r == Idle
  <1> HIDE DEF r
  <1>5. CountingOK(db, contended, now, r) BY <1>4 DEF CountingOK, AskedOK, r
  <1>6. \A p \in Workers : CountingOK(db, contended, now, req[p]) BY <1>2, <1>5 DEF r
  <1>7. ASSUME NEW c \in Stored(db, "counter") PROVE Within(db, req, c)
    <2>1. ~Asks(db, r, c) /\ ~Adds(db, r, c) BY <1>4 DEF Asks, Adds, r
    <2>2. Done(db, req, c) = Workers BY <1>2, <2>1 DEF Done, r
    <2>3. db[c].tokens < Max(AllCaps) + Cardinality(Workers) * Max(Usages)
      BY <1>2, CopilotAssumption
    <2> QED BY <2>2, <2>3 DEF Within
  <1> QED BY <1>1, <1>2, <1>3, <1>6, <1>7 DEF CapInv

LEMMA NextCounting ==
    ASSUME NullIsNoPair, IdentityInv, CapInv, [Next]_vars
    PROVE  CapInv'
  <1>1. ASSUME NEW p \in Workers, Statements(p) PROVE CapInv'
    BY <1>1, ReloadCounting, WriteCounting, LeaveCounting DEF Statements, Refused, Lost
  <1>2. ASSUME UNCHANGED vars PROVE CapInv'
    <2>1. UNCHANGED <<db, req, contended, now>> BY <1>2 DEF vars
    <2> QED BY <2>1 DEF CapInv, IdsOf
  <1> QED BY <1>1, <1>2, AuthAside, MembershipAside, TenantAside, CopilotCounting, TickCounting
          DEF Next, Quiet

\* CopilotService.ask: the counter of a day that no two requests had in hand passes the
\* highest cap by one answer for each worker at most, at midnight and with its plan or
\* its own cap changed as well, and nobody is refused for a cap that is not reached. Null is no pair, or the
\* unique index would not keep a second counter of a day out.
THEOREM CapNeverPassed == ASSUME NullIsNoPair PROVE Spec => []CapHolds
  <1>1. Start => IdentityInv /\ CapInv BY StartCounting
  <1>2. IdentityInv /\ CapInv /\ [Next]_vars => (IdentityInv /\ CapInv)'
    BY NextOK, NextCounting
  <1>3. IdentityInv /\ CapInv => CapHolds
    <2> SUFFICES ASSUME CapInv, NEW c \in Rows("counter") \ contended
                 PROVE  /\ db[c].tokens < Max(AllCaps) + Cardinality(Workers) * Max(Usages)
                        /\ Refuses(db[c])
      BY DEF CapHolds
    <2>1. c \in Stored(db, "counter") BY SameRows
    <2>2. Refuses(db[c]) /\ db[c].tokens \in Nat /\ Within(db, req, c)
      BY <2>1 DEF CapInv, CountersOK, Counts
    <2> DEFINE S == Done(db, req, c)
               m == Cardinality(S) * Max(Usages)
               n == Cardinality(Workers) * Max(Usages)
    <2>3. S \in SUBSET Workers BY DEF Done
    <2>4. db[c].tokens < Max(AllCaps) + m BY <2>2 DEF Within
    <2> HIDE DEF S
    <2>5. m \in Nat /\ n \in Nat /\ m =< n BY <2>3, Room
    <2>6. Max(AllCaps) \in Nat BY CapNumbers
    <2> HIDE DEF m, n
    <2>7. db[c].tokens < Max(AllCaps) + n BY <2>2, <2>4, <2>5, <2>6
    <2> QED BY <2>2, <2>7 DEF n
  <1> QED BY <1>1, <1>2, <1>3, PTL DEF Spec
=============================================================================
