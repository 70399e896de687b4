------------------------------- MODULE Identity -------------------------------
(***************************************************************************)
(* Who may call, and for which tenant: AuthService (login, lock-out,       *)
(* registration, refresh tokens, logout), MembershipsService and the       *)
(* switch of tenant, SsoService, TenantsService, and the guards of the     *)
(* controllers. Every request but login, refresh, registration and SCIM    *)
(* carries an access token.                                                *)
(*                                                                         *)
(* A token row is no row of the database but what a client holds: it is    *)
(* "given" until the client uses it up (refresh), ends the session, or     *)
(* starts another, and "spent" from then on.                               *)
(***************************************************************************)
EXTENDS Requests, TLC

CONSTANTS
    MaxFailed,      \* MAX_FAILED_ATTEMPTS, 5 in the code
    LockedFor,      \* LOCKOUT_MINUTES on the model's clock
    SessionLasts,   \* SESSION_ABSOLUTE_MS on the model's clock
    AccessLasts,    \* JWT_ACCESS_TTL on the model's clock
    Emails,         \* addresses users may register with
    MemberRoles,    \* roles a member may be invited with
    Plans,          \* subscription plan -> its seats, DEFAULT_SEAT_LIMIT
    SeatLimits,     \* seats a tenant may be given by hand
    OwnCaps,        \* numbers that may stand in its settings as aiCopilot.dailyTokenCap
    VatNumbers      \* of the tenants that may be created

UserRoles    == {"admin", "manager", "operator", "viewer"}
TenantStatus == {"trial", "active", "past_due", "suspended", "cancelled"}

-----------------------------------------------------------------------------
(* Databases to start from.                                                *)

Shaped(row) ==
    /\ Rowed(row)
    /\ row.status # "absent" =>
        /\ row.table = "user" =>
               {"tenant", "hash", "tokenVersion", "failed", "lockedUntil"} \subseteq DOMAIN row
        /\ row.table = "token" => {"user", "tv", "tenant"} \subseteq DOMAIN row
        /\ row.table = "membership" =>
               {"key", "tenant", "user", "invitedAt", "consentedAt"} \subseteq DOMAIN row

Locks(u) == u.failed \in Nat /\ (u.lockedUntil # None <=> u.failed >= MaxFailed)

\* An active membership was consented to after the invitation, by `time`.
Joins(m, time) ==
    /\ m.invitedAt \in Nat /\ m.invitedAt <= time
    /\ m.status = "active" => m.consentedAt # None /\ m.consentedAt >= m.invitedAt

\* A user consented to a tenant, if the membership is not one of `hot`.
Agreed(rows, hot, tenant, u) ==
    \E m \in Stored(rows, "membership") :
        rows[m].key = <<tenant, u>> /\ (rows[m].consentedAt # None \/ m \in hot)

\* Users, memberships and tokens as they should be, but for the rows in `hot`.
RowsOK(rows, hot, time) ==
    /\ \A d \in DOMAIN rows : Shaped(rows[d])
    /\ \A u \in Stored(rows, "user") \ hot : Locks(rows[u])
    /\ \A m \in Stored(rows, "membership") :
        /\ rows[m].user \in Stored(rows, "user")
        /\ rows[m].key = <<rows[m].tenant, rows[m].user>>
        /\ m \notin hot => Joins(rows[m], time)
    /\ \A t \in Stored(rows, "token") :
        LET u == rows[t].user
        IN  /\ u \in Stored(rows, "user")
            /\ rows[t].tenant = rows[u].tenant \/ Agreed(rows, hot, rows[t].tenant, u)
            /\ rows[t].status = "spent" /\ u \notin hot => rows[u].hash # t

\* An account is locked after a miss at the earliest; null is no number and no id.
ASSUME IdentityAssumption ==
    /\ MaxFailed \in Nat \ {0} /\ LockedFor \in Nat
    /\ None \notin Nat

ASSUME ScenesAssumption ==
    \A scene \in Scenes : RowsOK(scene, {}, 0) /\ None \notin DOMAIN scene

-----------------------------------------------------------------------------
(* Entities.                                                               *)

User(email, tenant) ==
    [table |-> "user", status |-> "active", key |-> email, role |-> "admin",
     tenant |-> tenant, hash |-> None, tokenVersion |-> 0, failed |-> 0,
     lockedUntil |-> None, session |-> None]

\* The claims of a pair of tokens; its row's id is the jti.
Token(u, version, tenant, role) ==
    [table |-> "token", status |-> "given", user |-> u, tv |-> version,
     tenant |-> tenant, role |-> role, issuedAt |-> now]

Membership(tenant, u, role) ==
    [table |-> "membership", status |-> "pending", key |-> <<tenant, u>>, tenant |-> tenant,
     user |-> u, role |-> role, invitedAt |-> now, consentedAt |-> None, revokedAt |-> None]

\* `ownCap` is all that is read of the settings; None where they have no such number.
Tenant(vat, plan, own) ==
    [table |-> "tenant", status |-> "trial", key |-> vat, plan |-> plan, seats |-> Plans[plan],
     ownCap |-> own]

SsoConfig(tenant, protocol) ==
    [table |-> "sso", status |-> "pending", key |-> <<tenant, protocol>>, tenant |-> tenant,
     protocol |-> protocol, bearer |-> None, breakGlass |-> FALSE]

-----------------------------------------------------------------------------
(* Tokens and guards.                                                      *)

\* JwtStrategy: the access tokens that are accepted, whatever became of the session.
Callers == {s \in Rows("token") : now - db[s].issuedAt < AccessLasts}

\* TenantScopeGuard: every tenant a request names is the token's.
InScope(s, tenant) == db[s].tenant = tenant

\* RolesGuard: no handler that names no role is closed to anybody.
HasRole(s, required) == required = {} \/ db[s].role \in required

Expired(u) == db[u].session # None /\ now - db[u].session > SessionLasts

\* What refreshToken would do with a token: rotate it.
Works(t) ==
    LET u == db[t].user
    IN  db[u].hash = t /\ ~Expired(u) /\ db[t].tv = db[u].tokenVersion

\* The tokens of a user that a client may still count on, used up.
Spend(T) == [t \in {s \in T : db[s].status = "given"} |-> [db[t] EXCEPT !.status = "spent"]]
TokensOf(u) == {t \in Rows("token") : db[t].user = u}

-----------------------------------------------------------------------------
(* AuthService.                                                            *)

Register(p) ==
    /\ Free("user") # {}
    /\ \E email \in Emails, tenant \in Rows("tenant") :
        /\ \A u \in Rows("user") : db[u].key # email
        /\ LET u == New("user") IN Handle(p, {u}, <<Only(u, User(email, tenant))>>)

Unlocked(u) == db[u].lockedUntil # None => db[u].lockedUntil <= now

\* login with the wrong password.
LoginMissed(p) ==
    \E u \in Rows("user") :
        /\ Unlocked(u)
        /\ Handle(p, {u}, <<Only(u, [db[u] EXCEPT !.failed = @ + 1,
               !.lockedUntil = IF db[u].failed + 1 >= MaxFailed THEN now + LockedFor ELSE @])>>)

\* Mutant: the lock is not lifted with the count.
LoginKeepingLock(p) ==
    /\ Free("token") # {}
    /\ \E u \in Rows("user") :
        /\ Unlocked(u)
        /\ LET t == New("token")
           IN  Handle(p, {u, t},
                 <<And(Only(t, Token(u, db[u].tokenVersion, db[u].tenant, db[u].role)),
                   And(Spend(TokensOf(u)),
                       Only(u, [db[u] EXCEPT !.hash = t, !.failed = 0, !.session = now])))>>)

\* login with the right one.
Login(p) ==
    /\ Free("token") # {}
    /\ \E u \in Rows("user") :
        /\ Unlocked(u)
        /\ LET t == New("token")
           IN  Handle(p, {u, t},
                 <<And(Only(t, Token(u, db[u].tokenVersion, db[u].tenant, db[u].role)),
                   And(Spend(TokensOf(u)),
                       Only(u, [db[u] EXCEPT !.hash = t, !.failed = 0, !.lockedUntil = None,
                                             !.session = now])))>>)

\* refreshToken of a token too late or for a second time: update() ends the session.
RefreshEnds(p) ==
    \E t \in Rows("token") :
        LET u     == db[t].user
            ended == [hash |-> None, tokenVersion |-> db[u].tokenVersion + 1]
        IN  /\ db[u].hash # None
            /\ Expired(u) \/ db[t].tv # db[u].tokenVersion
            /\ Handle(p, {u}, <<And(Spend(TokensOf(u)),
                   Only(u, IF Expired(u) THEN And(ended, [session |-> None]) ELSE ended))>>)

\* Mutant: the new token's hash is not stored.
RefreshKeepingHash(p) ==
    /\ Free("token") # {}
    /\ \E t \in Rows("token") :
        /\ Works(t)
        /\ LET u == db[t].user
               n == New("token")
           IN  Handle(p, {u, n},
                 <<And(Only(n, Token(u, db[u].tokenVersion, db[u].tenant, db[u].role)),
                   And(Spend({t}), Only(u, db[u])))>>)

\* refreshToken of the last token given: the next one is for the home tenant.
Refresh(p) ==
    /\ Free("token") # {}
    /\ \E t \in Rows("token") :
        /\ Works(t)
        /\ LET u == db[t].user
               n == New("token")
           IN  Handle(p, {u, n},
                 <<And(Only(n, Token(u, db[u].tokenVersion + 1, db[u].tenant, db[u].role)),
                   And(Spend({t}),
                       Only(u, [db[u] EXCEPT !.tokenVersion = @ + 1, !.hash = n])))>>)

Logout(p) ==
    \E s \in Callers :
        LET u == db[s].user
        IN  Handle(p, {u}, <<And(Spend(TokensOf(u)),
                Only(u, [hash |-> None, tokenVersion |-> db[u].tokenVersion + 1]))>>)

-----------------------------------------------------------------------------
(* MembershipsService.                                                     *)

\* Mutant: somebody who was a member before is one at once.
InviteUnasked(p) ==
    \E s \in Callers, u \in Rows("user"), role \in MemberRoles :
        LET tenant == db[s].tenant
            known  == {m \in Rows("membership") : db[m].key = <<tenant, u>>}
        IN  /\ InScope(s, tenant)
            /\ IF known = {}
               THEN /\ Free("membership") # {}
                    /\ LET m == New("membership")
                       IN  Handle(p, {m}, <<Only(m, Membership(tenant, u, role))>>)
               ELSE \E m \in known :
                    /\ db[m].status = "revoked"
                    /\ Handle(p, {m}, <<Only(m, [db[m] EXCEPT !.status = "active", !.role = role,
                                                  !.invitedAt = now, !.revokedAt = None])>>)

\* invite: a new membership, or one that was revoked, pending again.
Invite(p) ==
    \E s \in Callers, u \in Rows("user"), role \in MemberRoles :
        LET tenant == db[s].tenant
            known  == {m \in Rows("membership") : db[m].key = <<tenant, u>>}
        IN  /\ InScope(s, tenant)
            /\ IF known = {}
               THEN /\ Free("membership") # {}
                    /\ LET m == New("membership")
                       IN  Handle(p, {m}, <<Only(m, Membership(tenant, u, role))>>)
               ELSE \E m \in known :
                    /\ db[m].status = "revoked"
                    /\ Handle(p, {m}, <<Only(m, [db[m] EXCEPT !.status = "pending", !.role = role,
                                                  !.invitedAt = now, !.revokedAt = None])>>)

Consent(p) ==
    \E s \in Callers, m \in Rows("membership") :
        /\ db[m].user = db[s].user /\ db[m].status = "pending"
        /\ Handle(p, {m}, <<Only(m, [db[m] EXCEPT !.status = "active", !.consentedAt = now])>>)

Revoke(p) ==
    \E s \in Callers, m \in Rows("membership") :
        /\ \/ db[m].user = db[s].user
           \/ db[m].tenant = db[s].tenant /\ HasRole(s, {"admin"})
        /\ db[m].status # "revoked"
        /\ Handle(p, {m}, <<Only(m, [db[m] EXCEPT !.status = "revoked", !.revokedAt = now])>>)

\* toUserRole.
Rendered(role) == IF role \in UserRoles THEN role ELSE "viewer"

\* switchTenant reads the membership; mintTokensForTenantSwitch reads the user
\* and gives tokens for the other tenant.
SwitchTenant(p) ==
    \/ /\ Free("token") # {}
       /\ \E s \in Callers, m \in Rows("membership") :
            /\ db[m].user = db[s].user /\ db[m].status = "active"
            /\ Begin(p, {m, New("token")}, <<>>, "mint")
    \/ \E m, n \in DOMAIN req[p].base :
        /\ db[m].table = "membership" /\ db[n].table = "token"
        /\ LET member == req[p].base[m]
               u      == member.user
               tv     == db[u].tokenVersion + 1
           IN  GoOn(p, "mint", {u},
                 <<And(Only(n, Token(u, tv, member.tenant, Rendered(member.role))),
                   And(Spend(TokensOf(u)),
                       Only(u, [db[u] EXCEPT !.tokenVersion = tv, !.session = now,
                                             !.hash = n])))>>, "idle")

-----------------------------------------------------------------------------
(* SsoService and TenantsService, for the caller's tenant.                 *)

ConfigOf(tenant, protocol) == {c \in Rows("sso") : db[c].key = <<tenant, protocol>>}

\* A configuration changed by f, or a new one with the change made.
Configure(p, tenant, protocol, f(_)) ==
    \/ \E c \in ConfigOf(tenant, protocol) : Handle(p, {c}, <<Only(c, f(db[c]))>>)
    \/ /\ ConfigOf(tenant, protocol) = {} /\ Free("sso") # {}
       /\ LET c == New("sso")
          IN  Handle(p, {c}, <<Only(c, f(SsoConfig(tenant, protocol)))>>)

UpsertSso(p) ==
    \E s \in Callers, protocol \in {"saml2", "scim2"} :
        Configure(p, db[s].tenant, protocol, LAMBDA c : c)

\* setBreakGlass.
SetBreakGlass(p) ==
    \E s \in Callers :
        Configure(p, db[s].tenant, "saml2", LAMBDA c : [c EXCEPT !.breakGlass = TRUE])

\* activate and pause.
SwitchSso(p) ==
    \E s \in Callers, c \in Rows("sso"), to \in {"active", "paused"} :
        /\ InScope(s, db[c].tenant)
        /\ Handle(p, {c}, <<Only(c, [db[c] EXCEPT !.status = to])>>)

\* rotateScimToken: the nth bearer is n.
RotateScimToken(p) ==
    \E s \in Callers, c \in Rows("sso") :
        /\ InScope(s, db[c].tenant) /\ db[c].protocol = "scim2"
        /\ Handle(p, {c}, <<Only(c, [db[c] EXCEPT !.bearer = IF @ = None THEN 1 ELSE @ + 1,
                                     !.status = IF @ = "pending" THEN "active" ELSE @])>>)

\* verifyScimToken. The SCIM handlers behind it answer without changing anything.
Verified(c, bearer) == db[c].status = "active" /\ db[c].bearer # None /\ db[c].bearer = bearer

CreateTenant(p) ==
    /\ Free("tenant") # {}
    /\ \E vat \in VatNumbers, plan \in DOMAIN Plans, own \in OwnCaps \cup {None} :
        /\ \A x \in Rows("tenant") : db[x].key # vat
        /\ LET x == New("tenant") IN Handle(p, {x}, <<Only(x, Tenant(vat, plan, own))>>)

\* updateForCaller: a plan comes with its own seats unless some are named (none is
\* as good as unnamed); seats, status and settings may be named without it.
UpdateTenant(p) ==
    \E s \in Callers, x \in Rows("tenant") :
        /\ InScope(s, x)
        /\ \/ \E plan \in DOMAIN Plans, seats \in SeatLimits \cup {0} :
                Handle(p, {x}, <<Only(x, [db[x] EXCEPT !.plan = plan,
                                     !.seats = IF seats = 0 THEN Plans[plan] ELSE seats])>>)
           \/ \E seats \in SeatLimits :
                Handle(p, {x}, <<Only(x, [db[x] EXCEPT !.seats = seats])>>)
           \/ \E to \in TenantStatus :
                Handle(p, {x}, <<Only(x, [db[x] EXCEPT !.status = to])>>)
           \/ \E own \in OwnCaps \cup {None} :
                Handle(p, {x}, <<Only(x, [db[x] EXCEPT !.ownCap = own])>>)

\* AuthController, MembershipsController, SsoController, TenantsController.
AuthStep(p)       == Register(p) \/ LoginMissed(p) \/ Login(p) \/ RefreshEnds(p) \/ Refresh(p) \/ Logout(p)
MembershipStep(p) == Invite(p) \/ Consent(p) \/ Revoke(p) \/ SwitchTenant(p)
TenantStep(p)     == UpsertSso(p) \/ SetBreakGlass(p) \/ SwitchSso(p) \/ RotateScimToken(p)
                     \/ CreateTenant(p) \/ UpdateTenant(p)

-----------------------------------------------------------------------------
(* What should hold of it.                                                 *)

\* A refresh token that was exchanged for another, or whose session was ended or
\* replaced, never works again ("second use of an already-used refresh token
\* rejects with 401"), whatever login, switch and logout come in between. The
\* save of an overlapping request can restore the old hash and version.
SpentTokensStaySpent ==
    \A t \in Rows("token") :
        db[t].status = "spent" /\ db[t].user \notin contended => ~Works(t)

\* An account is locked exactly from the last miss allowed to the next login,
\* the clock deciding when another may be tried.
LockedAfterMisses ==
    \A u \in Rows("user") \ contended :
        db[u].lockedUntil # None <=> db[u].failed >= MaxFailed

\* Nobody acts in a tenant that is not his own without having consented to it:
\* an active membership was consented to after the last invitation, and a token
\* for a foreign tenant needs one that was.
ConsentBeforeAccess ==
    /\ \A m \in Rows("membership") \ contended : db[m].status = "active" =>
            db[m].consentedAt # None /\ db[m].consentedAt >= db[m].invitedAt
    /\ \A t \in Rows("token") : db[t].tenant # db[db[t].user].tenant =>
            \E m \in Rows("membership") :
                /\ db[m].key = <<db[t].tenant, db[t].user>>
                /\ db[m].consentedAt # None \/ m \in contended
=============================================================================
