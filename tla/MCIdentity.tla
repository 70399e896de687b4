----------------------------- MODULE MCIdentity -----------------------------
(***************************************************************************)
(* Identity and the assistant on small instances. A unit of the clock is  *)
(* as long as a lock lasts; an access token, a session and a day are       *)
(* shortened to two, one and one.                                          *)
(***************************************************************************)
EXTENDS Copilot

Next ==
    \/ \E p \in Workers : AuthStep(p) \/ MembershipStep(p) \/ TenantStep(p)
                          \/ CopilotStep(p) \/ Statements(p)
    \/ Tick
    \/ Quiet
Spec == Start /\ [][Next]_vars

MCCaps  == [x \in {"base", "enterprise"} |-> IF x = "base" THEN 1 ELSE 2]
MCPlans == [x \in {"base", "enterprise"} |-> IF x = "base" THEN 3 ELSE -1]

Unused(ids, t) == [d \in ids |-> Absent(t)]
Company(x)     == Only(x, Tenant(x, "base", None))
Anna           == [User("anna", "t1") EXCEPT !.hash = "k1", !.session = 0]
AnnasToken     == [table |-> "token", status |-> "given", user |-> "u1", tv |-> 0,
                   tenant |-> "t1", role |-> "admin", issuedAt |-> 0]

\* Anna signed in, nobody else; other people sign in.
SessionScene ==
    And(Only("u1", Anna), And(Only("k1", AnnasToken), Unused({"k2", "k3", "k4"}, "token")))
RegisterScene ==
    And(Company("t1"), Unused({"u1", "u2"}, "user"))
\* Anna works for t1 and is asked to work for t2, whose administrator is signed in.
MemberScene ==
    And(Only("u1", Anna), And(Only("k1", AnnasToken),
    And(Only("u2", [User("bruno", "t2") EXCEPT !.hash = "k2", !.session = 0]),
    And(Only("k2", [AnnasToken EXCEPT !.user = "u2", !.tenant = "t2"]),
        And(Unused({"k3"}, "token"), Unused({"m1"}, "membership"))))))
\* The same, Anna being a member already.
SwitchScene ==
    And(Only("m1", [table |-> "membership", status |-> "active", key |-> <<"t2", "u1">>,
                    tenant |-> "t2", user |-> "u1", role |-> "commercialista",
                    invitedAt |-> 0, consentedAt |-> 0, revokedAt |-> None]), MemberScene)
TenantScene ==
    And(Only("u1", Anna), And(Only("k1", AnnasToken), And(Company("t1"),
        And(Unused({"t3"}, "tenant"), Unused({"s1", "s2"}, "sso")))))
\* Anna's company has a bigger plan, and nothing is counted yet.
CopilotScene ==
    And(Only("u1", Anna), And(Only("k1", AnnasToken), And(Only("t1", Tenant("t1", "enterprise", None)),
        Unused({"d1", "d2", "d3"}, "counter"))))
MCScenes == {SessionScene, RegisterScene, MemberScene, SwitchScene, TenantScene, CopilotScene}
Perms == Permutations(Workers)
=============================================================================
