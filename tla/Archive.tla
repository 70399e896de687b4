------------------------------ MODULE Archive -------------------------------
(***************************************************************************)
(* The statutory archive (conservazione): the tier policy of a tenant's    *)
(* vendors, and ConservazioneOrchestrator.submit, which tries them in turn. *)
(* The adapters answer as the repository's do: Aruba's is not implemented, *)
(* InfoCert's answers in its sandbox only. Nothing of it is stored: a      *)
(* "document" row is what became of a call.                                *)
(***************************************************************************)
EXTENDS Requests

CONSTANTS
    Sandbox,        \* whether CONSERVAZIONE_INFOCERT_MODE leaves the sandbox on
    Vendors         \* vendor ids a tenant's settings may name

\* ConservazioneRegistry.
Registered == {"aruba", "infocert"}

\* What a tenant's settings say; `primary` is Aruba where they say nothing.
Settings(plan, primary, secondary, tertiary) ==
    [table |-> "settings", status |-> "active", plan |-> plan, primary |-> primary,
     secondary |-> secondary, tertiary |-> tertiary]

\* A call of submit.
Document(s) ==
    [table |-> "document", status |-> "pending", tried |-> <<>>, vendor |-> s.primary,
     failoverFrom |-> None, policy |-> None]

\* What a document tells of the call, once it is archived.
Tells(row) ==
    /\ {"tried", "vendor", "failoverFrom", "policy"} \subseteq DOMAIN row
    /\ row.status = "archived" =>
        LET n == Len(row.tried)
        IN  /\ row.tried[n] = row.vendor
            /\ row.failoverFrom = IF n = 1 THEN None ELSE row.tried[n - 1]
            /\ n <= IF row.policy = "single" THEN 1 ELSE IF row.policy = "dual" THEN 2 ELSE 3

ASSUME DocumentsAssumption ==
    \A scene \in Scenes : \A d \in Stored(scene, "document") : Tells(scene[d])

\* validateForTier.
ValidForTier(s) ==
    LET further == {s.secondary, s.tertiary} \ {None}
    IN  /\ {s.primary} \cup further \subseteq Registered
        /\ s.plan = "base" => further = {}
        /\ s.plan = "professionale" => s.tertiary = None
        /\ s.primary \notin further
        /\ s.secondary # None => s.secondary # s.tertiary

Policy(s) ==
    IF s.tertiary # None THEN "triple" ELSE IF s.secondary # None THEN "dual" ELSE "single"

\* send(), of ArubaConservazioneAdapter and InfoCertConservazioneAdapter: a
\* receipt, or NotImplementedException, whose status of 501 is a transient one.
Sends(vendor) == vendor = "infocert" /\ Sandbox
Transient(vendor) == ~Sends(vendor)

Tried(row) == [row EXCEPT !.tried = Append(@, row.vendor)]

\* The vendor to go to after one failed, as submitWithConfig has them: None ends.
NextVendor(s, vendor) ==
    IF ~Transient(vendor) \/ s.secondary = None THEN None
    ELSE IF vendor = s.primary THEN s.secondary
    ELSE IF vendor = s.secondary THEN s.tertiary ELSE None

\* Mutant: the receipt is tagged with the vendor that gave it.
TaggedWithItself(row, s, vendor) ==
    [row EXCEPT !.status = "archived", !.vendor = vendor, !.policy = Policy(s),
                !.tried = Append(@, vendor), !.failoverFrom = IF @ = None THEN None ELSE vendor]

\* tag.
Tagged(row, s, vendor) ==
    [row EXCEPT !.status = "archived", !.vendor = vendor, !.policy = Policy(s),
                !.tried = Append(@, vendor)]

\* submit: the settings are read and judged once; then one vendor after another
\* is called, each while other requests go on.
Submit(p) ==
    \/ /\ Free("document") # {}
       /\ \E s \in Rows("settings") :
            LET d == New("document")
            IN  /\ ValidForTier(db[s])
                /\ Begin(p, {d, s}, <<Only(d, Document(db[s]))>>, "call")
    \/ /\ req[p].pc = "call"
       /\ \E d, s \in DOMAIN req[p].base :
        /\ db[d].table = "document" /\ db[s].table = "settings"
        /\ LET config == req[p].base[s]
               row    == req[p].base[d]
               after  == NextVendor(config, row.vendor)
           IN  IF Sends(row.vendor)
               THEN GoOn(p, "call", {}, <<Only(d, Tagged(row, config, row.vendor))>>, "idle")
               ELSE IF after = None
               THEN GoOn(p, "call", {}, <<Only(d, [Tried(row) EXCEPT !.status = "failed"])>>, "idle")
               ELSE GoOn(p, "call", {}, <<Only(d, [Tried(row) EXCEPT !.failoverFrom = row.vendor,
                                                                    !.vendor = after])>>, "call")

\* The settings are saved with the tenant; nobody validates them then.
ChangeSettings(p) ==
    \E s \in Rows("settings"), primary \in Vendors, secondary, tertiary \in Vendors \cup {None} :
        Handle(p, {s}, <<Only(s, [db[s] EXCEPT !.primary = primary, !.secondary = secondary,
                                              !.tertiary = tertiary])>>)

-----------------------------------------------------------------------------
(* What should hold of it.                                                 *)

\* The receipt of an archived document tells the story of the call: the vendor
\* that gave it was tried last, the one it failed over from just before, and
\* never more vendors than the tier's policy allows, whatever the settings
\* become meanwhile.
ReceiptTellsFailover ==
    \A d \in Rows("document") : Tells(db[d])
=============================================================================
