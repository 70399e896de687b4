------------------------------ MODULE Copilot ------------------------------
(***************************************************************************)
(* CopilotService: a turn of the assistant is admitted while the tokens of *)
(* the tenant's day are below its cap, sent to the model, and its usage    *)
(* added to the counter of the day on which the answer comes. Input and    *)
(* output tokens are counted together, a day is a unit of the clock.       *)
(***************************************************************************)
EXTENDS Identity, FiniteSetsExt

CONSTANTS
    Caps,           \* subscription plan -> tokens a day, DEFAULT_DAILY_TOKEN_CAP
    Usages          \* tokens a turn may take

-----------------------------------------------------------------------------
(* Databases to start from.                                                *)

\* A counter, of some day until `time`.
Counts(row, time) ==
    /\ {"table", "status", "key", "tokens", "refusedFor"} \subseteq DOMAIN row
    /\ row.status # "absent"
    /\ row.key = <<row.key[1], row.key[2]>> /\ row.key[2] \in 0 .. time
    /\ row.tokens \in Nat

AllCaps == {Caps[plan] : plan \in DOMAIN Caps} \cup OwnCaps

\* Of the caps turns of the day were refused for, the least is reached.
Refuses(row) == row.refusedFor # None => row.refusedFor \in Int /\ row.tokens >= row.refusedFor

Planned(row) ==
    /\ {"plan", "ownCap"} \subseteq DOMAIN row
    /\ row.plan \in DOMAIN Caps /\ row.ownCap \in OwnCaps \cup {None}

\* Tenants and counters as they should be, but for the rows in `hot`: one counter
\* for a tenant and a day.
CountersOK(rows, hot, time) ==
    /\ \A x \in Stored(rows, "tenant") : Planned(rows[x])
    /\ \A c \in Stored(rows, "counter") :
        /\ Counts(rows[c], time)
        /\ c \notin hot => Refuses(rows[c])
        /\ \A d \in Stored(rows, "counter") : rows[d].key = rows[c].key => d = c

\* Every plan has a cap, and so has a tenant that is not found; a tenant's own may be
\* any number, nothing and less than nothing included. Caps and usages have a
\* greatest. What is counted at the start is as CapHolds has it: the process may
\* have been restarted since.
ASSUME CopilotAssumption ==
    /\ IsFiniteSet(Workers)
    /\ "base" \in DOMAIN Caps /\ DOMAIN Plans \subseteq DOMAIN Caps
    /\ \A plan \in DOMAIN Caps : Caps[plan] \in Nat \ {0}
    /\ OwnCaps \subseteq Int /\ Usages \subseteq Nat
    /\ \E cap \in AllCaps : \A other \in AllCaps : cap >= other
    /\ \E used \in Usages : \A other \in Usages : used >= other
    /\ \A scene \in Scenes :
        /\ CountersOK(scene, {}, 0)
        /\ \A c \in Stored(scene, "counter") :
            scene[c].tokens < Max(AllCaps) + Cardinality(Workers) * Max(Usages)

-----------------------------------------------------------------------------
(* CopilotService.                                                         *)

\* `refusedFor` is no column: the least cap for which a turn was refused.
Counter(tenant) ==
    [table |-> "counter", status |-> "stored", key |-> <<tenant, now>>, tokens |-> 0,
     turnsCount |-> 0, capRejectionsCount |-> 0, refusedFor |-> None]

\* dailyCounter: today's counter of a tenant as it is stored, or with zeros, to be
\* saved in a transaction of its own.
DailyCounter(tenant) ==
    LET today == {c \in Rows("counter") : db[c].key = <<tenant, now>>}
        fresh == Counter(tenant)
    IN  IF today # {} THEN {[id |-> c, row |-> db[c], created |-> <<>>] : c \in today}
        ELSE {[id |-> c, row |-> fresh, created |-> <<Only(c, fresh)>>] :
                 c \in {x \in Free("counter") : x = New("counter")}}

\* resolveDailyCap: a number in the tenant's settings goes before its plan.
CapOf(tenant) ==
    CASE tenant \notin Rows("tenant")   -> Caps["base"]
      [] tenant \in Rows("tenant") /\ db[tenant].ownCap # None -> db[tenant].ownCap
      [] tenant \in Rows("tenant") /\ db[tenant].ownCap = None -> Caps[db[tenant].plan]

\* Mutant: the cap itself is still admitted.
SpentAbove(tokens, cap) == tokens > cap

Spent(tokens, cap) == tokens >= cap

-----------------------------------------------------------------------------

\* GET cost/today; it saves something for a day without a counter only.
ShowUsage(p) ==
    \E s \in Callers : \E c \in DailyCounter(db[s].tenant) :
        c.created # <<>> /\ Handle(p, {c.id}, c.created)

\* What is saved when the row of counter `c` has changed.
Changed(c, row) == Append(c.created, Only(c.id, row))

\* A counter with one more turn refused.
TurnedAway(row, cap) ==
    [row EXCEPT !.capRejectionsCount = @ + 1,
                !.refusedFor = IF @ # None /\ @ < cap THEN @ ELSE cap]

\* ask, assertWithinCap: refused and counted as such, or sent to the model.
Ask(p) ==
    \E s \in Callers : \E c \in DailyCounter(db[s].tenant) :
        LET cap == CapOf(db[s].tenant)
        IN  IF Spent(c.row.tokens, cap) THEN Handle(p, {c.id}, Changed(c, TurnedAway(c.row, cap)))
            ELSE Begin(p, {c.id}, c.created, "answer")

\* recordUsage: the model has answered, on this day or the next.
RecordUsage(p) ==
    /\ req[p].pc = "answer"
    /\ \E asked \in DOMAIN req[p].base, used \in Usages :
        \E c \in DailyCounter(req[p].base[asked].key[1]) :
            GoOn(p, "answer", {c.id},
                 Changed(c, [c.row EXCEPT !.tokens = @ + used, !.turnsCount = @ + 1]), "idle")

\* The model fails, and with it the turn.
AnswerFails(p) == req[p].pc = "answer" /\ Leave(p)

\* CopilotController; the evaluation asks several times.
CopilotStep(p) == ShowUsage(p) \/ Ask(p) \/ RecordUsage(p) \/ AnswerFails(p)

-----------------------------------------------------------------------------
(* What should hold of it.                                                 *)

\* "The cost-cap guard can short-circuit further calls when the daily ceiling is
\* exceeded": the counter of a day that no two requests had in hand passes the
\* highest cap a tenant may have, of a plan or its own, by one answer, and by one
\* more for each turn of the day before that was being answered at midnight; and
\* nobody is refused for a cap, however low it was set, that the day's tokens do
\* not reach.
CapHolds ==
    \A c \in Rows("counter") \ contended :
        /\ db[c].tokens < Max(AllCaps) + Cardinality(Workers) * Max(Usages)
        /\ Refuses(db[c])
=============================================================================
