------------------------------ MODULE Webhooks ------------------------------
(***************************************************************************)
(* WebhooksService, the subscriptions of a tenant; dispatchOnce and        *)
(* decideRetry, one attempt to deliver an event and what comes of it. The  *)
(* worker that calls them, keeps the attempts and waits between them is    *)
(* not in the repository: Deliver and Record are what dispatchOnce asks of *)
(* its caller. Times are seconds.                                          *)
(***************************************************************************)
EXTENDS Requests

CONSTANT Answers    \* what an endpoint may answer: [status, error, retryAfter]

\* The seconds of Retry-After, if it says any.
ASSUME AnswersAssumption == \A answer \in Answers : answer.retryAfter \in Int \cup {None}

-----------------------------------------------------------------------------
(* Entities.                                                               *)

Subscription == [table |-> "subscription", status |-> "active", disabledAt |-> None]

\* An outbox event on its way to a subscription, with its attempts so far.
Delivery(s) ==
    [table |-> "delivery", status |-> "due", subscription |-> s, attempts |-> 0,
     outcome |-> None]

-----------------------------------------------------------------------------
(* RetryPolicy.                                                            *)

MaxAttempts   == 6
BaseDelays    == <<0, 30, 300, 1800, 7200, 21600>>

ClassifyHttpStatus(status) ==
    IF status = None THEN "unknown"
    ELSE IF status = 410 THEN "gone_410"
    ELSE IF status = 404 THEN "not_found_404"
    ELSE IF status = 429 THEN "rate_limited_429"
    ELSE IF status \in 200 .. 299 THEN "success_2xx"
    ELSE IF status \in 400 .. 499 THEN "client_4xx"
    ELSE IF status \in 500 .. 599 THEN "server_5xx"
    ELSE "unknown"

Outcome(answer) ==
    IF answer.error # None THEN answer.error ELSE ClassifyHttpStatus(answer.status)

\* Mutant: what Retry-After asks for is not raised to a second.
ClampedAbove(seconds) == IF seconds > 1800 THEN 1800 ELSE seconds

\* Retry-After, one second at least and half an hour at most.
Clamped(seconds) ==
    IF seconds < 1 THEN 1 ELSE IF seconds > 1800 THEN 1800 ELSE seconds

\* decideRetry, after the nth attempt, without the jitter that only adds.
DecideRetry(n, outcome, retryAfter) ==
    IF outcome = "success_2xx" THEN [action |-> "retry", delay |-> 0]
    ELSE IF outcome \in {"gone_410", "not_found_404"}
    THEN [action |-> "disable_subscription", delay |-> 0]
    ELSE IF n >= MaxAttempts THEN [action |-> "dlq", delay |-> 0]
    ELSE IF outcome = "rate_limited_429" /\ retryAfter # None
    THEN [action |-> "retry", delay |-> Clamped(retryAfter)]
    ELSE [action |-> "retry", delay |-> BaseDelays[n + 1]]

\* A delivery as it should be, by what became of it.
Explained(row) ==
    /\ {"subscription", "attempts", "outcome"} \subseteq DOMAIN row
    /\ row.attempts \in 0 .. MaxAttempts
    /\ row.status = "delivered" <=> row.outcome = "success_2xx"
    /\ row.status = "dlq" => row.attempts = MaxAttempts
    /\ row.status = "stopped" => row.outcome \in {"gone_410", "not_found_404"}
    /\ row.status = "due" => row.attempts < MaxAttempts

ASSUME DeliveriesAssumption ==
    \A scene \in Scenes : \A d \in Stored(scene, "delivery") :
        Explained(scene[d]) /\ scene[d].subscription \in Stored(scene, "subscription")

-----------------------------------------------------------------------------
(* The management API.                                                     *)

CreateSubscription(p) ==
    /\ Free("subscription") # {}
    /\ LET s == New("subscription") IN Handle(p, {s}, <<Only(s, Subscription)>>)

PauseSubscription(p) ==
    \E s \in Rows("subscription") :
        Handle(p, {s}, <<Only(s, [db[s] EXCEPT !.status = "paused"])>>)

\* resume, whatever the status was.
ResumeSubscription(p) ==
    \E s \in Rows("subscription") :
        Handle(p, {s}, <<Only(s, [db[s] EXCEPT !.status = "active", !.disabledAt = None])>>)

Disabled(row) == [row EXCEPT !.status = "disabled", !.disabledAt = now]

DisableSubscription(p) ==
    \E s \in Rows("subscription") : Handle(p, {s}, <<Only(s, Disabled(db[s]))>>)

\* WebhooksController.
WebhookStep(p) ==
    \/ CreateSubscription(p) \/ PauseSubscription(p)
    \/ ResumeSubscription(p) \/ DisableSubscription(p)

-----------------------------------------------------------------------------
(* Deliveries.                                                             *)

\* The worker takes a delivery that is due, to a subscription that is active.
Deliver(p) ==
    \E d \in Rows("delivery") :
        /\ db[d].status = "due" /\ Settled(d)
        /\ db[db[d].subscription].status = "active"
        /\ GoOn(p, "idle", {d}, <<>>, "send")

\* The fate of a delivery after an attempt; a delay of nothing means done.
Fate(next) ==
    IF next.action = "dlq" THEN "dlq"
    ELSE IF next.action = "disable_subscription" THEN "stopped"
    ELSE IF next.delay = 0 THEN "delivered" ELSE "due"

\* Mutant: an attempt that is retried is not counted.
RecordUncounted(p) ==
    /\ req[p].pc = "send"
    /\ \E d \in DOMAIN req[p].base, answer \in Answers :
        LET row  == req[p].base[d]
            s    == row.subscription
            next == DecideRetry(row.attempts + 1, Outcome(answer), answer.retryAfter)
            told == [row EXCEPT !.outcome = Outcome(answer), !.status = Fate(next)]
        IN  GoOn(p, "send", {s},
                 <<IF Fate(next) = "stopped" THEN And(Only(d, told), Only(s, Disabled(db[s])))
                   ELSE Only(d, told)>>, "idle")

\* dispatchOnce, and its caller that keeps the attempt and does what is next.
Record(p) ==
    /\ req[p].pc = "send"
    /\ \E d \in DOMAIN req[p].base, answer \in Answers :
        LET row  == req[p].base[d]
            s    == row.subscription
            next == DecideRetry(row.attempts + 1, Outcome(answer), answer.retryAfter)
            told == [row EXCEPT !.attempts = @ + 1, !.outcome = Outcome(answer),
                                !.status = Fate(next)]
        IN  GoOn(p, "send", {s},
                 <<IF Fate(next) = "stopped" THEN And(Only(d, told), Only(s, Disabled(db[s])))
                   ELSE Only(d, told)>>, "idle")

-----------------------------------------------------------------------------
(* What should hold of it.                                                 *)

\* A delivery is told to be done exactly when its endpoint accepted the event:
\* `retry` with no delay stands for success and nothing else yields it, whatever
\* Retry-After asks for. It is given up after six failures and no earlier.
FateExplained ==
    \A d \in Rows("delivery") :
        /\ db[d].status = "delivered" <=> db[d].outcome = "success_2xx"
        /\ db[d].status = "dlq" => db[d].attempts = MaxAttempts
        /\ db[d].status = "stopped" => db[d].outcome \in {"gone_410", "not_found_404"}
        /\ db[d].attempts <= MaxAttempts

Due(d) == d \in Rows("delivery") /\ db[d].status = "due"

\* An event is delivered, given up or refused for good in the end, unless its
\* subscription is not active or the worker dies over it.
DeliveriesEnd ==
    \A d \in Ever("delivery") : Due(d) ~>
        (Due(d) => db[db[d].subscription].status # "active" \/ d \in cut)
=============================================================================
