----------------------------- MODULE MCDelivery -----------------------------
(***************************************************************************)
(* Webhooks, jobs and the statutory archive on small instances: what leaves *)
(* the backend or is done later. A worker and Redis go on by themselves.   *)
(***************************************************************************)
EXTENDS Webhooks, Jobs, Archive

Worked(p) == Deliver(p) \/ Record(p) \/ Take(p) \/ Process(p)

Next ==
    \/ \E p \in Workers : \/ WebhookStep(p) \/ Enqueue(p) \/ Submit(p) \/ ChangeSettings(p)
                          \/ Worked(p) \/ Statements(p)
    \/ \E j \in DOMAIN db : Stalled(j) \/ Forget(j)
    \/ Quiet

Answer(status, retryAfter) == [status |-> status, error |-> None, retryAfter |-> retryAfter]
MCAnswers ==
    {Answer(200, None), Answer(410, None), Answer(503, None), Answer(429, 0), Answer(429, 99999)}

MCTasks ==
    {[queue |-> "end-of-day", name |-> "close-day", of |-> "t1"],
     [queue |-> "report", name |-> "stock-status", of |-> "t1"],
     [queue |-> "invoice-sdi", name |-> "poll-receipt", of |-> "i1"]}

Unused(ids, t) == [d \in ids |-> Absent(t)]
DeliveryScene ==
    And(Only("s1", Subscription), And(Only("d1", Delivery("s1")), Unused({"s2"}, "subscription")))
JobScene      == Unused({"j1", "j2"}, "job")
ArchiveScene  ==
    And(Unused({"a1"}, "document"), Only("c1", Settings("enterprise", "aruba", "infocert", None)))
MCScenes == {DeliveryScene, JobScene, ArchiveScene}

\* A worker that is up takes what there is to do and finishes what it has begun;
\* BullMQ looks for stalled jobs every 30 seconds.
Fairness ==
    /\ \A p \in Workers : WF_vars(Worked(p) \/ Reload(p) \/ Write(p) \/ Refused(p))
    /\ \A j \in Ever("job") : WF_vars(j \in DOMAIN db /\ Stalled(j))

Spec == Start /\ [][Next]_vars /\ Fairness
=============================================================================
