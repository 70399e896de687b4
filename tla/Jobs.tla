-------------------------------- MODULE Jobs --------------------------------
(***************************************************************************)
(* The background queues: the producers that add jobs, the workers that    *)
(* run them and the processors of each queue. Adding, retrying, removing   *)
(* and finding stalled jobs is BullMQ, as QueuesModule configures it. The  *)
(* rows are Redis's, and a worker that is lost leaves its job "active".    *)
(***************************************************************************)
EXTENDS Requests

CONSTANTS
    Tasks,          \* what may be asked for: [queue, name, of]
    Configured      \* whether the SDI intermediary is

-----------------------------------------------------------------------------
(* Jobs.                                                                   *)

Attempts    == 3    \* defaultJobOptions
StallsLimit == 1    \* maxStalledCount

\* `round` tells jobs apart whose id holds the time; None where it does not.
Job(task, round) ==
    [table |-> "job", status |-> "waiting", key |-> <<task, round>>, task |-> task,
     attemptsMade |-> 0, stalls |-> 0]

Ended(j) == db[j].status \in {"completed", "failed"}

\* The jobs that have the time they were asked for in their id.
Dated(task) == task.queue = "report" \/ task.name \in {"poll-receipt", "poll-mailbox"}

\* A job as it should be, and the jobs of a database, of different ids.
Counted(row) ==
    /\ {"key", "task", "attemptsMade", "stalls"} \subseteq DOMAIN row
    /\ row.attemptsMade \in Nat /\ row.stalls \in Nat
    /\ ~Dated(row.task) => row.key = <<row.task, None>>
    /\ row.status \in {"waiting", "active"} => row.attemptsMade < Attempts
    /\ row.status = "failed" => row.attemptsMade = Attempts \/ row.stalls > StallsLimit

OfTheirOwn(rows) == \A i, j \in Stored(rows, "job") : i # j => rows[i].key # rows[j].key

\* An id is not null.
ASSUME JobsAssumption ==
    /\ \A task \in Tasks, round \in (0 .. MaxCalls) \cup {None} : <<task, round>> # None
    /\ \A scene \in Scenes :
        /\ \A j \in Stored(scene, "job") : Counted(scene[j])
        /\ OfTheirOwn(scene)

-----------------------------------------------------------------------------
(* Producers.                                                              *)

\* Mutant: every job has an id of its own.
EnqueueAlways(p) ==
    /\ Free("job") # {}
    /\ \E task \in Tasks :
        LET j == New("job") IN Handle(p, {j}, <<Only(j, Job(task, calls))>>)

\* add() of an id that is there already adds nothing.
Enqueue(p) ==
    /\ Free("job") # {}
    /\ \E task \in Tasks :
        LET j     == New("job")
            round == IF Dated(task) THEN calls ELSE None
        IN  /\ \A x \in Rows("job") : db[x].key # <<task, round>>
            /\ Handle(p, {j}, <<Only(j, Job(task, round))>>)

-----------------------------------------------------------------------------
(* Workers.                                                                *)

\* A worker takes a job; Redis does it in one step.
Take(p) ==
    \E j \in Rows("job") :
        /\ ~Busy(p) /\ db[j].status = "waiting" /\ Settled(j)
        /\ LET taken == [db[j] EXCEPT !.status = "active"]
           IN  /\ db' = [db EXCEPT ![j] = taken]
               /\ req' = [req EXCEPT ![p] = At(Only(j, taken), <<>>, "run")]
        /\ UNCHANGED <<now, contended, cut, calls>>

ReportTypes == {"iva-liquidation", "sales-by-customer", "stock-status"}

\* EndOfDayProcessor and ReportGenerationProcessor query the database, which may
\* fail; a report of another name always fails.
Queried(task) == IF task.queue = "report" /\ task.name \notin ReportTypes THEN {FALSE} ELSE BOOLEAN

\* InvoiceSdiProcessor: NotConfiguredError without the intermediary.
Submitted == {Configured}

\* PayrollBatchProcessor always fails, PecIngestProcessor skips its poll.
Processed(task) ==
    IF task.queue \in {"end-of-day", "report"} THEN Queried(task)
    ELSE IF task.queue = "invoice-sdi" THEN Submitted
    ELSE IF task.queue = "payroll" THEN {FALSE} ELSE {TRUE}

\* Mutant: a failed attempt is not counted.
AfterwardsUncounted(row, succeeded) ==
    IF succeeded THEN [row EXCEPT !.status = "completed"]
    ELSE [row EXCEPT !.status = "waiting"]

\* The job after an attempt: tried again, with a delay, until the third fails.
Afterwards(row, succeeded) ==
    IF succeeded THEN [row EXCEPT !.status = "completed"]
    ELSE [row EXCEPT !.attemptsMade = @ + 1,
                     !.status = IF row.attemptsMade + 1 < Attempts THEN "waiting" ELSE "failed"]

\* The processor of the job's queue runs and the worker tells BullMQ.
Process(p) ==
    /\ req[p].pc = "run"
    /\ \E j \in DOMAIN req[p].base : \E succeeded \in Processed(req[p].base[j].task) :
        db' = [db EXCEPT ![j] = Afterwards(req[p].base[j], succeeded)]
    /\ req' = [req EXCEPT ![p] = Idle]
    /\ UNCHANGED <<now, contended, cut, calls>>

\* A job whose worker is gone is put back once, then given up.
Stalled(j) ==
    /\ db[j].table = "job" /\ db[j].status = "active" /\ Settled(j)
    /\ db' = [db EXCEPT ![j].stalls = @ + 1,
                        ![j].status = IF db[j].stalls < StallsLimit THEN "waiting" ELSE "failed"]
    /\ UNCHANGED <<req, now, contended, cut, calls>>

\* removeOnComplete, removeOnFail: an ended job is forgotten after a while.
Forget(j) ==
    /\ db[j].table = "job" /\ Ended(j) /\ Settled(j)
    /\ db' = [db EXCEPT ![j] = Absent("job")]
    /\ UNCHANGED <<req, now, contended, cut, calls>>

-----------------------------------------------------------------------------
(* What should hold of it.                                                 *)

\* One job for one purpose: while a job is known, asking again for the payroll of
\* a period, the end of a day or the submission of an invoice adds no second one,
\* and a job has not failed before it was tried three times or its workers died
\* twice. Once it is forgotten, it can be asked for again. A report is made as
\* often as it is asked for, as the time is in its id.
AskedOnce ==
    /\ \A task \in Tasks : ~Dated(task) =>
            Cardinality({j \in Rows("job") : db[j].task = task}) <= 1
    /\ \A j \in Rows("job") : db[j].status = "failed" =>
            db[j].attemptsMade = Attempts \/ db[j].stalls > StallsLimit

Pending(j) == j \in Rows("job") /\ ~Ended(j)

\* Every job ends, completed or failed, even if all its workers die.
JobsEnd == \A j \in Ever("job") : Pending(j) ~> ~Pending(j)
=============================================================================
