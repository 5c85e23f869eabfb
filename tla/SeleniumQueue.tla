---------------------------- MODULE SeleniumQueue ----------------------------
(* The priority queue of the browser crawlers and its only worker             *)
(* (scheduler.py).  Cron jobs enqueue a bank unless it runs or waits; the     *)
(* worker runs one subprocess at a time and puts a failed first attempt back; *)
(* the health check replaces a worker whose job is overdue; shutdown sets a   *)
(* flag early and joins the worker late.  Every step is what one coroutine    *)
(* does between two awaits.                                                   *)
EXTENDS Integers, FiniteSets

CONSTANTS
    Bank,       \* the banks crawled with a browser
    SoftLimit,  \* length at which enqueue refuses: 20
    Capacity,   \* maxsize of the queue: 25
    NoBank

VARIABLES
    queue,      \* the waiting items: bank, is_retry
    worker,     \* the task selenium_worker_task refers to
    current,    \* selenium_worker_current_job
    health,     \* check_worker_health: "idle", "joining"
    orphans,    \* banks whose subprocess outlived its cancelled job
    ending      \* "no", "signalled", "joining", "down"

seleniumVars == <<queue, worker, current, health, orphans, ending>>

Item == [bank : Bank, retry : BOOLEAN]
Waiting == [at |-> "get"]
Ended == [at |-> "ended"]
On(i, at) == [at |-> at, item |-> i, overdue |-> FALSE]

\* The bank runs, or waits in the queue.
Busy(b) == current = b \/ \E i \in queue : i.bank = b

HasRoom == Cardinality(queue) < SoftLimit

\* enqueue_selenium_job, from a cron job.
Enqueue(b) ==
    /\ ending # "down"
    /\ ~Busy(b)
    /\ HasRoom
    /\ queue' = queue \cup {[bank |-> b, retry |-> FALSE]}
    /\ UNCHANGED <<worker, current, health, orphans, ending>>

\* get(): retries sort behind every first attempt (priority + 1000).
Take(i) ==
    /\ worker = Waiting
    /\ i \in queue
    /\ i.retry => \A j \in queue : j.retry
    /\ queue' = queue \ {i}
    /\ worker' = On(i, "running")
    /\ current' = i.bank
    /\ UNCHANGED <<health, orphans, ending>>

\* The subprocess has run for longer than 60 s: a kill or a read that hangs.
Overruns ==
    /\ worker.at = "running" /\ ~worker.overdue
    /\ worker' = [worker EXCEPT !.overdue = TRUE]
    /\ UNCHANGED <<queue, current, health, orphans, ending>>

Settled ==
    /\ worker.at = "running"
    /\ current' = NoBank

\* The subprocess exits with 0, or its second attempt fails.
Finishes ==
    /\ Settled
    /\ worker' = Waiting
    /\ UNCHANGED <<queue, health, orphans, ending>>

\* A failed first attempt.  On a full queue put() would wait for room, for ever:
\* nobody else takes from the queue.
Fails ==
    /\ Settled
    /\ ~worker.item.retry
    /\ IF Cardinality(queue) < Capacity
       THEN /\ queue' = queue \cup {[worker.item EXCEPT !.retry = TRUE]}
            /\ worker' = Waiting
       ELSE /\ worker' = On(worker.item, "putting")
            /\ UNCHANGED queue
    /\ UNCHANGED <<health, orphans, ending>>

\* CancelledError reaches the worker: the item is gone, the subprocess is not
\* killed (execute_with_timeout catches TimeoutError and Exception only).
CancelLands ==
    /\ worker.at = "cancelling"
    /\ worker' = Ended
    /\ current' = NoBank
    /\ UNCHANGED <<queue, health, orphans, ending>>

Cancelled ==
    IF worker.at \in {"ended", "cancelling"}
    THEN UNCHANGED <<worker, orphans>>
    ELSE /\ worker' = [at |-> "cancelling"]
         /\ orphans' = IF worker.at = "running" THEN orphans \cup {worker.item.bank}
                                                ELSE orphans

OrphanExits(b) ==
    /\ b \in orphans
    /\ orphans' = orphans \ {b}
    /\ UNCHANGED <<queue, worker, current, health, ending>>

\* check_worker_health up to the join of the overdue worker.
HealthCancels ==
    /\ health = "idle"
    /\ ending = "no"
    /\ current # NoBank
    /\ worker.at = "running" /\ worker.overdue
    /\ Cancelled
    /\ health' = "joining"
    /\ UNCHANGED <<queue, current, ending>>

MayRestart_Unchecked == TRUE

MayRestart == ending = "no"

\* The join returned; shutdown may have begun meanwhile.
HealthResumes ==
    /\ health = "joining" /\ worker = Ended
    /\ health' = "idle"
    /\ IF MayRestart THEN worker' = Waiting /\ current' = NoBank
                     ELSE UNCHANGED <<worker, current>>
    /\ UNCHANGED <<queue, orphans, ending>>

\* signal_collector_shutdown_initiated; the clients of the exchanges close next.
Signal ==
    /\ ending = "no"
    /\ ending' = "signalled"
    /\ UNCHANGED <<queue, worker, current, health, orphans>>

\* shutdown_selenium_queue cancels the worker and joins it.
ShutdownCancels ==
    /\ ending = "signalled"
    /\ ending' = "joining"
    /\ Cancelled
    /\ UNCHANGED <<queue, current, health>>

ShutdownJoins ==
    /\ ending = "joining" /\ worker = Ended
    /\ ending' = "down"
    /\ UNCHANGED <<queue, worker, current, health, orphans>>

\* init_selenium_queue.
Init ==
    /\ queue = {} /\ worker = Waiting /\ current = NoBank
    /\ health = "idle" /\ orphans = {} /\ ending = "no"

Next ==
    \/ \E b \in Bank : Enqueue(b) \/ OrphanExits(b)
    \/ \E i \in Item : Take(i)
    \/ Overruns \/ Finishes \/ Fails \/ CancelLands
    \/ HealthCancels \/ HealthResumes
    \/ Signal \/ ShutdownCancels \/ ShutdownJoins

-----------------------------------------------------------------------------
\* The only consumer never waits for room in the queue that only it empties
\* (scheduler.py:595): with SoftLimit < Capacity the refusals of enqueue leave
\* room for the one retry the worker may owe.
RetryNeverBlocks == worker.at # "putting"

\* A bank is at one place only, waiting or running: its retry never meets a
\* fresh job of the same bank, and two attempts never follow from one failure.
OneJobPerBank ==
    \A i \in queue :
        /\ \A j \in queue : i.bank = j.bank => i = j
        /\ worker.at = "running" => worker.item.bank # i.bank

\* Once shutdown has joined the worker none is left, though the health check
\* was waiting for the same worker to end (scheduler.py:1853-1859).
NoWorkerAfterShutdown == ending = "down" => worker = Ended

\* The queue holds what enqueue and the worker owe it, and ends with its worker.
QueueSound == RetryNeverBlocks /\ OneJobPerBank /\ NoWorkerAfterShutdown
=============================================================================
