------------------------------ MODULE AuthExecutor -----------------------------
(***************************************************************************)
(* One lane of app/auth_executor.py (AuthExecutorLane): the thread pool     *)
(* that Firebase token verification runs in, its ledger, and the lifespan   *)
(* of app/main.py that starts and stops it.  The WebSocket and the REST     *)
(* lane are two instances of the class that share nothing.                  *)
(*                                                                          *)
(* The event loop (callers, lifespan) and the worker threads interleave.    *)
(* `loop` names the caller inside run_in_auth_executor between the          *)
(* reservation and its await, where no other coroutine runs but threads do. *)
(* ThreadPoolExecutor is external: a FIFO queue and Workers threads.  Of    *)
(* the ledger the counters that only diagnostics read (durations, peaks,    *)
(* outcomes, errors, running cancellations) are left out.                   *)
(*                                                                          *)
(* Every note of the ledger may fail: _safe_ledger swallows the failure in  *)
(* the worker, concurrent.futures the one of a done callback.  `lost` is a  *)
(* history variable: what the ledger lacks since, by call.                  *)
(***************************************************************************)
EXTENDS Integers, Sequences, SequencesExt, FiniteSets

CONSTANTS
    Call,      \* calls of run_in_auth_executor
    Workers,   \* max_workers
    NoCall     \* the event loop is not inside a submission

ASSUME WorkersAssumption == Workers \in Nat \ {0}
ASSUME NoCallAssumption == NoCall \notin Call

VARIABLES
    lifespan,  \* where the FastAPI lifespan is
    running,   \* _executor is not None
    loop,      \* the call being submitted, or NoCall
    queue,     \* the work queue of the pool
    threads,   \* its threads, started by submit
    work,      \* what became of each call's work item
    receipt,   \* calls whose start entered the ledger (start_receipt)
    leaked,    \* calls whose submit raised after the item was queued
    caller,    \* the coroutine of each call
    ledger,    \* _metrics
    lost       \* history: calls whose note failed, by what it lacks

vars == <<lifespan, running, loop, queue, threads, work, receipt, leaked,
          caller, ledger, lost>>

Counter == {"submitted", "submit_failed", "started", "never_started",
            "in_flight", "count"}
ZeroLedger == [k \in Counter |-> 0]

\* _queued_locked
Queued == ledger.submitted - ledger.submit_failed - ledger.started
              - ledger.never_started

\* Notes that failed: the derived depth still holds the calls in d, the gauge
\* those in g, and the count lacks those in n.
Loses(d, g, n) == lost' = [depth |-> lost.depth \cup d,
                           gauge |-> lost.gauge \cup g,
                           count |-> lost.count \cup n]

Busy == {c \in Call : work[c] \in {"dequeued", "executing", "recorded"}}

-----------------------------------------------------------------------------
(* run_in_auth_executor: reserve, submit, await                              *)

\* The server takes requests once the startup is complete; a handler may still
\* run while the lifespan shuts down.
Served == lifespan \in {"serving", "draining"}

\* AuthExecutorNotReady, before any bookkeeping; or the reservation fails.
NotReady(c) ==
    /\ Served /\ loop = NoCall /\ caller[c] = "absent"
    /\ caller' = [caller EXCEPT ![c] = "returned"]
    /\ UNCHANGED <<lifespan, running, loop, queue, threads, work, receipt,
                   leaked, ledger, lost>>

\* _note_submitted comes before the submit.
Reserves(c) ==
    /\ Served /\ loop = NoCall /\ caller[c] = "absent"
    /\ running
    /\ loop' = c
    /\ work' = [work EXCEPT ![c] = "reserved"]
    /\ ledger' = [ledger EXCEPT !.submitted = @ + 1]
    /\ UNCHANGED <<lifespan, running, queue, threads, receipt, leaked, caller,
                   lost>>

\* ThreadPoolExecutor.submit queues the item and starts a thread, unless all are
\* there or one has been idle since the last submit.
Submits(c) ==
    /\ loop = c /\ work[c] = "reserved"
    /\ queue' = Append(queue, c)
    /\ threads' \in {threads, threads + 1} \cap 1..Workers
    /\ work' = [work EXCEPT ![c] = "queued"]
    /\ UNCHANGED <<lifespan, running, loop, receipt, leaked, caller, ledger,
                   lost>>

\* _note_submit_failed, which may itself raise.
NotesSubmitFailed(c) ==
    \/ ledger' = [ledger EXCEPT !.submit_failed = @ + 1] /\ lost' = lost
    \/ ledger' = ledger /\ Loses({c}, {}, {})

\* Anything after the reservation raises.
SubmitFails(c) ==
    /\ loop = c /\ work[c] = "reserved"
    /\ loop' = NoCall
    /\ work' = [work EXCEPT ![c] = "failed"]
    /\ caller' = [caller EXCEPT ![c] = "returned"]
    /\ NotesSubmitFailed(c)
    /\ UNCHANGED <<lifespan, running, queue, threads, receipt, leaked>>

\* The system refuses the new thread: submit raises, and the item it has queued
\* stays there for the threads that exist.
ThreadRefused(c) ==
    /\ loop = c /\ work[c] = "reserved"
    /\ threads < Workers
    /\ queue' = Append(queue, c)
    /\ loop' = NoCall
    /\ work' = [work EXCEPT ![c] = "queued"]
    /\ leaked' = leaked \cup {c}
    /\ caller' = [caller EXCEPT ![c] = "returned"]
    /\ NotesSubmitFailed(c)
    /\ UNCHANGED <<lifespan, running, threads, receipt>>

\* The done callback is attached and the coroutine waits.
Awaits(c) ==
    /\ loop = c /\ work[c] # "reserved"
    /\ loop' = NoCall
    /\ caller' = [caller EXCEPT ![c] = "waiting"]
    /\ UNCHANGED <<lifespan, running, queue, threads, work, receipt, leaked,
                   ledger, lost>>

Gets(c) ==
    /\ loop = NoCall /\ caller[c] = "waiting"
    /\ work[c] \in {"done", "never"}
    /\ caller' = [caller EXCEPT ![c] = "returned"]
    /\ UNCHANGED <<lifespan, running, loop, queue, threads, work, receipt,
                   leaked, ledger, lost>>

\* The done callbacks of the cancelled calls ns: _record counts each call, then
\* strikes it as never started.  One may fail between the two (unstruck)
\* or before (uncounted too); concurrent.futures drops the exception.
NotesCancelled(ns) ==
    \E unstruck \in SUBSET ns : \E uncounted \in SUBSET unstruck :
        /\ ledger' = [ledger EXCEPT
                         !.never_started = @ + Cardinality(ns \ unstruck),
                         !.count = @ + Cardinality(ns \ uncounted)]
        /\ Loses(unstruck, {}, uncounted)

\* The futures of queued calls are cancelled.  A leaked item has no callback.
CancelledIn(cs) ==
    /\ work' = [c \in Call |-> IF c \in cs THEN "never" ELSE work[c]]
    /\ NotesCancelled(cs \ leaked)

\* The caller is cancelled (the wire deadline, the peer leaves).  A call in the
\* queue is cancelled with it; a thread that runs is not interrupted.
CallerCancelled(c) ==
    /\ loop = NoCall /\ caller[c] = "waiting"
    /\ caller' = [caller EXCEPT ![c] = "returned"]
    /\ \/ /\ \E i \in 1..Len(queue) : queue[i] = c /\ queue' = RemoveAt(queue, i)
          /\ CancelledIn({c})
       \/ /\ work[c] # "queued"
          /\ UNCHANGED <<queue, work, ledger, lost>>
    /\ UNCHANGED <<lifespan, running, loop, threads, receipt, leaked>>

-----------------------------------------------------------------------------
(* The worker threads (_timed)                                               *)

Dequeues(c) ==
    /\ queue # <<>> /\ c = Head(queue)
    /\ Cardinality(Busy) < threads
    /\ queue' = Tail(queue)
    /\ work' = [work EXCEPT ![c] = "dequeued"]
    /\ UNCHANGED <<lifespan, running, loop, threads, receipt, leaked, caller,
                   ledger, lost>>

\* mutant: a failed start entry still decrements the gauge at the end
NotesStart_ReceiptAlways(c) ==
    /\ work[c] = "dequeued"
    /\ work' = [work EXCEPT ![c] = "executing"]
    /\ receipt' = receipt \cup {c}
    /\ \/ ledger' = [ledger EXCEPT !.started = @ + 1, !.in_flight = @ + 1]
       \/ UNCHANGED ledger
    /\ UNCHANGED <<lifespan, running, loop, queue, threads, leaked, caller, lost>>

\* _note_worker_started behind _safe_ledger: entered as a whole with its
\* receipt, or not at all (the copy is rebound in one assignment, which cannot
\* fail).  The verification runs in both cases.
NotesStart(c) ==
    /\ work[c] = "dequeued"
    /\ work' = [work EXCEPT ![c] = "executing"]
    /\ \/ /\ receipt' = receipt \cup {c}
          /\ ledger' = [ledger EXCEPT !.started = @ + 1, !.in_flight = @ + 1]
       \/ UNCHANGED <<receipt, ledger>>
    /\ UNCHANGED <<lifespan, running, loop, queue, threads, leaked, caller, lost>>

\* The verification returns or raises; _record in the finally block lowers the
\* gauge, then counts, and may fail between the two.  With the gauge at zero a
\* noted start would be an underflow, which enters nothing.
Records(c) ==
    /\ work[c] = "executing"
    /\ c \in receipt => ledger.in_flight > 0
    /\ work' = [work EXCEPT ![c] = "recorded"]
    /\ LET left == IF c \in receipt THEN ledger.in_flight - 1 ELSE ledger.in_flight
       IN  \/ /\ ledger' = [ledger EXCEPT !.in_flight = left, !.count = @ + 1]
              /\ lost' = lost
           \/ /\ ledger' = [ledger EXCEPT !.in_flight = left]
              /\ Loses({}, {}, {c})
    /\ UNCHANGED <<lifespan, running, loop, queue, threads, receipt, leaked,
                   caller>>

\* The item ends with nothing recorded: a clock raises before the start note or
\* between it and the try block, or _safe_ledger swallows what _record raises.
Unrecorded(c) ==
    /\ work[c] \in {"dequeued", "executing"}
    /\ work' = [work EXCEPT ![c] = "recorded"]
    /\ Loses({}, {c} \cap receipt, {c})
    /\ UNCHANGED <<lifespan, running, loop, queue, threads, receipt, leaked,
                   caller, ledger>>

\* finished_evt, then the future gets its result and the thread is free.
Finishes(c) ==
    /\ work[c] = "recorded"
    /\ work' = [work EXCEPT ![c] = "done"]
    /\ UNCHANGED <<lifespan, running, loop, queue, threads, receipt, leaked,
                   caller, ledger, lost>>

-----------------------------------------------------------------------------
(* reset_auth_executor_metrics, from any thread                              *)

\* mutant: the queue is not looked at
Resettable_IgnoresQueue == ledger.in_flight <= 0

Resettable == ledger.in_flight <= 0 /\ Queued = 0

Reset ==
    /\ Resettable
    /\ ledger' = [ZeroLedger EXCEPT !.in_flight = ledger.in_flight]
    /\ lost' = [lost EXCEPT !.count = {}]
    /\ UNCHANGED <<lifespan, running, loop, queue, threads, work, receipt,
                   leaked, caller>>

-----------------------------------------------------------------------------
(* The lifespan                                                              *)

\* The startup scope starts the pool.
Starts ==
    /\ lifespan = "down" /\ loop = NoCall
    /\ lifespan' = "starting"
    /\ running' = TRUE
    /\ UNCHANGED <<loop, queue, threads, work, receipt, leaked, caller,
                   ledger, lost>>

Serves ==
    /\ lifespan = "starting" /\ loop = NoCall
    /\ lifespan' = "serving"
    /\ UNCHANGED <<running, loop, queue, threads, work, receipt, leaked,
                   caller, ledger, lost>>

\* mutant: the queue is dropped, its futures are not cancelled
BeginShutdown_DropsQueue ==
    /\ lifespan \in {"starting", "serving"} /\ loop = NoCall
    /\ lifespan' = "draining"
    /\ running' = FALSE
    /\ queue' = <<>>
    /\ UNCHANGED <<loop, threads, work, receipt, leaked, caller, ledger,
                   lost>>

\* begin_auth_executor_shutdown: from the lifespan, or from the startup scope
\* when a later startup step fails.  It does not wait for the threads.
BeginShutdown ==
    /\ lifespan \in {"starting", "serving"} /\ loop = NoCall
    /\ lifespan' = "draining"
    /\ running' = FALSE
    /\ queue' = <<>>
    /\ CancelledIn({c \in Call : work[c] = "queued"})
    /\ UNCHANGED <<loop, threads, receipt, leaked, caller>>

\* mutant: the lifespan ends without joining the threads
AwaitShutdown_NoJoin ==
    /\ lifespan = "draining" /\ loop = NoCall
    /\ lifespan' = "down"
    /\ UNCHANGED <<running, loop, queue, threads, work, receipt, leaked,
                   caller, ledger, lost>>

\* await_auth_executor_shutdown, after the other drains.
AwaitShutdown ==
    /\ lifespan = "draining" /\ loop = NoCall
    /\ Busy = {}
    /\ lifespan' = "down"
    /\ threads' = 0
    /\ UNCHANGED <<running, loop, queue, work, receipt, leaked, caller, ledger,
                   lost>>

-----------------------------------------------------------------------------
Init ==
    /\ lifespan = "down" /\ running = FALSE
    /\ loop = NoCall
    /\ queue = <<>> /\ threads = 0
    /\ work = [c \in Call |-> "absent"]
    /\ receipt = {} /\ leaked = {}
    /\ caller = [c \in Call |-> "absent"]
    /\ ledger = ZeroLedger
    /\ lost = [depth |-> {}, gauge |-> {}, count |-> {}]

Submission(c) == Submits(c) \/ SubmitFails(c) \/ ThreadRefused(c) \/ Awaits(c)

\* mutant: no timeout ends a verification
WorkerSteps_NoTimeout(c) == Dequeues(c) \/ NotesStart(c) \/ Finishes(c)

WorkerSteps(c) == \/ Dequeues(c) \/ NotesStart(c) \/ Records(c)
                  \/ Unrecorded(c) \/ Finishes(c)

Next ==
    \/ \E c \in Call : \/ NotReady(c) \/ Reserves(c) \/ Submission(c)
                       \/ Gets(c) \/ CallerCancelled(c)
                       \/ WorkerSteps(c)
    \/ Reset
    \/ Starts \/ Serves \/ BeginShutdown \/ AwaitShutdown

Spec == Init /\ [][Next]_vars

\* Threads run, the SDK's httpTimeout ends every verification, ready coroutines
\* run, and the lifespan's last await returns once the threads are joined.
FairSpec ==
    /\ Spec
    /\ \A c \in Call : /\ WF_vars(WorkerSteps(c))
                       /\ WF_vars(Submission(c))
                       /\ WF_vars(Gets(c))
    /\ WF_vars(AwaitShutdown)

-----------------------------------------------------------------------------
(* Properties                                                               *)

Work == {"absent", "reserved", "queued", "dequeued", "executing", "recorded",
         "done", "failed", "never"}

LostNotes == [depth : SUBSET Call, gauge : SUBSET Call, count : SUBSET Call]

\* The type of every variable.
TypeOK ==
    /\ lifespan \in {"down", "starting", "serving", "draining"}
    /\ running \in BOOLEAN
    /\ loop \in Call \cup {NoCall}
    /\ queue \in Seq(Call)
    /\ threads \in 0..Workers
    /\ work \in [Call -> Work]
    /\ receipt \subseteq Call /\ leaked \subseteq Call
    /\ caller \in [Call -> {"absent", "waiting", "returned"}]
    /\ ledger \in [Counter -> Nat]
    /\ lost \in LostNotes

\* Accepted, its start not yet in the ledger.
Waiting == {c \in Call : work[c] \in {"reserved", "queued", "dequeued"}}
Executed == {c \in Call : work[c] \in {"executing", "recorded", "done"}}
Unentered == Executed \ receipt

\* Calls that ended without a start in the ledger, and cancelled calls that are
\* not struck from it.
UnenteredDone == {c \in Unentered : work[c] # "executing"}
Unstruck == {c \in lost.depth : work[c] = "never"}

\* Unless a submit has raised behind a queued item, the derived queue depth is
\* the number of calls that wait, plus those whose start, cancellation or failed
\* submit could not be entered; and every call that ended, with its start in the
\* ledger, cancelled or neither, is counted once or its note was lost.  A reset
\* never breaks this.
LedgerBalanced ==
    leaked = {} =>
        /\ Queued = Cardinality(Waiting) + Cardinality(Unentered)
                    + Cardinality(lost.depth)
        /\ ledger.count + Cardinality(lost.count)
              = ledger.started - ledger.in_flight + Cardinality(lost.gauge)
                + ledger.never_started + Cardinality(Unstruck)
                + Cardinality(UnenteredDone)

\* The gauge is the number of verifications in progress whose start was entered,
\* plus the number of ended ones whose end was lost: it drifts by nothing else
\* and never low, so a noted start always finds it above zero at its end.
InFlightAccounted ==
    ledger.in_flight = Cardinality({c \in receipt : work[c] = "executing"})
                       + Cardinality(lost.gauge)

\* A reset does not open while a call waits or runs, nor while the gauge or the
\* depth is off, whichever notes failed before: after a lost end only a restart
\* of the process helps.  A submit that raised behind a queued item is excepted.
ResetOnlyBalanced ==
    [][Reset /\ leaked = {} =>
          /\ Waiting = {} /\ \A c \in Call : work[c] # "executing"
          /\ lost.gauge = {} /\ lost.depth = {}]_vars

\* What tests/test_auth_executor_ledger.py:6 states of the derived depth.
QueuedNeverNegative == Queued >= 0

\* A pool is never started while a thread of the previous one is at work.
PoolsNeverOverlap == [][~running /\ running' => Busy = {} /\ queue = <<>>]_vars

\* A call that was accepted returns to its coroutine, in the face of a shutdown
\* with the call still in the queue.
CallReturns == \A c \in Call : caller[c] = "waiting" ~> caller[c] = "returned"

\* A shutdown ends: the threads in progress are joined and none starts late.
ShutdownEnds == lifespan = "draining" ~> lifespan = "down"
=============================================================================
