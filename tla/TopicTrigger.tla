------------------------------ MODULE TopicTrigger ------------------------------
(***************************************************************************)
(* From a stored rate to a published topic: the writers (app/crud.py in     *)
(* worker threads, app/crawlers/usdt_ws on the event loop), the bridge      *)
(* (app/topic_trigger_bridge.py), the two coalescing controllers            *)
(* (app/fx_topic_trigger.py, app/tether_topic_trigger.py) and the part of   *)
(* the lifespan of app/main.py that drains them.                            *)
(*                                                                          *)
(* Both controllers are in mode direct_coalesced, the one that publishes.   *)
(* A payload is represented by the number of rates stored when its build    *)
(* began: it contains those at least, since the build reads the store.      *)
(* The publisher of the broadcast hook is not part of this module.          *)
(***************************************************************************)
EXTENDS Integers, Sequences, FiniteSets

CONSTANTS
    Fx,        \* the FX topics
    Tether,    \* the topic usdt:krw
    Cross,     \* the FX topics whose changes are routed to Tether too
    Worker,    \* threads that store bank and Investing rates
    Feed,      \* writers of the USDT WebSocket clients
    MaxStored  \* bound of the model: rates stored per topic

ASSUME TopicAssumption == Tether \notin Fx /\ Cross \subseteq Fx
ASSUME WriterAssumption == Worker \cap Feed = {}
ASSUME BoundAssumption == MaxStored \in Nat

Topic == Fx \cup {Tether}

VARIABLES
    store,      \* rates stored so far, per topic whose payload shows them
    writer,     \* what each worker and feed has stored and not reported yet
    ready,      \* the callbacks in the loop's queue
    shutting,   \* _shutting_down of the bridge
    pending,    \* _pending of the controllers: the number of the entry, or 0
    flush,      \* the live _flush_after_window tasks of each topic
    requests, coalesced, flushes,   \* the counters of the controllers
    asked,      \* the latest rate a trigger was accepted for
    seen,       \* the latest rate a publisher call has seen
    published,  \* the payload sent last
    life,       \* where the lifespan is
    waited      \* the tasks that close() waits for

vars == <<store, writer, ready, shutting, pending, flush, requests, coalesced,
          flushes, asked, seen, published, life, waited>>

Report == UNION {[ts -> 0..MaxStored] : ts \in SUBSET Topic}
Nothing == [t \in {} |-> 0]
\* drain_loop_callbacks puts a sentinel in the queue; no writer reports Nothing.
Barrier == Nothing

\* `own` is the entry the task was created with, `entry` the one it found when
\* its window ended.
Flush == [own : Nat \ {0}, phase : {"window", "called", "sending"}, entry : Nat,
          read : Nat, cancelled : BOOLEAN]

Later(a, b) == IF a >= b THEN a ELSE b

-----------------------------------------------------------------------------
(* The writers: store first, report what was stored afterwards               *)

\* The topics a rate of FX topic t is for.  kb, hana and investing are shown by
\* usdt:krw too, the other banks are not.
Routes(t) == {{t}} \cup (IF t \in Cross THEN {{t, Tether}} ELSE {})

\* mutant: a rate whose SET failed is reported too
Stores_FailedToo(w, ts) ==
    /\ \A t \in ts : store[t] < MaxStored
    /\ store' \in {store, [t \in Topic |-> IF t \in ts THEN store[t] + 1 ELSE store[t]]}
    /\ writer' = [writer EXCEPT ![w] =
                     [t \in DOMAIN @ \cup ts |-> IF t \in ts THEN store[t] + 1 ELSE @[t]]]

\* A latest-rate key is SET; the report is for the rates that were.
Stores(w, ts) ==
    /\ \A t \in ts : store[t] < MaxStored
    /\ store' = [t \in Topic |-> IF t \in ts THEN store[t] + 1 ELSE store[t]]
    /\ writer' = [writer EXCEPT ![w] =
                     [t \in DOMAIN @ \cup ts |-> IF t \in ts THEN store[t] + 1 ELSE @[t]]]

\* One of the currencies of a batch, each once per report.
WorkerStores(w, t) ==
    /\ t \notin DOMAIN writer[w]
    /\ \E ts \in Routes(t) : Stores(w, ts)
    /\ UNCHANGED <<ready, shutting, pending, flush, requests, coalesced, flushes,
                   asked, seen, published, life, waited>>

FeedStores(f) ==
    /\ life # "down" /\ writer[f] = Nothing
    /\ Stores(f, {Tether})
    /\ UNCHANGED <<ready, shutting, pending, flush, requests, coalesced, flushes,
                   asked, seen, published, life, waited>>

\* _emit_topic_triggers, schedule_on_loop: flag and queue under one lock.
Emits(w) ==
    /\ writer[w] # Nothing
    /\ ready' = IF shutting THEN ready ELSE Append(ready, writer[w])
    /\ writer' = [writer EXCEPT ![w] = Nothing]
    /\ UNCHANGED <<store, shutting, pending, flush, requests, coalesced, flushes,
                   asked, seen, published, life, waited>>

-----------------------------------------------------------------------------
(* request_trigger of the controllers                                        *)

\* The entry is there and its task is not done.
Coalesces(t) == \E k \in flush[t] : k.own = pending[t]

\* mutant: the entry takes its number before the request is counted
NewFlush_Uncounted(t) ==
    [own |-> requests[t], phase |-> "window", entry |-> 0, read |-> 0, cancelled |-> FALSE]

NewFlush(t) == [own |-> requests[t] + 1, phase |-> "window", entry |-> 0,
                read |-> 0, cancelled |-> FALSE]

\* One call per topic of the report.
Requested(report) ==
    LET ts == DOMAIN report
        fresh == {t \in ts : ~Coalesces(t)}
    IN
    /\ requests' = [t \in Topic |-> requests[t] + IF t \in ts THEN 1 ELSE 0]
    /\ coalesced' = [t \in Topic |-> coalesced[t] + IF t \in ts \ fresh THEN 1 ELSE 0]
    /\ flush' = [t \in Topic |-> IF t \in fresh THEN flush[t] \cup {NewFlush(t)}
                                 ELSE flush[t]]
    /\ pending' = [t \in Topic |-> IF t \in fresh THEN NewFlush(t).own ELSE pending[t]]
    /\ asked' = [t \in Topic |-> IF t \in ts THEN Later(asked[t], report[t])
                                 ELSE asked[t]]

\* The loop runs the oldest callback, _run_topic_emission.
RunsCallback ==
    /\ ready # <<>> /\ Head(ready) # Barrier
    /\ ready' = Tail(ready)
    /\ Requested(Head(ready))
    /\ UNCHANGED <<store, writer, shutting, flushes, seen, published, life, waited>>

FeedRequests(f) ==
    /\ writer[f] # Nothing
    /\ writer' = [writer EXCEPT ![f] = Nothing]
    /\ Requested(writer[f])
    /\ UNCHANGED <<store, ready, shutting, flushes, seen, published, life, waited>>

-----------------------------------------------------------------------------
(* _flush_after_window and the publisher it calls                            *)

Becomes(t, k, ks) == flush' = [flush EXCEPT ![t] = (@ \ {k}) \cup ks]

\* mutant: the entry is taken out when the window ends
Wakes_Pops(t, k) ==
    /\ k.phase = "window" /\ ~k.cancelled
    /\ IF pending[t] = 0
       THEN Becomes(t, k, {}) /\ UNCHANGED <<flushes, pending>>
       ELSE /\ Becomes(t, k, {[k EXCEPT !.phase = "called", !.entry = pending[t]]})
            /\ flushes' = [flushes EXCEPT ![t] = @ + 1]
            /\ pending' = [pending EXCEPT ![t] = 0]
    /\ UNCHANGED <<store, writer, ready, shutting, requests, coalesced,
                   asked, seen, published, life, waited>>

\* The window ends.  Without an entry the task ends too; otherwise it calls the
\* publisher, which records the call in Redis before it builds.
Wakes(t, k) ==
    /\ k.phase = "window" /\ ~k.cancelled
    /\ IF pending[t] = 0
       THEN Becomes(t, k, {}) /\ UNCHANGED flushes
       ELSE /\ Becomes(t, k, {[k EXCEPT !.phase = "called", !.entry = pending[t]]})
            /\ flushes' = [flushes EXCEPT ![t] = @ + 1]
    /\ UNCHANGED <<store, writer, ready, shutting, pending, requests, coalesced,
                   asked, seen, published, life, waited>>

\* The payload is built and on its way: telemetry, then one send after another.
Builds(t, k) ==
    /\ k.phase = "called" /\ ~k.cancelled
    /\ Becomes(t, k, {[k EXCEPT !.phase = "sending", !.read = store[t]]})
    /\ seen' = [seen EXCEPT ![t] = Later(@, store[t])]
    /\ UNCHANGED <<store, writer, ready, shutting, pending, requests, coalesced,
                   flushes, asked, published, life, waited>>

\* The finally block takes its own entry out and no other.
TaskEnds(t, k) ==
    /\ Becomes(t, k, {})
    /\ pending' = [pending EXCEPT ![t] = IF k.entry # 0 /\ @ = k.entry THEN 0 ELSE @]

\* Nobody subscribes, the topic is off, or the build fails (isolated).
PublishSkips(t, k) ==
    /\ k.phase = "called" /\ ~k.cancelled
    /\ TaskEnds(t, k)
    /\ seen' = [seen EXCEPT ![t] = Later(@, store[t])]
    /\ UNCHANGED <<store, writer, ready, shutting, requests, coalesced, flushes,
                   asked, published, life, waited>>

\* Sent to one subscriber at least, or to none.
PublishEnds(t, k) ==
    /\ k.phase = "sending" /\ ~k.cancelled
    /\ TaskEnds(t, k)
    /\ published' \in {published, [published EXCEPT ![t] = k.read]}
    /\ UNCHANGED <<store, writer, ready, shutting, requests, coalesced, flushes,
                   asked, seen, life, waited>>

\* CancelledError: in the window it passes the finally block by.
CancelLands(t, k) ==
    /\ k.cancelled
    /\ TaskEnds(t, k)
    /\ UNCHANGED <<store, writer, ready, shutting, requests, coalesced, flushes,
                   asked, seen, published, life, waited>>

-----------------------------------------------------------------------------
(* The shutdown of the lifespan                                              *)

\* mutant: the controllers are drained without waiting for the callbacks
BeginsDrain_NoBarrier ==
    /\ life = "serving"
    /\ life' = "drained"
    /\ shutting' = TRUE
    /\ UNCHANGED <<store, writer, ready, pending, flush, requests, coalesced,
                   flushes, asked, seen, published, waited>>

\* signal_shutdown, then drain_loop_callbacks up to its await.
BeginsDrain ==
    /\ life = "serving"
    /\ life' = "draining"
    /\ shutting' = TRUE
    /\ ready' = Append(ready, Barrier)
    /\ UNCHANGED <<store, writer, pending, flush, requests, coalesced, flushes,
                   asked, seen, published, waited>>

RunsBarrier ==
    /\ ready # <<>> /\ Head(ready) = Barrier
    /\ ready' = Tail(ready)
    /\ life' = "drained"
    /\ UNCHANGED <<store, writer, shutting, pending, flush, requests, coalesced,
                   flushes, asked, seen, published, waited>>

\* close() of a controller collects the tasks of its entries; without any it
\* returns.
Closes(ts, before, during, after) ==
    LET found == {<<t, pending[t]>> : t \in {u \in ts : pending[u] # 0}} IN
    /\ life = before
    /\ life' = IF found = {} THEN after ELSE during
    /\ waited' = found
    /\ UNCHANGED <<store, writer, ready, shutting, pending, flush, requests,
                   coalesced, flushes, asked, seen, published>>

IsWaited(t, k) == <<t, k.own>> \in waited

\* mutant: the timeout cancels the timers only
CloseTimesOut_TimersOnly ==
    /\ life \in {"fx_closing", "tether_closing"}
    /\ \E t \in Topic : \E k \in flush[t] : k.phase = "window" /\ ~k.cancelled
    /\ flush' = [t \in Topic |->
                    {[k EXCEPT !.cancelled = @ \/ k.phase = "window"] : k \in flush[t]}]
    /\ UNCHANGED <<store, writer, ready, shutting, pending, requests, coalesced,
                   flushes, asked, seen, published, life, waited>>

\* One second: the tasks that are left are cancelled and waited for again.
CloseTimesOut ==
    /\ life \in {"fx_closing", "tether_closing"}
    /\ \E t \in Topic : \E k \in flush[t] : IsWaited(t, k) /\ ~k.cancelled
    /\ flush' = [t \in Topic |->
                    {IF IsWaited(t, k) THEN [k EXCEPT !.cancelled = TRUE] ELSE k :
                        k \in flush[t]}]
    /\ UNCHANGED <<store, writer, ready, shutting, pending, requests, coalesced,
                   flushes, asked, seen, published, life, waited>>

\* All the tasks are done: _pending is cleared as a whole.
Closed(ts, during, after) ==
    /\ life = during
    /\ \A t \in ts : \A k \in flush[t] : ~IsWaited(t, k)
    /\ life' = after
    /\ waited' = {}
    /\ pending' = [t \in Topic |-> IF t \in ts THEN 0 ELSE pending[t]]
    /\ UNCHANGED <<store, writer, ready, shutting, flush, requests, coalesced,
                   flushes, asked, seen, published>>

\* The USDT clients are stopped after the controllers.
FeedsStop ==
    /\ life = "tether_closed"
    /\ life' = "down"
    /\ UNCHANGED <<store, writer, ready, shutting, pending, flush, requests,
                   coalesced, flushes, asked, seen, published, waited>>

Shutdown ==
    \/ Closes(Fx, "drained", "fx_closing", "fx_closed")
    \/ Closed(Fx, "fx_closing", "fx_closed")
    \/ Closes({Tether}, "fx_closed", "tether_closing", "tether_closed")
    \/ Closed({Tether}, "tether_closing", "tether_closed")
    \/ CloseTimesOut

-----------------------------------------------------------------------------
Init ==
    /\ store = [t \in Topic |-> 0]
    /\ writer = [w \in Worker \cup Feed |-> Nothing]
    /\ ready = <<>> /\ shutting = FALSE
    /\ pending = [t \in Topic |-> 0]
    /\ flush = [t \in Topic |-> {}]
    /\ requests = [t \in Topic |-> 0]
    /\ coalesced = [t \in Topic |-> 0]
    /\ flushes = [t \in Topic |-> 0]
    /\ asked = [t \in Topic |-> 0]
    /\ seen = [t \in Topic |-> 0]
    /\ published = [t \in Topic |-> 0]
    /\ life = "serving" /\ waited = {}

Write ==
    \/ \E w \in Worker : Emits(w) \/ \E t \in Fx : WorkerStores(w, t)
    \/ \E f \in Feed : FeedStores(f) \/ FeedRequests(f)

FlushSteps ==
    \E t \in Topic : \E k \in flush[t] :
        \/ Wakes(t, k) \/ Builds(t, k) \/ PublishSkips(t, k)
        \/ PublishEnds(t, k) \/ CancelLands(t, k)

Next ==
    \/ Write \/ RunsCallback \/ FlushSteps
    \/ BeginsDrain \/ RunsBarrier \/ Shutdown \/ FeedsStop

Spec == Init /\ [][Next]_vars

\* The loop runs what is ready, the timer of close() fires and a cancelled task
\* ends.  No publish has to end: a peer may take its frame for ever.
FairSpec ==
    /\ Spec
    /\ WF_vars(RunsCallback \/ RunsBarrier)
    /\ WF_vars(Shutdown)
    /\ WF_vars(\E t \in Topic : \E k \in flush[t] : CancelLands(t, k))

-----------------------------------------------------------------------------
(* Properties                                                               *)

Life == {"serving", "draining", "drained", "fx_closing", "fx_closed",
         "tether_closing", "tether_closed", "down"}

\* The type of every variable; the tasks of a topic have distinct entries.
TypeOK ==
    /\ store \in [Topic -> 0..MaxStored]
    /\ DOMAIN writer = Worker \cup Feed
    /\ \A w \in Worker \cup Feed : writer[w] \in Report
    /\ \A i \in DOMAIN ready : ready[i] \in Report
    /\ shutting \in BOOLEAN
    /\ \A c \in {pending, requests, coalesced, flushes, asked, seen, published} :
          c \in [Topic -> Nat]
    /\ DOMAIN flush = Topic
    /\ \A t \in Topic : \A k \in flush[t] :
          k \in Flush /\ \A j \in flush[t] : j.own = k.own => j = k
    /\ life \in Life
    /\ waited \subseteq Topic \X Nat

Windows(t) == {k \in flush[t] : k.phase = "window"}

\* While the server runs every accepted trigger is accounted for: it was
\* coalesced, it was flushed, or its window is open
\* (USDT_TOPIC_MIGRATION_PLAN.md:645, `req=flush+coalesced+pending`).
RequestsConserved ==
    life \in {"serving", "draining", "drained"} =>
        \A t \in Topic :
            requests[t] = coalesced[t] + flushes[t] + Cardinality(Windows(t))

\* The bookkeeping of the requests.
Bookkeeping == TypeOK /\ RequestsConserved

\* Once the FX controller is closed nothing is left that would publish an FX
\* topic: no callback in the loop, no flush, no entry, and none can come any
\* more although the crawlers still write.
FxDrained ==
    life \in {"fx_closed", "tether_closing", "tether_closed", "down"} =>
        /\ \A i \in DOMAIN ready : ready[i] = Barrier
        /\ \A t \in Fx : flush[t] = {} /\ pending[t] = 0

\* Two flushes of a topic never overtake each other: what the triggers publish
\* for an FX topic never goes back to an older rate.
PublishedInOrder ==
    [][\A t \in Fx : published'[t] >= published[t]]_published

\* A request that waits in an open window is never behind the payload that its
\* flush builds.
FlushCoversItsRequests ==
    [][\A t \in Fx : seen'[t] # seen[t] => seen'[t] >= asked[t]]_seen

\* request_trigger: "Request a future fx:<asset> topic publish" (fx_topic_trigger.py:236).
\* A trigger accepted for a rate no publisher call has seen has a flush whose call
\* is still to come.
RequestHasFuturePublish ==
    \A t \in Fx : asked[t] > seen[t] =>
        \E k \in flush[t] : k.phase \in {"window", "called"}

\* The drain ends although publishes hang.
DrainEnds == life = "draining" ~> life \in {"tether_closed", "down"}
=============================================================================
