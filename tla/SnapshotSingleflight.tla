-------------------------- MODULE SnapshotSingleflight ------------------------
(***************************************************************************)
(* Initial snapshots shared by the WebSocket and the REST entry points     *)
(* (build_snapshot_observed of app/topic_initial_snapshot.py): one build   *)
(* per key, an admission semaphore, a success cache, a failure cooldown.   *)
(*                                                                         *)
(* An action is what a caller or a shared task does between two awaits.    *)
(* The key of a build is its topic and the payload generation of the topic *)
(* (topic_dispatcher); the two availability flags of SnapshotBuildKey do   *)
(* not change during the life of a process and are left out.  What a build *)
(* returns is represented by the generation of the topic at the moment its *)
(* worker read the store.                                                  *)
(***************************************************************************)
EXTENDS Integers, Sequences, SequencesExt, FiniteSets

CONSTANTS
    Topic,
    Caller,    \* requests: a WebSocket handler or a REST endpoint
    Flight,    \* _SnapshotFlight objects alive at once (bound of the model)
    Permits,   \* WS_TOPIC_SNAPSHOT_MAX_CONCURRENT_BUILDS
    MaxGen,    \* bound of the model: payloads published per topic
    NoFlight, NoEntry, NoRead

ASSUME PermitsAssumption == Permits \in Nat \ {0} /\ MaxGen \in Nat
ASSUME NoneAssumption ==
    NoFlight \notin Flight /\ NoEntry \notin Nat /\ NoRead \notin Nat

Gen == 0..MaxGen
Key == [topic : Topic, gen : Gen]

VARIABLES
    gen,        \* _topic_payload_generations
    flights,    \* state.flights
    flight,     \* the shared task of each flight
    queue,      \* the waiters of the admission semaphore
    free,       \* its value
    cache,      \* state.success_cache: key -> when the payload was read
    cooldowns,  \* state.failure_cooldowns: the keys that have a live one
    caller      \* the coroutine of each request

vars == <<gen, flights, flight, queue, free, cache, cooldowns, caller>>

Outcome == {"built", "none", "transient", "deadline", "fatal", "cancelled"}
\* `cancel` is task.cancelling(): asked by the last waiter, or by the timer of
\* the task's own deadline.
FlightState ==
    [key : Key, phase : {"queued", "building", "ended"},
     cancel : {"no", "deadline", "waiters"}, read : Gen \cup {NoRead},
     outcome : Outcome, waiters : Nat]
CallerState ==
    [phase : {"idle", "waiting", "returned"}, flight : Flight \cup {NoFlight},
     floor : Gen, got : Gen \cup {NoRead}]

-----------------------------------------------------------------------------
\* mutant: the key forgets the generation
BuildKey_TopicOnly(t) == [topic |-> t, gen |-> 0]

\* _snapshot_build_key
BuildKey(t) == [topic |-> t, gen |-> gen[t]]

Live(f) == flight[f].phase \in {"queued", "building"}

\* A flight can be joined unless its task is done or being cancelled.
Joinable(k) ==
    /\ flights[k] # NoFlight
    /\ Live(flights[k]) /\ flight[flights[k]].cancel = "no"

Returned(c, read) ==
    caller' = [caller EXCEPT ![c].phase = "returned", ![c].flight = NoFlight,
                             ![c].got = read]

Waiting(c, k, f) ==
    caller' = [caller EXCEPT ![c] = [phase |-> "waiting", flight |-> f,
                                     floor |-> k.gen, got |-> NoRead]]

-----------------------------------------------------------------------------
(* A live payload enters the dispatcher.                                    *)

Publishes(t) ==
    /\ gen[t] < MaxGen
    /\ gen' = [gen EXCEPT ![t] = @ + 1]
    /\ UNCHANGED <<flights, flight, queue, free, cache, cooldowns, caller>>

-----------------------------------------------------------------------------
(* build_snapshot_observed: cache, cooldown, join or lead                   *)

CacheHit(c, t) ==
    LET k == BuildKey(t) IN
    /\ caller[c].phase # "waiting"
    /\ cache[k] # NoEntry
    /\ caller' = [caller EXCEPT ![c] = [phase |-> "returned", flight |-> NoFlight,
                                        floor |-> gen[t], got |-> cache[k]]]
    /\ UNCHANGED <<gen, flights, flight, queue, free, cache, cooldowns>>

\* SnapshotFailureCooldownActive
CoolingDown(c, t) ==
    LET k == BuildKey(t) IN
    /\ caller[c].phase # "waiting"
    /\ cache[k] = NoEntry /\ k \in cooldowns
    /\ Returned(c, NoRead)
    /\ UNCHANGED <<gen, flights, flight, queue, free, cache, cooldowns>>

MustBuild(c, k) ==
    caller[c].phase # "waiting" /\ cache[k] = NoEntry /\ k \notin cooldowns

Joins(c, t) ==
    LET k == BuildKey(t) IN
    /\ MustBuild(c, k)
    /\ Joinable(k)
    /\ flight' = [flight EXCEPT ![flights[k]].waiters = @ + 1]
    /\ Waiting(c, k, flights[k])
    /\ UNCHANGED <<gen, flights, queue, free, cache, cooldowns>>

\* A new flight takes the place of one that is done or being cancelled.  Its
\* task queues for admission at its first step.
Leads(c, t, f) ==
    LET k == BuildKey(t) IN
    /\ MustBuild(c, k)
    /\ ~Joinable(k)
    /\ flight[f].phase = "ended" /\ flight[f].waiters = 0
    /\ flight' = [flight EXCEPT ![f] =
                     [key |-> k, phase |-> "queued", cancel |-> "no",
                      read |-> NoRead, outcome |-> "none", waiters |-> 1]]
    /\ flights' = [flights EXCEPT ![k] = f]
    /\ queue' = Append(queue, f)
    /\ Waiting(c, k, f)
    /\ UNCHANGED <<gen, free, cache, cooldowns>>

-----------------------------------------------------------------------------
(* The waiter: shield(flight.task) under the caller's own deadline           *)

Gets(c) ==
    LET f == caller[c].flight IN
    /\ caller[c].phase = "waiting" /\ flight[f].phase = "ended"
    /\ Returned(c, IF flight[f].outcome = "built" THEN flight[f].read ELSE NoRead)
    /\ flight' = [flight EXCEPT ![f].waiters = @ - 1]
    /\ UNCHANGED <<gen, flights, queue, free, cache, cooldowns>>

\* Deadline or cancellation of the caller.  The last one asks the task to stop;
\* a task still queued leaves the queue with that.
Leaves(c) ==
    LET f == caller[c].flight
        last == flight[f].waiters = 1 /\ Live(f)
    IN
    /\ caller[c].phase = "waiting"
    /\ Returned(c, NoRead)
    /\ flight' = [flight EXCEPT ![f].waiters = @ - 1,
                                ![f].cancel = IF last THEN "waiters" ELSE @]
    /\ queue' = IF last THEN RemoveFirst(queue, f) ELSE queue
    /\ UNCHANGED <<gen, flights, free, cache, cooldowns>>

-----------------------------------------------------------------------------
(* _run_shared_snapshot_build                                               *)

Admitted(f) ==
    /\ free > 0 /\ queue # <<>> /\ f = Head(queue)
    /\ queue' = Tail(queue)
    /\ free' = free - 1
    /\ flight' = [flight EXCEPT ![f].phase = "building"]
    /\ UNCHANGED <<gen, flights, cache, cooldowns, caller>>

\* The worker thread reads the store; its answer is on the way.
WorkerReads(f) ==
    /\ flight[f].phase = "building" /\ flight[f].cancel = "no"
    /\ flight[f].read = NoRead
    /\ flight' = [flight EXCEPT ![f].read = gen[flight[f].key.topic]]
    /\ UNCHANGED <<gen, flights, queue, free, cache, cooldowns, caller>>

\* mutant: the finally block removes whatever flight the key has
Finally_PopsAny(f, outcome) ==
    /\ flight' = [flight EXCEPT ![f].phase = "ended", ![f].outcome = outcome]
    /\ free' = IF flight[f].phase = "building" THEN free + 1 ELSE free
    /\ flights' = [flights EXCEPT ![flight[f].key] = NoFlight]
    /\ queue' = RemoveFirst(queue, f)

\* mutant: the permit is released on success only
Finally_KeepsPermit(f, outcome) ==
    /\ flight' = [flight EXCEPT ![f].phase = "ended", ![f].outcome = outcome]
    /\ free' = IF outcome \in {"built", "none"} THEN free + 1 ELSE free
    /\ flights' = [flights EXCEPT ![flight[f].key] = IF @ = f THEN NoFlight ELSE @]
    /\ queue' = RemoveFirst(queue, f)

\* The finally block: the permit goes back, the registry forgets this task and
\* no other.
Finally(f, outcome) ==
    /\ flight' = [flight EXCEPT ![f].phase = "ended", ![f].outcome = outcome]
    /\ free' = IF flight[f].phase = "building" THEN free + 1 ELSE free
    /\ flights' = [flights EXCEPT ![flight[f].key] = IF @ = f THEN NoFlight ELSE @]
    /\ queue' = RemoveFirst(queue, f)

\* No task of the same key has its deadline interrupt pending: that task is
\* already in the loop's ready queue and ends before a worker can answer.
Undisturbed(f) ==
    \A g \in Flight : Live(g) /\ flight[g].key = flight[f].key
                          => flight[g].cancel # "deadline"

\* A payload, or None when the topic has nothing to show.  It is cached only if
\* no newer payload was published during the build.
Completes(f) ==
    LET k == flight[f].key IN
    /\ flight[f].phase = "building" /\ flight[f].cancel = "no"
    /\ flight[f].read # NoRead
    /\ Undisturbed(f)
    /\ \/ /\ Finally(f, "built")
          /\ cache' = IF BuildKey(k.topic) = k
                      THEN [cache EXCEPT ![k] = flight[f].read] ELSE cache
       \/ /\ Finally(f, "none")
          /\ UNCHANGED cache
    /\ cooldowns' = cooldowns \ {k}
    /\ UNCHANGED <<gen, caller>>

\* A transient database or Redis error arms the cooldown; another one does not.
BuildFails(f) ==
    LET k == flight[f].key IN
    /\ flight[f].phase = "building" /\ flight[f].cancel = "no"
    /\ Undisturbed(f)
    /\ \/ Finally(f, "transient") /\ cooldowns' = cooldowns \cup {k}
       \/ Finally(f, "fatal") /\ UNCHANGED cooldowns
    /\ UNCHANGED <<gen, cache, caller>>

\* The task's own budget runs out: asyncio.timeout asks it to cancel, and until
\* its next step new callers see a task that is being cancelled.
DeadlineFires(f) ==
    /\ Live(f) /\ flight[f].cancel = "no"
    /\ flight' = [flight EXCEPT ![f].cancel = "deadline"]
    /\ queue' = RemoveFirst(queue, f)
    /\ UNCHANGED <<gen, flights, free, cache, cooldowns, caller>>

\* SnapshotDeadlineExceeded; in the queue for admission it arms no cooldown.
DeadlineEnds(f) ==
    /\ Live(f) /\ flight[f].cancel = "deadline"
    /\ Finally(f, "deadline")
    /\ cooldowns' = IF flight[f].phase = "building"
                    THEN cooldowns \cup {flight[f].key} ELSE cooldowns
    /\ UNCHANGED <<gen, cache, caller>>

\* CancelledError: the last waiter is gone.  Neither cache nor cooldown.
CancelEnds(f) ==
    /\ Live(f) /\ flight[f].cancel = "waiters"
    /\ Finally(f, "cancelled")
    /\ UNCHANGED <<gen, cache, cooldowns, caller>>

-----------------------------------------------------------------------------
(* Time: an expired entry is dropped at the next look, before it is used.    *)

CacheExpires(k) ==
    /\ cache[k] # NoEntry
    /\ cache' = [cache EXCEPT ![k] = NoEntry]
    /\ UNCHANGED <<gen, flights, flight, queue, free, cooldowns, caller>>

CooldownExpires(k) ==
    /\ k \in cooldowns
    /\ cooldowns' = cooldowns \ {k}
    /\ UNCHANGED <<gen, flights, flight, queue, free, cache, caller>>

-----------------------------------------------------------------------------
Init ==
    /\ gen = [t \in Topic |-> 0]
    /\ flights = [k \in Key |-> NoFlight]
    /\ \E k \in Key :
          flight = [f \in Flight |->
                       [key |-> k, phase |-> "ended", cancel |-> "no",
                        read |-> NoRead, outcome |-> "none", waiters |-> 0]]
    /\ queue = <<>>
    /\ free = Permits
    /\ cache = [k \in Key |-> NoEntry]
    /\ cooldowns = {}
    /\ caller = [c \in Caller |-> [phase |-> "idle", flight |-> NoFlight,
                                   floor |-> 0, got |-> NoRead]]

Calls(c) ==
    \E t \in Topic : \/ CacheHit(c, t) \/ CoolingDown(c, t) \/ Joins(c, t)
                     \/ \E f \in Flight : Leads(c, t, f)

\* mutant: the deadline covers the queue for admission only
TaskSteps_NoBuildDeadline(f) ==
    \/ Admitted(f) \/ CancelEnds(f)
    \/ flight[f].phase = "queued" /\ DeadlineFires(f)
    \/ DeadlineEnds(f)

\* What the loop and its timers do for a flight without any worker's help.
TaskSteps(f) == Admitted(f) \/ DeadlineFires(f) \/ DeadlineEnds(f) \/ CancelEnds(f)

WorkerSteps(f) == WorkerReads(f) \/ Completes(f) \/ BuildFails(f)

Next ==
    \/ \E t \in Topic : Publishes(t)
    \/ \E c \in Caller : Calls(c) \/ Gets(c) \/ Leaves(c)
    \/ \E f \in Flight : TaskSteps(f) \/ WorkerSteps(f)
    \/ \E k \in Key : CacheExpires(k) \/ CooldownExpires(k)

Spec == Init /\ [][Next]_vars

\* Timers fire and ready tasks run.  No worker has to answer, no client has to
\* leave.
FairSpec ==
    /\ Spec
    /\ \A f \in Flight : WF_vars(TaskSteps(f))
    /\ \A c \in Caller : WF_vars(Gets(c))

-----------------------------------------------------------------------------
(* Properties                                                               *)

\* The type of every variable.
TypeOK ==
    /\ gen \in [Topic -> Gen]
    /\ flights \in [Key -> Flight \cup {NoFlight}]
    /\ flight \in [Flight -> FlightState]
    /\ queue \in Seq(Flight)
    /\ free \in Nat
    /\ cache \in [Key -> Gen \cup {NoEntry}]
    /\ cooldowns \subseteq Key
    /\ caller \in [Caller -> CallerState]

WaitersOf(f) == {c \in Caller : caller[c].phase = "waiting" /\ caller[c].flight = f}

\* The counter is the number of waiters, a build nobody waits for is being
\* cancelled, and nobody waits for a build that its last waiter has cancelled:
\* a retry right after a cancellation never inherits CancelledError.
WaitersCounted ==
    \A f \in Flight :
        /\ flight[f].waiters = Cardinality(WaitersOf(f))
        /\ Live(f) => (flight[f].cancel = "waiters" <=> WaitersOf(f) = {})

\* At most one build of a key runs undisturbed, and it is the one callers find:
\* the end of a replaced task does not unregister its successor.
OneBuildPerKey ==
    \A f \in Flight :
        Live(f) /\ flight[f].cancel = "no" => flights[flight[f].key] = f

Holders == {f \in Flight : flight[f].phase = "building"}

\* Every way a build can end gives its admission permit back, once.
PermitsConserved == free + Cardinality(Holders) = Permits

\* A snapshot handed to a caller was read after the last payload published
\* before the call: cache and joined flights never reach across a publish.
FreshSnapshot ==
    \A c \in Caller : caller[c].got # NoRead => caller[c].got >= caller[c].floor

\* A key is never both served from the cache and refused for a past failure.
CacheExcludesCooldown == \A k \in cooldowns : cache[k] = NoEntry

\* The bookkeeping of the builds and of their results.
Bookkeeping ==
    /\ TypeOK
    /\ WaitersCounted
    /\ PermitsConserved
    /\ CacheExcludesCooldown

\* A build gives its permit back although its worker never answers and callers
\* keep joining it.
PermitReturns ==
    \A f \in Flight : flight[f].phase = "building" ~> flight[f].phase # "building"

\* Every call returns, though the builds of other keys hold all the permits.
CallReturns == \A c \in Caller : caller[c].phase = "waiting" ~> caller[c].phase # "waiting"

\* Every build ends, its permit with it, and every call: neither a worker that never
\* answers nor the deadline of another build holds the admission for ever.
EverythingEnds == PermitReturns /\ CallReturns
=============================================================================
